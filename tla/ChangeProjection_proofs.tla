----------------------- MODULE ChangeProjection_proofs -----------------------
(***************************************************************************)
(* ChangeProjection for every set of sessions, requests, operations and    *)
(* items and any bound on calls and on the audit.  IInv is inductive: what *)
(* the one call inside the lock knows of the files (CallInv) is still true *)
(* because nobody else writes them meanwhile (LockInv), and the files that *)
(* it leaves, finished or crashed, suit the unlocked reader (FileInv).     *)
(* Every property MCChangeProjection checks is a theorem below.            *)
(***************************************************************************)
EXTENDS ChangeProjection, TLAPS

\* The per-change lock admits one call at a time.
OneHolder == \A c, d \in Writers : pc[c] \in Locked /\ pc[d] \in Locked => c = d

\* A call in progress has its options, and a change file to work on.
CallsKnown == \A c \in Writers : pc[c] # "idle" => disk # None /\ req[c] \in Requests

\* What the call that is inside the lock knows of the change file.
DecisionCurrent ==
  \A c \in Writers : pc[c] = "write" =>
    /\ Verdict(disk, req[c], expect[c]) = "write"
    /\ mine[c] = Candidate(disk, req[c])

WrittenCurrent ==
  \A c \in Writers : pc[c] \in {"readback", "shard", "pointer", "proof"} =>
    mine[c] = disk /\ LastOp(disk) = req[c].op

Unpublished ==
  \A c \in Writers : pc[c] \in {"readback", "shard"} => disk.rev \notin DOMAIN shards

ShardPublished ==
  \A c \in Writers : pc[c] \in {"pointer", "proof"} =>
    disk.rev \in DOMAIN shards /\ shards[disk.rev] = Summary(disk, req[c].op)

OnlySummaryCalls ==
  \A c \in Writers : pc[c] \in {"shard", "pointer", "proof", "final"} => req[c].summary

\* A call that is about to report "committed" has published its revision.
ReportSound ==
  \A c \in Writers :
    /\ pc[c] \in {"release", "final"}
    /\ req[c].summary
    /\ result[c] = "committed"
    => mine[c] \in Snapshot /\ PublishedUpTo(mine[c].rev)

\* No shard is ahead of the change file; the one of its revision is its summary.
ShardsSound ==
  \A r \in DOMAIN shards :
    /\ disk # None
    /\ r <= disk.rev
    /\ r = disk.rev => shards[r] = Summary(disk, LastOp(disk))

\* The snapshot a reader has read stays the only one of its revision.
ReaderSound ==
  /\ reader.snap # None =>
       /\ disk # None
       /\ reader.snap.rev <= disk.rev
       /\ reader.snap.rev = disk.rev => reader.snap = disk
       /\ reader.snap.rev \in DOMAIN shards =>
            shards[reader.snap.rev] = Summary(reader.snap, LastOp(reader.snap))
  /\ reader.pc = "shard" => reader.ptr \in Pointer /\ Fresh(reader.snap, reader.ptr)

LockInv == HeldWhileGuarded /\ OneHolder /\ CallsKnown /\ OnlySummaryCalls
CallInv == /\ DecisionCurrent /\ WrittenCurrent /\ Unpublished
           /\ ShardPublished /\ ReportSound
FileInv == ShardsSound /\ PointerSound /\ ReaderSound /\ ReaderCoherent

IInv == TypeOK /\ LockInv /\ CallInv /\ FileInv

\* What the calls keep well formed whoever else writes the files: their locals, and
\* that what they are about to write or publish is there.
CallTypes ==
  /\ disk \in Snapshot \cup {None}
  /\ holders \subseteq Writers
  /\ pc \in [Writers -> Locked \cup {"idle", "lock", "final"}]
  /\ req \in [Writers -> Requests \cup {None}]
  /\ expect \in [Writers -> Nat \cup {NoRev}]
  /\ mine \in [Writers -> Snapshot \cup {None}]
  /\ result \in [Writers -> Results]
  /\ calls \in 0 .. MaxCalls
MineKnown ==
  \A c \in Writers : pc[c] \in {"write", "readback", "shard", "pointer", "proof"} => mine[c] # None
Formed == CallTypes /\ LockInv /\ MineKnown

\* The trimmed audit is the non-empty end of the one it is cut from.
LEMMA LastAuditFacts ==
  ASSUME NEW S, NEW s \in Seq(S)
  PROVE  LET t == LastAudit(s)
         IN /\ t \in Seq(S)
            /\ Len(t) <= Len(s)
            /\ Len(s) > 0 => Len(t) > 0
            /\ \A i \in 1 .. Len(t) : t[i] = s[i + (Len(s) - Len(t))]
<1> USE BoundsAssumption
<1>1. CASE Len(s) <= MaxAudit
  BY <1>1 DEF LastAudit
<1>2. CASE Len(s) > MaxAudit
  <2>1. LastAudit(s) = SubSeq(s, Len(s) - MaxAudit + 1, Len(s))
    BY <1>2 DEF LastAudit
  <2>2. Len(s) \in Nat /\ MaxAudit \in Nat
    OBVIOUS
  <2>3. \A i \in (Len(s) - MaxAudit + 1) .. Len(s) : s[i] \in S
    BY <1>2, <2>2
  <2> QED
    BY <1>2, <2>1, <2>2, <2>3
<1> QED
  BY <1>1, <1>2

\* What is about to be written is the next revision, signed by its operation.
LEMMA CandidateFacts ==
  ASSUME NEW snap \in Snapshot, NEW q \in Requests, NEW e,
         Verdict(snap, q, e) = "write"
  PROVE  LET w == Candidate(snap, q)
         IN /\ w \in Snapshot
            /\ w.rev = snap.rev + 1
            /\ w.srev >= snap.srev
            /\ w.commits # <<>>
            /\ LastOp(w) = q.op
<1> DEFINE entry == [op |-> q.op, hash |-> q.hash, srev |-> q.srev,
                     rev |-> snap.rev + 1]
           all == Append(snap.commits, entry)
<1>1. q \in Request
  BY RequestsAssumption
<1>2. entry \in AuditEntry
  BY <1>1 DEF Request, AuditEntry, Snapshot
<1>3. all \in Seq(AuditEntry) /\ Len(all) = Len(snap.commits) + 1 /\ all[Len(all)] = entry
  BY <1>2 DEF Snapshot
<1> HIDE DEF entry, all
<1>4. /\ LastAudit(all) \in Seq(AuditEntry)
      /\ Len(LastAudit(all)) > 0
      /\ LastAudit(all)[Len(LastAudit(all))] = entry
  BY <1>3, LastAuditFacts
<1>5. Mutated(snap, q) \in SUBSET Items
  BY <1>1 DEF Mutated, Snapshot, Request
<1>6. q.srev # NoRev => q.srev \in Nat /\ ~(q.srev < snap.srev)
  BY <1>1 DEF Verdict, Request
<1>7. Candidate(snap, q) =
        [rev |-> snap.rev + 1,
         srev |-> IF q.srev = NoRev THEN snap.srev ELSE q.srev,
         items |-> Mutated(snap, q), commits |-> LastAudit(all)]
  BY DEF Candidate, all, entry
<1>8. entry.op = q.op
  BY DEF entry
<1> QED
  BY <1>4, <1>5, <1>6, <1>7, <1>8 DEF Snapshot, LastOp

\* The shard and the pointer written for a snapshot are well formed.
LEMMA SummaryType ==
  ASSUME NEW snap \in Snapshot, NEW o \in Ops \cup {CreateOp}
  PROVE  Summary(snap, o) \in Shard /\ PointerTo(Summary(snap, o)) \in Pointer
BY DEF Summary, PointerTo, Shard, Pointer, Snapshot

\* A request that goes through the summary wrapper carries an operation.
LEMMA SummaryOpType ==
  ASSUME NEW q \in Requests, q.summary
  PROVE  q.op \in Ops \cup {CreateOp}
BY RequestsAssumption DEF Request

\* Filing a shard adds its revision and keeps the files well formed.
LEMMA FiledFacts ==
  ASSUME NEW S, NEW files, DOMAIN files \subseteq Nat, files \in [DOMAIN files -> S],
         NEW r \in Nat, NEW x \in S
  PROVE  LET f == Filed(files, r, x)
         IN /\ DOMAIN f = DOMAIN files \cup {r}
            /\ DOMAIN f \subseteq Nat
            /\ f \in [DOMAIN f -> S]
            /\ f[r] = x
            /\ \A i \in DOMAIN files : i # r => f[i] = files[i]
BY DEF Filed

\* The verdicts are outcomes a call can return, except "write".
LEMMA VerdictType ==
  ASSUME NEW snap, NEW q, NEW e, Verdict(snap, q, e) # "write"
  PROVE  Verdict(snap, q, e) \in Results \ {"committed"}
<1> DEFINE replay == \E a \in Recorded(snap, q) : SameCall(a, q)
           taken == q.srev # NoRev /\ StateTaken(snap, q)
           regress == q.srev # NoRev /\ q.srev < snap.srev
           refused == q.kind = "throw" \/ Wipes(snap, q)
<1>1. Verdict(snap, q, e) =
        IF Recorded(snap, q) # {} THEN IF replay THEN "idempotent" ELSE "operation_conflict"
        ELSE IF Stale(snap, e) THEN "stale_revision"
        ELSE IF regress THEN "state_regression"
        ELSE IF taken THEN "state_revision_conflict"
        ELSE IF refused THEN "operator_required" ELSE "write"
  BY DEF Verdict
<1> HIDE DEF replay, taken, regress, refused
<1> QED
  BY <1>1 DEF Results

\* A call that is about to write writes the successor of the current file.
LEMMA WriteReady ==
  ASSUME IInv, NEW c \in Writers, pc[c] = "write"
  PROVE  /\ disk \in Snapshot /\ disk # None /\ req[c] \in Requests
         /\ mine[c] \in Snapshot /\ mine[c] # None
         /\ mine[c].rev = disk.rev + 1
         /\ mine[c].srev >= disk.srev
         /\ LastOp(mine[c]) = req[c].op
<1>1. disk \in Snapshot /\ disk # None /\ req[c] \in Requests
  BY DEF IInv, TypeOK, LockInv, CallsKnown
<1>2. mine[c] = Candidate(disk, req[c]) /\ Verdict(disk, req[c], expect[c]) = "write"
  BY DEF IInv, CallInv, DecisionCurrent
<1> QED
  BY <1>1, <1>2, CandidateFacts, NoneAssumption

LEMMA FormedFromInv == IInv => Formed
<1> SUFFICES ASSUME IInv PROVE Formed
  OBVIOUS
<1>1. \A c \in Writers : pc[c] = "write" => mine[c] # None
  BY WriteReady
<1>2. \A c \in Writers : pc[c] \in {"readback", "shard", "pointer", "proof"} => mine[c] # None
  BY DEF IInv, LockInv, CallsKnown, CallInv, WrittenCurrent
<1> QED
  BY <1>1, <1>2 DEF IInv, TypeOK, Formed, CallTypes, MineKnown

\* No step of a call or a crash leaves the types of the calls.
LEMMA CallTypesStep == Formed /\ [Next]_vars => CallTypes'
<1> SUFFICES ASSUME Formed, [Next]_vars PROVE CallTypes'
  OBVIOUS
<1> USE DEF Formed, CallTypes, Goto, Return, Forget, fileVars, writerVars
<1>1. ASSUME NEW c \in Writers, Begin(c) PROVE CallTypes'
  BY <1>1, BoundsAssumption, NoneAssumption DEF Begin, Results, Snapshot, Locked
<1>2. ASSUME NEW c \in Writers, BeginMissing(c) PROVE CallTypes'
  BY <1>2, BoundsAssumption DEF BeginMissing, Results
<1>3. ASSUME NEW c \in Writers, AcquireLock(c) PROVE CallTypes'
  BY <1>3 DEF AcquireLock, Lock!Enter, Locked
<1>4. ASSUME NEW c \in Writers, LockTimeout(c) PROVE CallTypes'
  BY <1>4 DEF LockTimeout, Results
<1>5. ASSUME NEW c \in Writers, Load(c) PROVE CallTypes'
  <2>1. disk \in Snapshot /\ req[c] \in Requests
    BY <1>5 DEF Load, LockInv, CallsKnown
  <2>2. CASE Verdict(disk, req[c], expect[c]) = "write"
    <3>1. Candidate(disk, req[c]) \in Snapshot
      BY <2>1, <2>2, CandidateFacts
    <3> QED
      BY <1>5, <2>2, <3>1 DEF Load, Locked
  <2>3. CASE Verdict(disk, req[c], expect[c]) # "write"
    <3>1. Verdict(disk, req[c], expect[c]) \in Results
      BY <2>3, VerdictType
    <3> QED
      BY <1>5, <2>1, <2>3, <3>1 DEF Load, Locked
  <2> QED
    BY <2>2, <2>3
<1>6. ASSUME NEW c \in Writers, ReadFails(c) PROVE CallTypes'
  BY <1>6 DEF ReadFails, Results, Locked
<1>7. ASSUME NEW c \in Writers, Write(c) PROVE CallTypes'
  BY <1>7 DEF Write, Locked
<1>8. ASSUME NEW c \in Writers, WriteFails(c) PROVE CallTypes'
  BY <1>8 DEF WriteFails, Results, Locked
<1>9. ASSUME NEW c \in Writers, Readback(c) PROVE CallTypes'
  BY <1>9 DEF Readback, Results, Locked
<1>10. ASSUME NEW c \in Writers, PublishShard(c) PROVE CallTypes'
  BY <1>10 DEF PublishShard, Locked
<1>11. ASSUME NEW c \in Writers, PublishPointer(c) PROVE CallTypes'
  BY <1>11 DEF PublishPointer, Locked
<1>12. ASSUME NEW c \in Writers, PublishFails(c) PROVE CallTypes'
  BY <1>12 DEF PublishFails, Results, Locked
<1>13. ASSUME NEW c \in Writers, Prove(c) PROVE CallTypes'
  BY <1>13 DEF Prove, Results, Locked
<1>14. ASSUME NEW c \in Writers, Release(c) PROVE CallTypes'
  BY <1>14 DEF Release, Lock!Leave
<1>15. ASSUME NEW c \in Writers, Final(c) PROVE CallTypes'
  BY <1>15 DEF Final, Results
<1>16. ASSUME NEW c \in Writers, Crash(c) PROVE CallTypes'
  BY <1>16 DEF Crash, Results, Lock!Leave
<1>17. ASSUME ReadSnapshot PROVE CallTypes'
  BY <1>17 DEF ReadSnapshot
<1>18. ASSUME ReadPointer PROVE CallTypes'
  BY <1>18 DEF ReadPointer
<1>19. ASSUME ReadShard PROVE CallTypes'
  BY <1>19 DEF ReadShard
<1>20. ASSUME UNCHANGED vars PROVE CallTypes'
  BY <1>20 DEF vars
<1> QED
  BY <1>1, <1>2, <1>3, <1>4, <1>5, <1>6, <1>7, <1>8, <1>9, <1>10, <1>11, <1>12,
     <1>13, <1>14, <1>15, <1>16, <1>17, <1>18, <1>19, <1>20 DEF Next, CallStep

\* What is about to be written, proved or published is there.
LEMMA MineStep == Formed /\ [Next]_vars => MineKnown'
<1> SUFFICES ASSUME Formed, [Next]_vars PROVE MineKnown'
  OBVIOUS
<1> USE DEF Formed, CallTypes, MineKnown, Goto, Forget, writerVars
<1>1. ASSUME NEW c \in Writers, Load(c) PROVE MineKnown'
  <2>1. disk \in Snapshot /\ req[c] \in Requests
    BY <1>1 DEF Load, LockInv, CallsKnown
  <2>2. CASE Verdict(disk, req[c], expect[c]) = "write"
    <3>1. Candidate(disk, req[c]) # None
      BY <2>1, <2>2, CandidateFacts, NoneAssumption
    <3> QED
      BY <1>1, <2>2, <3>1 DEF Load
  <2>3. CASE Verdict(disk, req[c], expect[c]) # "write"
    BY <1>1, <2>3 DEF Load
  <2> QED
    BY <2>2, <2>3
<1>2. ASSUME NEW c \in Writers, Readback(c) PROVE MineKnown'
  BY <1>2 DEF Readback, LockInv, CallsKnown
<1>3. ASSUME NEW c \in Writers,
             Begin(c) \/ BeginMissing(c) \/ AcquireLock(c) \/ LockTimeout(c) \/ ReadFails(c) \/ Crash(c)
      PROVE  MineKnown'
  BY <1>3 DEF Begin, BeginMissing, AcquireLock, LockTimeout, ReadFails, Crash
<1>4. ASSUME NEW c \in Writers,
             Write(c) \/ WriteFails(c) \/ PublishShard(c) \/ PublishPointer(c) \/ PublishFails(c)
      PROVE  MineKnown'
  BY <1>4 DEF Write, WriteFails, PublishShard, PublishPointer, PublishFails
<1>5. ASSUME NEW c \in Writers, Prove(c) \/ Release(c) \/ Final(c) PROVE MineKnown'
  BY <1>5 DEF Prove, Release, Final
<1>6. CASE UNCHANGED vars \/ ReadSnapshot \/ ReadPointer \/ ReadShard
  BY <1>6 DEF vars, ReadSnapshot, ReadPointer, ReadShard
<1> QED
  BY <1>1, <1>2, <1>3, <1>4, <1>5, <1>6 DEF Next, CallStep

\* No step of a call, a crash or a reader leaves the types.
LEMMA TypeStep == IInv /\ [Next]_vars => TypeOK'
<1> SUFFICES ASSUME IInv, [Next]_vars PROVE TypeOK'
  OBVIOUS
<1> DEFINE FileTypes == /\ DOMAIN shards \subseteq Nat /\ shards \in [DOMAIN shards -> Shard]
                        /\ pointer \in Pointer \cup {None}
                        /\ reader \in [pc : {"idle", "pointer", "shard", "ok", "degraded", "not_found"},
                                       snap : Snapshot \cup {None}, ptr : Pointer \cup {None},
                                       shard : Shard \cup {None}]
<1>1. CallTypes'
  BY FormedFromInv, CallTypesStep
<1>2. ASSUME UNCHANGED <<shards, pointer, reader>> PROVE FileTypes'
  <2>1. FileTypes
    BY DEF IInv, TypeOK
  <2> QED
    BY <1>2, <2>1
<1> USE DEF IInv, TypeOK, fileVars, writerVars
<1>3. ASSUME NEW c \in Writers, PublishShard(c) PROVE FileTypes'
  <2>1. mine[c] \in Snapshot /\ req[c] \in Requests /\ req[c].summary
    BY <1>3 DEF PublishShard, LockInv, CallInv, CallsKnown, WrittenCurrent, OnlySummaryCalls
  <2>2. Summary(mine[c], req[c].op) \in Shard /\ mine[c].rev \in Nat
    BY <2>1, SummaryType, SummaryOpType DEF Snapshot
  <2>3. /\ DOMAIN shards' \subseteq Nat
        /\ shards' \in [DOMAIN shards' -> Shard]
    <3>1. shards' = Filed(shards, mine[c].rev, Summary(mine[c], req[c].op))
      BY <1>3 DEF PublishShard
    <3>2. DOMAIN shards \subseteq Nat /\ shards \in [DOMAIN shards -> Shard]
      OBVIOUS
    <3> HIDE DEF TypeOK
    <3> QED
      BY <2>2, <3>1, <3>2, FiledFacts
  <2> QED
    BY <1>3, <2>3 DEF PublishShard
<1>4. ASSUME NEW c \in Writers, PublishPointer(c) PROVE FileTypes'
  <2>1. mine[c] \in Snapshot /\ req[c] \in Requests /\ req[c].summary
    BY <1>4 DEF PublishPointer, LockInv, CallInv, CallsKnown, WrittenCurrent, OnlySummaryCalls
  <2>2. PointerTo(Summary(mine[c], req[c].op)) \in Pointer
    BY <2>1, SummaryType, SummaryOpType
  <2> QED
    BY <1>4, <2>2 DEF PublishPointer
<1>5. ASSUME ReadSnapshot PROVE FileTypes'
  BY <1>5 DEF ReadSnapshot
<1>6. ASSUME ReadPointer PROVE FileTypes'
  <2>1. CASE pointer # None /\ Fresh(reader.snap, pointer)
    <3>1. reader' = [reader EXCEPT !.pc = "shard", !.ptr = pointer]
      BY <1>6, <2>1 DEF ReadPointer
    <3>2. pointer \in Pointer
      BY <2>1
    <3> QED
      BY <1>6, <3>1, <3>2 DEF ReadPointer
  <2>2. CASE ~(pointer # None /\ Fresh(reader.snap, pointer))
    <3>1. reader' \in {Answer("not_found"), Answer("degraded")}
      BY <1>6, <2>2 DEF ReadPointer
    <3> QED
      BY <1>6, <3>1 DEF ReadPointer, Answer
  <2> QED
    BY <2>1, <2>2
<1>7. ASSUME ReadShard PROVE FileTypes'
  <2>1. CASE Named(reader.ptr) /\ reader.snap # None
    <3>1. shards[reader.ptr.rev] \in Shard
      BY <2>1 DEF Named
    <3> QED
      BY <1>7, <2>1, <3>1, ZenonT(60) DEF ReadShard
  <2>2. CASE ~(Named(reader.ptr) /\ reader.snap # None)
    <3>1. reader' = Answer("degraded")
      BY <1>7, <2>2 DEF ReadShard
    <3> QED
      BY <1>7, <3>1 DEF ReadShard, Answer
  <2> QED
    BY <2>1, <2>2
<1>8. FileTypes'
  BY <1>2, <1>3, <1>4, <1>5, <1>6, <1>7 DEF Next, CallStep, vars, fileVars, Begin, BeginMissing,
     AcquireLock, LockTimeout, Load, ReadFails, Write, WriteFails, Readback, PublishFails, Prove,
     Release, Final, Crash
<1> QED
  BY <1>1, <1>8 DEF TypeOK, CallTypes

\* The lock is held by exactly one call, from its entry to its finally.
LEMMA LockStep == Formed /\ [Next]_vars => LockInv'
<1> SUFFICES ASSUME Formed, [Next]_vars PROVE LockInv'
  OBVIOUS
<1> USE DEF Formed, CallTypes, MineKnown, LockInv, HeldWhileGuarded, OneHolder, CallsKnown,
            OnlySummaryCalls, Goto, Forget, Locked, fileVars, writerVars
<1>1. ASSUME NEW c \in Writers, Begin(c) PROVE LockInv'
  BY <1>1 DEF Begin
<1>2. ASSUME NEW c \in Writers, BeginMissing(c) PROVE LockInv'
  BY <1>2 DEF BeginMissing
<1>3. ASSUME NEW c \in Writers, AcquireLock(c) PROVE LockInv'
  BY <1>3 DEF AcquireLock, Lock!Enter
<1>4. ASSUME NEW c \in Writers, LockTimeout(c) PROVE LockInv'
  BY <1>4 DEF LockTimeout
<1>5. ASSUME NEW c \in Writers, Load(c) PROVE LockInv'
  <2>1. CASE Verdict(disk, req[c], expect[c]) = "write"
    BY <1>5, <2>1 DEF Load
  <2>2. CASE Verdict(disk, req[c], expect[c]) # "write"
    BY <1>5, <2>2, VerdictType DEF Load
  <2> QED
    BY <2>1, <2>2
<1>6. ASSUME NEW c \in Writers, ReadFails(c) PROVE LockInv'
  BY <1>6 DEF ReadFails
<1>7. ASSUME NEW c \in Writers, Write(c) PROVE LockInv'
  BY <1>7 DEF Write
<1>8. ASSUME NEW c \in Writers, WriteFails(c) PROVE LockInv'
  BY <1>8 DEF WriteFails
<1>9. ASSUME NEW c \in Writers, Readback(c) PROVE LockInv'
  BY <1>9 DEF Readback
<1>10. ASSUME NEW c \in Writers, PublishShard(c) PROVE LockInv'
  BY <1>10 DEF PublishShard
<1>11. ASSUME NEW c \in Writers, PublishPointer(c) PROVE LockInv'
  BY <1>11 DEF PublishPointer
<1>12. ASSUME NEW c \in Writers, PublishFails(c) PROVE LockInv'
  BY <1>12 DEF PublishFails
<1>13. ASSUME NEW c \in Writers, Prove(c) PROVE LockInv'
  BY <1>13 DEF Prove
<1>14. ASSUME NEW c \in Writers, Release(c) PROVE LockInv'
  BY <1>14 DEF Release, Lock!Leave
<1>15. ASSUME NEW c \in Writers, Final(c) PROVE LockInv'
  BY <1>15 DEF Final
<1>16. ASSUME NEW c \in Writers, Crash(c) PROVE LockInv'
  BY <1>16 DEF Crash, Lock!Leave
<1>17. ASSUME ReadSnapshot PROVE LockInv'
  BY <1>17 DEF ReadSnapshot
<1>18. ASSUME ReadPointer PROVE LockInv'
  BY <1>18 DEF ReadPointer
<1>19. ASSUME ReadShard PROVE LockInv'
  BY <1>19 DEF ReadShard
<1>20. ASSUME UNCHANGED vars PROVE LockInv'
  BY <1>20 DEF vars
<1> QED
   BY <1>1, <1>2, <1>3, <1>4, <1>5, <1>6, <1>7, <1>8, <1>9, <1>10, <1>11,
     <1>12, <1>13, <1>14, <1>15, <1>16, <1>17, <1>18, <1>19, <1>20 DEF Next,
     CallStep

\* The three files stay in step under every write, in whatever state a crash
\* leaves them, and the reader that took them one by one is not deceived.
LEMMA FileStep == IInv /\ [Next]_vars => FileInv'
<1> SUFFICES ASSUME IInv, [Next]_vars PROVE FileInv'
  OBVIOUS
<1> USE DEF FileInv
<1>1. TypeOK /\ ShardsSound /\ PointerSound /\ ReaderSound /\ ReaderCoherent
  BY DEF IInv
<1>2. CASE UNCHANGED <<fileVars, reader>>
  BY <1>1, <1>2 DEF ShardsSound, PointerSound, ReaderSound, ReaderCoherent, Named,
                    fileVars, LastOp, Summary, PointerTo, Fresh
<1>3. ASSUME NEW c \in Writers, pc[c] = "write", disk' \in {disk, mine[c]},
             UNCHANGED <<shards, pointer, reader>>
      PROVE  FileInv'
  <2>1. CASE disk' = disk
    BY <1>2, <1>3, <2>1 DEF fileVars
  <2>2. CASE disk' = mine[c]
    <3>1. disk' # None /\ disk'.rev = disk.rev + 1 /\ disk.rev \in Nat
      BY <1>3, <2>2, WriteReady DEF Snapshot
    <3>2. ShardsSound'
      BY <1>1, <1>3, <3>1 DEF ShardsSound, TypeOK
    <3>3. PointerSound'
      BY <1>1, <1>3, <3>1 DEF PointerSound, Named, PointerTo, TypeOK, Pointer
    <3>4. ReaderSound'
      BY <1>1, <1>3, <3>1 DEF ReaderSound, TypeOK, Snapshot, Fresh
    <3>5. ReaderCoherent'
      BY <1>1, <1>3 DEF ReaderCoherent
    <3> QED
      BY <3>2, <3>3, <3>4, <3>5
  <2> QED
    BY <1>3, <2>1, <2>2
<1>4. ASSUME NEW c \in Writers, PublishShard(c) PROVE FileInv'
  <2> DEFINE s == Summary(disk, LastOp(disk))
  <2>1. /\ disk \in Snapshot /\ disk # None /\ mine[c] = disk
        /\ disk.rev \notin DOMAIN shards
        /\ LastOp(disk) = req[c].op
        /\ req[c] \in Requests /\ req[c].summary
    BY <1>4 DEF PublishShard, IInv, TypeOK, CallInv, LockInv, CallsKnown,
                WrittenCurrent, Unpublished, OnlySummaryCalls
  <2>2. s \in Shard /\ disk.rev \in Nat
    BY <2>1, SummaryType, SummaryOpType DEF Snapshot
  <2>3. shards' = Filed(shards, disk.rev, s)
    BY <1>4, <2>1 DEF PublishShard
  <2> HIDE DEF s
  <2>4. /\ DOMAIN shards' = DOMAIN shards \cup {disk.rev}
        /\ shards'[disk.rev] = s
        /\ \A i \in DOMAIN shards : shards'[i] = shards[i]
    <3>1. DOMAIN shards \subseteq Nat /\ shards \in [DOMAIN shards -> Shard]
      BY <1>1 DEF TypeOK
    <3>2. LET f == Filed(shards, disk.rev, s)
          IN /\ DOMAIN f = DOMAIN shards \cup {disk.rev}
             /\ f[disk.rev] = s
             /\ \A i \in DOMAIN shards : i # disk.rev => f[i] = shards[i]
      BY <2>2, <3>1 DEF Filed
    <3> QED
      BY <2>1, <2>3, <3>2
  <2>5. UNCHANGED <<disk, pointer, reader>>
    BY <1>4 DEF PublishShard
  <2>6. ShardsSound'
    BY <1>1, <2>1, <2>2, <2>4, <2>5 DEF ShardsSound, s
  <2>7. PointerSound'
    BY <1>1, <2>4, <2>5 DEF PointerSound, Named, PointerTo
  <2>8. ReaderSound'
    <3>1. CASE reader.snap = None
      BY <1>1, <2>5, <3>1 DEF ReaderSound, Fresh
    <3>2. CASE reader.snap # None /\ reader.snap.rev = disk.rev
      BY <1>1, <2>4, <2>5, <3>2 DEF ReaderSound, s, Fresh
    <3>3. CASE reader.snap # None /\ reader.snap.rev # disk.rev
      BY <1>1, <2>4, <2>5, <3>3 DEF ReaderSound, Fresh
    <3> QED
      BY <3>1, <3>2, <3>3
  <2>9. ReaderCoherent'
    BY <1>1, <2>5 DEF ReaderCoherent
  <2> QED
    BY <2>6, <2>7, <2>8, <2>9
<1>5. ASSUME NEW c \in Writers, PublishPointer(c) PROVE FileInv'
  <2>1. /\ disk \in Snapshot /\ disk # None /\ mine[c] = disk
        /\ disk.rev \in DOMAIN shards
        /\ shards[disk.rev] = Summary(disk, req[c].op)
    BY <1>5 DEF PublishPointer, IInv, TypeOK, CallInv, LockInv, CallsKnown,
                WrittenCurrent, ShardPublished
  <2>2. /\ pointer' = PointerTo(Summary(disk, req[c].op))
        /\ UNCHANGED <<disk, shards, reader>>
    BY <1>5, <2>1 DEF PublishPointer
  <2>3. PointerSound'
    BY <2>1, <2>2 DEF PointerSound, Named, PointerTo, Summary, Snapshot
  <2>4. ShardsSound' /\ ReaderSound' /\ ReaderCoherent'
    BY <1>1, <2>2 DEF ShardsSound, ReaderSound, ReaderCoherent, Fresh
  <2> QED
    BY <2>3, <2>4
<1>6. ASSUME ReadSnapshot PROVE FileInv'
  <2>1. /\ UNCHANGED <<disk, shards, pointer>>
        /\ reader'.pc = "pointer"
        /\ reader'.snap \in {disk, None}
    BY <1>6 DEF ReadSnapshot, fileVars
  <2>2. ShardsSound' /\ PointerSound'
    BY <1>1, <2>1 DEF ShardsSound, PointerSound, Named, PointerTo
  <2>3. ReaderSound' /\ ReaderCoherent'
    BY <1>1, <2>1 DEF ShardsSound, ReaderSound, ReaderCoherent, TypeOK, Snapshot
  <2> QED
    BY <2>2, <2>3
<1>7. ASSUME ReadPointer PROVE FileInv'
  <2>1. UNCHANGED <<disk, shards, pointer>>
    BY <1>7 DEF ReadPointer, fileVars
  <2>2. ShardsSound' /\ PointerSound'
    BY <1>1, <2>1 DEF ShardsSound, PointerSound, Named, PointerTo
  <2>3. CASE pointer # None /\ Fresh(reader.snap, pointer)
    <3>1. /\ reader'.pc = "shard" /\ reader'.snap = reader.snap
          /\ reader'.ptr = pointer
      BY <1>1, <1>7, <2>3 DEF ReadPointer, TypeOK
    <3> QED
      BY <1>1, <2>1, <2>2, <2>3, <3>1 DEF ReaderSound, ReaderCoherent, Fresh, TypeOK
  <2>4. CASE ~(pointer # None /\ Fresh(reader.snap, pointer))
    <3>1. reader'.pc \notin {"shard", "ok"} /\ reader'.snap = None
      BY <1>7, <2>4 DEF ReadPointer, Answer
    <3> QED
      BY <2>2, <3>1 DEF ReaderSound, ReaderCoherent
  <2> QED
    BY <2>3, <2>4
<1>8. ASSUME ReadShard PROVE FileInv'
  <2>1. UNCHANGED <<disk, shards, pointer>> /\ reader.pc = "shard"
    BY <1>8 DEF ReadShard, fileVars
  <2>2. ShardsSound' /\ PointerSound'
    BY <1>1, <2>1 DEF ShardsSound, PointerSound, Named, PointerTo
  <2>3. CASE Named(reader.ptr) /\ reader.snap # None
    <3>1. /\ reader'.pc = "ok" /\ reader'.snap = reader.snap
          /\ reader'.shard = shards[reader.ptr.rev]
      BY <1>1, <1>8, <2>3 DEF ReadShard, TypeOK
    <3>2. reader.snap.rev = reader.ptr.rev /\ reader.ptr.rev \in DOMAIN shards
      BY <1>1, <2>1, <2>3 DEF ReaderSound, Fresh, Named
    <3>3. reader'.shard = Summary(reader.snap, LastOp(reader.snap))
      BY <1>1, <2>3, <3>1, <3>2 DEF ReaderSound
    <3> QED
      BY <1>1, <2>1, <2>2, <3>1, <3>3 DEF ReaderSound, ReaderCoherent
  <2>4. CASE ~(Named(reader.ptr) /\ reader.snap # None)
    <3>1. reader'.pc = "degraded" /\ reader'.snap = None
      BY <1>8, <2>4 DEF ReadShard, Answer
    <3> QED
      BY <2>2, <3>1 DEF ReaderSound, ReaderCoherent
  <2> QED
    BY <2>3, <2>4
<1>9. ASSUME NEW c \in Writers, CallStep(c), ~PublishShard(c), ~PublishPointer(c)
      PROVE  FileInv'
  <2>1. \/ UNCHANGED <<fileVars, reader>>
        \/ /\ pc[c] = "write" /\ disk' \in {disk, mine[c]}
           /\ UNCHANGED <<shards, pointer, reader>>
    BY <1>9 DEF CallStep, AcquireLock, LockTimeout, Load, ReadFails, Write, WriteFails,
                Readback, PublishFails, Prove, Release, Final, fileVars
  <2> QED
    BY <1>2, <1>3, <2>1
<1>10. ASSUME NEW c \in Writers, Begin(c) \/ BeginMissing(c) \/ Crash(c)
       PROVE  FileInv'
  BY <1>2, <1>10 DEF Begin, BeginMissing, Crash, fileVars
<1>11. CASE UNCHANGED vars
  BY <1>2, <1>11 DEF vars, fileVars
<1> QED
  BY <1>4, <1>5, <1>6, <1>7, <1>8, <1>9, <1>10, <1>11 DEF Next

\* What the call inside the lock has decided, written and published stays
\* true of the files until it leaves.
LEMMA CallInvStep == IInv /\ [Next]_vars => CallInv'
<1> SUFFICES ASSUME IInv, [Next]_vars PROVE CallInv'
  OBVIOUS
<1> USE DEF IInv, TypeOK, LockInv, OneHolder, CallsKnown, OnlySummaryCalls,
   CallInv, DecisionCurrent, WrittenCurrent, Unpublished, ShardPublished,
   ReportSound, PublishedUpTo, Goto, Return, Forget, Locked, fileVars,
   writerVars
<1>1. ASSUME NEW c \in Writers, Begin(c) PROVE CallInv'
  BY <1>1 DEF Begin
<1>2. ASSUME NEW c \in Writers, BeginMissing(c) PROVE CallInv'
  BY <1>2 DEF BeginMissing
<1>3. ASSUME NEW c \in Writers, AcquireLock(c) PROVE CallInv'
  BY <1>3 DEF AcquireLock, Lock!Enter
<1>4. ASSUME NEW c \in Writers, LockTimeout(c) PROVE CallInv'
  BY <1>4 DEF LockTimeout
<1>5. ASSUME NEW c \in Writers, Load(c) PROVE CallInv'
  <2>1. CASE Verdict(disk, req[c], expect[c]) = "write"
    BY <1>5, <2>1 DEF Load
  <2>2. CASE Verdict(disk, req[c], expect[c]) # "write"
    BY <1>5, <2>2, VerdictType DEF Load
  <2> QED
    BY <2>1, <2>2
<1>6. ASSUME NEW c \in Writers, ReadFails(c) PROVE CallInv'
  BY <1>6 DEF ReadFails
<1>7. ASSUME NEW c \in Writers, Write(c) PROVE CallInv'
  <2>1. /\ disk' = mine[c] /\ mine' = mine /\ req' = req /\ shards' = shards
        /\ pc' = [pc EXCEPT ![c] = "readback"]
        /\ UNCHANGED <<result, pointer, expect>>
    BY <1>7 DEF Write
  <2>2. /\ LastOp(disk') = req[c].op
        /\ disk'.rev \notin DOMAIN shards
    BY <1>7, <2>1, WriteReady DEF Write, FileInv, ShardsSound, Snapshot
  <2>3. \A d \in Writers : d # c => pc'[d] \notin Locked
    BY <1>7, <2>1 DEF Write
  <2>4. pc'[c] = "readback"
    BY <2>1
  <2>5. DecisionCurrent' /\ WrittenCurrent' /\ Unpublished' /\ ShardPublished'
    BY <2>1, <2>2, <2>3, <2>4
  <2>6. ReportSound'
    BY <2>1, <2>4
  <2> QED
    BY <2>5, <2>6
<1>8. ASSUME NEW c \in Writers, WriteFails(c) PROVE CallInv'
  BY <1>8 DEF WriteFails
<1>9. ASSUME NEW c \in Writers, Readback(c) PROVE CallInv'
  BY <1>9 DEF Readback
<1>10. ASSUME NEW c \in Writers, PublishShard(c) PROVE CallInv'
  <2>1. /\ shards' = Filed(shards, disk.rev, Summary(disk, req[c].op))
        /\ pc' = [pc EXCEPT ![c] = "pointer"]
        /\ UNCHANGED <<disk, pointer, mine, req, result, expect>>
        /\ mine[c] = disk /\ LastOp(disk) = req[c].op
    BY <1>10 DEF PublishShard
  <2>2. /\ disk.rev \in DOMAIN shards'
        /\ shards'[disk.rev] = Summary(disk, req[c].op)
    BY <2>1 DEF Filed
  <2>3. \A d \in Writers : d # c => pc'[d] \notin Locked
    BY <1>10, <2>1 DEF PublishShard
  <2>4. pc'[c] = "pointer"
    BY <2>1
  <2>5. DecisionCurrent' /\ WrittenCurrent' /\ Unpublished' /\ ShardPublished'
    BY <2>1, <2>2, <2>3, <2>4
  <2>6. ReportSound'
    BY <2>1, <2>4
  <2> QED
    BY <2>5, <2>6
<1>11. ASSUME NEW c \in Writers, PublishPointer(c) PROVE CallInv'
  <2>1. /\ pointer' = PointerTo(Summary(disk, req[c].op))
        /\ pc' = [pc EXCEPT ![c] = "proof"]
        /\ UNCHANGED <<disk, shards, mine, req, result, expect>>
        /\ mine[c] = disk /\ disk # None
    BY <1>11 DEF PublishPointer
  <2>2. pointer' # None /\ pointer'.rev = disk.rev
    <3>1. pointer'.rev = disk.rev
      BY <2>1 DEF PointerTo, Summary
    <3>2. disk \in Snapshot /\ req[c] \in Requests /\ req[c].summary
      BY <1>11, <2>1 DEF PublishPointer
    <3>3. pointer' \in Pointer
      BY <2>1, <3>2, SummaryType, SummaryOpType
    <3> QED
      BY <3>1, <3>3, NoneAssumption
  <2>3. \A d \in Writers : d # c => pc'[d] \notin Locked
    BY <1>11, <2>1 DEF PublishPointer
  <2>4. pc'[c] = "proof" /\ pc[c] = "pointer"
    BY <1>11, <2>1 DEF PublishPointer
  <2>5. DecisionCurrent' /\ WrittenCurrent' /\ Unpublished' /\ ShardPublished'
    BY <2>1, <2>3, <2>4
  <2>6. ReportSound'
    <3>1. pointer # None => pointer.rev <= disk.rev
      BY DEF FileInv, PointerSound
    <3> QED
      BY <2>1, <2>2, <2>4, <3>1 DEF Snapshot, Pointer
  <2> QED
    BY <2>5, <2>6
<1>12. ASSUME NEW c \in Writers, PublishFails(c) PROVE CallInv'
  BY <1>12 DEF PublishFails
<1>13. ASSUME NEW c \in Writers, Prove(c) PROVE CallInv'
  <2>1. /\ pc[c] = "proof" /\ pc' = [pc EXCEPT ![c] = "release"]
        /\ UNCHANGED <<disk, shards, pointer, mine, req, expect>>
        /\ \A d \in Writers : d # c => result'[d] = result[d]
        /\ result'[c] = "committed" => Published(c)
        /\ mine[c] = disk /\ disk # None
    BY <1>13 DEF Prove
  <2>2. Published(c) => mine[c] \in Snapshot /\ PublishedUpTo(mine[c].rev)
    <3> SUFFICES ASSUME Published(c)
                 PROVE  mine[c] \in Snapshot /\ PublishedUpTo(mine[c].rev)
      OBVIOUS
    <3>1. pointer = PointerTo(Summary(disk, req[c].op)) /\ disk \in Snapshot
      BY <2>1 DEF Published
    <3>2. pointer \in Pointer /\ pointer.rev = disk.rev /\ disk.rev \in Nat
      BY <2>1, <3>1, SummaryType, SummaryOpType DEF PointerTo, Summary, Snapshot
    <3> QED
      BY <2>1, <3>1, <3>2, NoneAssumption
  <2>3. DecisionCurrent' /\ WrittenCurrent' /\ Unpublished' /\ ShardPublished'
    BY <2>1
  <2>4. ReportSound'
    BY <2>1, <2>2
  <2> QED
    BY <2>3, <2>4
<1>14. ASSUME NEW c \in Writers, Release(c) PROVE CallInv'
  BY <1>14 DEF Release, Lock!Leave
<1>15. ASSUME NEW c \in Writers, Final(c) PROVE CallInv'
  BY <1>15 DEF Final
<1>16. ASSUME NEW c \in Writers, Crash(c) PROVE CallInv'
  BY <1>16 DEF Crash, Lock!Leave
<1>17. ASSUME ReadSnapshot PROVE CallInv'
  BY <1>17 DEF ReadSnapshot
<1>18. ASSUME ReadPointer PROVE CallInv'
  BY <1>18 DEF ReadPointer
<1>19. ASSUME ReadShard PROVE CallInv'
  BY <1>19 DEF ReadShard
<1>20. ASSUME UNCHANGED vars PROVE CallInv'
  BY <1>20 DEF vars
<1> QED
   BY <1>1, <1>2, <1>3, <1>4, <1>5, <1>6, <1>7, <1>8, <1>9, <1>10, <1>11,
     <1>12, <1>13, <1>14, <1>15, <1>16, <1>17, <1>18, <1>19, <1>20 DEF Next,
     CallStep

\* A change that does not exist, exists, or crashed in its creation.
LEMMA InitInvariant == Init => IInv
<1> SUFFICES ASSUME Init PROVE IInv
  OBVIOUS
<1> USE DEF Init
<1> DEFINE first == Summary(Created, CreateOp)
<1>1. Created \in Snapshot /\ Created.rev = 0 /\ LastOp(Created) = CreateOp
  BY DEF Created, Snapshot, LastOp
<1>2. first \in Shard /\ PointerTo(first) \in Pointer /\ PointerTo(first).rev = 0
  BY <1>1, SummaryType DEF PointerTo, Summary
<1>3. Created # None /\ PointerTo(first) # None
  BY <1>1, <1>2, NoneAssumption
<1> HIDE DEF first
<1>4. disk \in Snapshot \cup {None} /\ pointer \in Pointer \cup {None}
  BY <1>1, <1>2 DEF first
<1>5. /\ DOMAIN shards \subseteq {0} /\ shards \in [DOMAIN shards -> Shard]
      /\ DOMAIN shards # {} => disk = Created /\ shards[0] = first
      /\ pointer # None => pointer = PointerTo(first) /\ 0 \in DOMAIN shards
  BY <1>2 DEF first
<1>6. TypeOK
  <2>1. /\ pc \in [Writers -> Locked \cup {"idle", "lock", "final"}]
        /\ req \in [Writers -> Requests \cup {None}]
        /\ expect \in [Writers -> Nat \cup {NoRev}]
        /\ mine \in [Writers -> Snapshot \cup {None}]
        /\ result \in [Writers -> Results]
    BY DEF Results
  <2>2. calls \in 0 .. MaxCalls
    BY BoundsAssumption
  <2>3. holders \subseteq Writers
    OBVIOUS
  <2>4. reader \in [pc : {"idle", "pointer", "shard", "ok", "degraded", "not_found"},
                    snap : Snapshot \cup {None}, ptr : Pointer \cup {None},
                    shard : Shard \cup {None}]
    BY DEF Answer
  <2> HIDE DEF Init
  <2> QED
    BY <1>4, <1>5, <2>1, <2>2, <2>3, <2>4 DEF TypeOK
<1>7. LockInv /\ CallInv
  BY DEF LockInv, HeldWhileGuarded, OneHolder, CallsKnown, OnlySummaryCalls, CallInv,
         DecisionCurrent, WrittenCurrent, Unpublished, ShardPublished, ReportSound,
         Locked
<1>8. ShardsSound
  BY <1>1, <1>3, <1>5 DEF ShardsSound, first
<1>9. PointerSound
  BY <1>1, <1>2, <1>3, <1>5 DEF PointerSound, Named
<1>10. ReaderSound /\ ReaderCoherent
  BY DEF ReaderSound, ReaderCoherent, Answer
<1> QED
  BY <1>6, <1>7, <1>8, <1>9, <1>10 DEF IInv, FileInv

\* Everything a session or a reader relies on holds in every state, for all
\* sets of sessions, requests, operations and items, and any number of calls.
THEOREM Invariant == Spec => []IInv
<1>1. IInv /\ [Next]_vars => IInv'
  BY TypeStep, FormedFromInv, LockStep, CallInvStep, FileStep DEF IInv
<1> QED
  BY InitInvariant, <1>1, PTL DEF Spec

\* commitChangeProjection keeps its files and its locals well formed.
THEOREM Typing == Spec => []TypeOK
<1>1. IInv => TypeOK
  BY DEF IInv
<1> QED
  BY Invariant, <1>1, PTL

\* Whatever a call returns, throws or crashes at, the lock is given back.
THEOREM LockGivenBack == Spec => []HeldWhileGuarded
<1>1. IInv => HeldWhileGuarded
  BY DEF IInv, LockInv
<1> QED
  BY Invariant, <1>1, PTL

\* publishSummaryForChange: the pointer never names a missing shard, another
\* shard, or a revision the change file has not reached.
THEOREM PointerAlwaysSound == Spec => []PointerSound
<1>1. IInv => PointerSound
  BY DEF IInv, FileInv
<1> QED
  BY Invariant, <1>1, PTL

\* readCurrentSummaryShard: what the unlocked reader calls current is the
\* summary of the snapshot it has read.
THEOREM ReaderAlwaysCoherent == Spec => []ReaderCoherent
<1>1. IInv => ReaderCoherent
  BY DEF IInv, FileInv
<1> QED
  BY Invariant, <1>1, PTL

\* The change file changes only by the write of the one call inside the lock,
\* and then to what that call has decided on the file it still holds.
LEMMA OnlyTheHolderWrites ==
  ASSUME IInv, [Next]_vars, disk' # disk
  PROVE  \E c \in Writers :
           /\ pc[c] = "write"
           /\ \A d \in Writers : pc[d] = "write" => d = c
           /\ Verdict(disk, req[c], expect[c]) = "write"
           /\ disk' = Candidate(disk, req[c])
<1>1. PICK c \in Writers : pc[c] = "write" /\ disk' = mine[c]
  BY DEF Next, CallStep, vars, fileVars, Begin, BeginMissing, AcquireLock, LockTimeout,
         Load, ReadFails, Write, WriteFails, Readback, PublishShard, PublishPointer,
         PublishFails, Prove, Release, Final, Crash, ReadSnapshot, ReadPointer, ReadShard
<1> QED
  BY <1>1 DEF IInv, LockInv, OneHolder, CallInv, DecisionCurrent, Locked

\* A call that names the revision it has observed never overwrites another.
THEOREM RevisionHeldAtWrite == Spec => CompareAndSet
<1>1. IInv /\ [Next]_vars =>
        [\A c \in Writers :
           /\ pc[c] = "write" /\ disk' # disk /\ disk' = mine[c]
           /\ expect[c] # NoRev
           => disk.rev = expect[c]]_vars
  <2> SUFFICES ASSUME IInv, [Next]_vars, disk' # disk, NEW c \in Writers,
                      pc[c] = "write", expect[c] # NoRev
               PROVE  disk.rev = expect[c]
    OBVIOUS
  <2>1. Verdict(disk, req[c], expect[c]) = "write"
    BY DEF IInv, CallInv, DecisionCurrent
  <2>2. ~Stale(disk, expect[c])
    BY <2>1 DEF Verdict
  <2> QED
    BY <2>2 DEF Stale
<1> QED
  BY Invariant, <1>1, PTL DEF Spec, CompareAndSet

\* A populated collection is emptied only by a call that declares it.
THEOREM NoCollectionWipedSilently == Spec => NoSilentWipe
<1>1. IInv /\ [Next]_vars =>
        [disk # None /\ disk.items # {} /\ disk'.items = {}
         => \E c \in Writers : pc[c] = "write" /\ Declared(req[c])]_vars
  <2> SUFFICES ASSUME IInv, [Next]_vars, disk # None, disk.items # {}, disk'.items = {}
               PROVE  \E c \in Writers : pc[c] = "write" /\ Declared(req[c])
    OBVIOUS
  <2>1. PICK c \in Writers : /\ pc[c] = "write"
                             /\ Verdict(disk, req[c], expect[c]) = "write"
                             /\ disk' = Candidate(disk, req[c])
    BY OnlyTheHolderWrites
  <2>2. ~Wipes(disk, req[c])
    BY <2>1 DEF Verdict
  <2>3. Mutated(disk, req[c]) = {}
    BY <2>1 DEF Candidate
  <2> QED
    BY <2>1, <2>2, <2>3 DEF Wipes
<1> QED
  BY Invariant, <1>1, PTL DEF Spec, NoSilentWipe

\* What a call reports is what it had returned when it gave the lock back.
LEMMA ReportIsResult ==
  ASSUME IInv, [Next]_vars, NEW c \in Writers, NEW outcome \in {"committed", "idempotent"},
         Reports(c, outcome)
  PROVE  result[c] = outcome
<1> pc[c] = "final" /\ pc'[c] = "idle" /\ result'[c] = outcome
  BY DEF Reports
<1>1. TypeOK
  BY DEF IInv
<1>2. Final(c) \/ Crash(c)
  <2>1. PICK d \in Writers : Begin(d) \/ BeginMissing(d) \/ CallStep(d) \/ Crash(d)
    BY DEF Next, vars, writerVars, ReadSnapshot, ReadPointer, ReadShard
  <2>2. \A x \in Writers : x # d => pc'[x] = pc[x]
    BY <1>1, <2>1
    DEF CallStep, Begin, BeginMissing, AcquireLock, LockTimeout, Load, ReadFails,
        Write, WriteFails, Readback, PublishShard, PublishPointer, PublishFails,
        Prove, Release, Final, Crash, TypeOK, Goto, Forget
  <2>3. d = c
    BY <2>1, <2>2
  <2> QED
    BY <2>1, <2>3
    DEF CallStep, Begin, BeginMissing, AcquireLock, LockTimeout, Load, ReadFails,
        Write, WriteFails, Readback, PublishShard, PublishPointer, PublishFails,
        Prove, Release
<1>3. CASE Final(c)
  BY <1>1, <1>3 DEF Final, Return, TypeOK
<1>4. CASE Crash(c)
  BY <1>1, <1>4 DEF Crash, Return, TypeOK
<1> QED
  BY <1>2, <1>3, <1>4

\* commitChangeProjectionWithSummary reports "committed" only when the pointer
\* has reached the revision of the call.
THEOREM CommittedIsAlwaysPublished == Spec => CommittedIsPublished
<1>1. IInv /\ [Next]_vars =>
        [\A c \in Writers :
           Reports(c, "committed") => PublishedUpTo(mine[c].rev)]_vars
  <2> SUFFICES ASSUME IInv, [Next]_vars, NEW c \in Writers, Reports(c, "committed")
               PROVE  PublishedUpTo(mine[c].rev)
    OBVIOUS
  <2>1. pc[c] = "final" /\ pc'[c] = "idle" /\ result'[c] = "committed"
    BY DEF Reports
  <2>2. req[c].summary
    BY <2>1 DEF IInv, LockInv, OnlySummaryCalls
  <2>3. result[c] = "committed"
    BY ReportIsResult
  <2> QED
    BY <2>1, <2>2, <2>3 DEF IInv, CallInv, ReportSound
<1> QED
  BY Invariant, <1>1, PTL DEF Spec, CommittedIsPublished

\* A list of operations, shortened and extended as the audit is.
LEMMA AuditOps ==
  ASSUME NEW s \in Seq(AuditEntry), NEW entry \in AuditEntry
  PROVE  OpsOf(LastAudit(Append(s, entry))) =
           Atomic!LastAudit(Append(OpsOf(s), entry.op))
<1> DEFINE all == Append(s, entry)
           ops == Append(OpsOf(s), entry.op)
           Op == Ops \cup {NoOp}
<1>1. MaxAudit \in Nat \ {0}
  BY BoundsAssumption
<1>2. /\ all \in Seq(AuditEntry) /\ Len(all) = Len(s) + 1 /\ Len(s) \in Nat
      /\ \A i \in 1 .. Len(s) : all[i] = s[i]
      /\ all[Len(s) + 1] = entry
  OBVIOUS
<1>3. OpsOf(s) \in Seq(Op) /\ Len(OpsOf(s)) = Len(s)
  <2>1. ASSUME NEW i \in 1 .. Len(s) PROVE s[i].op \in Op
    <3>1. s[i] \in AuditEntry
      OBVIOUS
    <3> QED
      BY <3>1 DEF AuditEntry
  <2>2. OpsOf(s) = [i \in 1 .. Len(s) |-> s[i].op]
    BY DEF OpsOf
  <2> HIDE DEF Op
  <2> QED
    BY <1>2, <2>1, <2>2
<1>4. \A i \in 1 .. Len(s) : OpsOf(s)[i] = s[i].op
  BY DEF OpsOf
<1>5. /\ ops \in Seq(Op) /\ Len(ops) = Len(all)
      /\ \A i \in 1 .. Len(all) : ops[i] = all[i].op
  BY <1>2, <1>3, <1>4 DEF AuditEntry
<1> HIDE DEF all, ops
<1>6. OpsOf(LastAudit(all)) = Atomic!LastAudit(ops)
  <2>1. CASE Len(all) <= MaxAudit
    <3>1. LastAudit(all) = all /\ Atomic!LastAudit(ops) = ops
      BY <1>5, <2>1 DEF LastAudit, Atomic!LastAudit
    <3>2. DOMAIN all = 1 .. Len(all) /\ DOMAIN ops = 1 .. Len(all)
      BY <1>2, <1>5
    <3>3. ops = [i \in 1 .. Len(all) |-> all[i].op]
      BY <1>5, <3>2
    <3> QED
      BY <3>1, <3>2, <3>3 DEF OpsOf
  <2>2. CASE Len(all) > MaxAudit
    <3> DEFINE m == Len(all) - MaxAudit
               short == SubSeq(all, m + 1, Len(all))
               shortOps == SubSeq(ops, m + 1, Len(all))
    <3>1. LastAudit(all) = short /\ Atomic!LastAudit(ops) = shortOps
      BY <1>1, <1>2, <1>5, <2>2 DEF LastAudit, Atomic!LastAudit
    <3>2. m \in Nat /\ Len(all) \in Nat /\ m + 1 \in 1 .. Len(all)
      BY <1>1, <1>2, <2>2
    <3>3. /\ DOMAIN short = 1 .. MaxAudit
          /\ \A i \in 1 .. MaxAudit : short[i] = all[i + m]
      BY <1>1, <1>2, <3>2
    <3>4. shortOps = [i \in 1 .. MaxAudit |-> ops[i + m]]
      BY <1>1, <1>5, <3>2
    <3>5. \A i \in 1 .. MaxAudit : i + m \in 1 .. Len(all)
      BY <1>1, <3>2
    <3> HIDE DEF short, shortOps, m
    <3>6. OpsOf(short) = [i \in 1 .. MaxAudit |-> all[i + m].op]
      BY <3>3 DEF OpsOf
    <3> QED
      BY <1>5, <3>1, <3>4, <3>5, <3>6
  <2> QED
    BY <1>1, <1>2, <2>1, <2>2
<1> QED
  BY <1>6 DEF all, ops

\* Every write is one Commit of AtomicChange.
LEMMA WriteIsAtomic == IInv /\ [Next]_vars => [Atomic!Next]_Atomic!vars
<1> SUFFICES ASSUME IInv, [Next]_vars, disk' # disk
             PROVE  Atomic!Next
  BY DEF Atomic!vars
<1>1. PICK c \in Writers : /\ pc[c] = "write"
                           /\ Verdict(disk, req[c], expect[c]) = "write"
                           /\ disk' = Candidate(disk, req[c])
  BY OnlyTheHolderWrites
<1> DEFINE q == req[c]
<1>2. disk \in Snapshot /\ disk # None /\ q \in Requests /\ q \in Request
  BY <1>1, RequestsAssumption DEF IInv, TypeOK, LockInv, CallsKnown
<1>3. disk' \in Snapshot /\ disk'.rev = disk.rev + 1 /\ disk'.srev >= disk.srev
  BY <1>1, <1>2, CandidateFacts
<1>4. disk' # None
  BY <1>3, NoneAssumption
<1>5. q.op = NoOp \/ \A i \in DOMAIN OpsOf(disk.commits) : OpsOf(disk.commits)[i] # q.op
  <2>1. Recorded(disk, q) = {}
    BY <1>1 DEF Verdict
  <2> QED
    BY <2>1 DEF Recorded, EntriesOf, OpsOf
<1>6. (\E i \in Items : disk'.items = disk.items \cup {i}) \/ disk'.items = {}
  <2>1. disk'.items = Mutated(disk, q)
    BY <1>1 DEF Candidate
  <2> QED
    BY <1>2, <2>1 DEF Mutated, Request
<1>7. OpsOf(disk'.commits) = Atomic!LastAudit(Append(OpsOf(disk.commits), q.op))
  <2> DEFINE entry == [op |-> q.op, hash |-> q.hash, srev |-> q.srev,
                       rev |-> disk.rev + 1]
  <2>1. entry \in AuditEntry /\ disk.commits \in Seq(AuditEntry) /\ entry.op = q.op
    BY <1>2 DEF Snapshot, Request, AuditEntry
  <2>2. disk'.commits = LastAudit(Append(disk.commits, entry))
    BY <1>1 DEF Candidate
  <2> HIDE DEF entry
  <2> QED
    BY <2>1, <2>2, AuditOps
<1>8. q.op \in Ops \cup {NoOp}
  BY <1>2 DEF Request
<1> HIDE DEF q
<1>9. Atomic!Commit(q.op)
  BY <1>2, <1>3, <1>4, <1>5, <1>6, <1>7 DEF Atomic!Commit, Atomic!Remembered
<1> QED
  BY <1>8, <1>9 DEF Atomic!Next

\* commitChangeProjection, with its lock, its fences, its crashes and its
\* retries, is an atomic change: "concurrent disjoint mutations survive".
THEOREM Refinement == Spec => ImplementsAtomicChange
<1>1. Init => Atomic!Init
  BY NoneAssumption DEF Init, Atomic!Init, Created, OpsOf
<1> QED
  BY Invariant, WriteIsAtomic, <1>1, PTL DEF Spec, ImplementsAtomicChange, Atomic!Spec

\* An audit that names no operation twice.
Once(snap) ==
  \A i, j \in DOMAIN snap.commits :
    snap.commits[i].op = snap.commits[j].op /\ snap.commits[i].op # NoOp => i = j

LEMMA CandidateOnce ==
  ASSUME NEW snap \in Snapshot, NEW q \in Requests, Once(snap), Recorded(snap, q) = {}
  PROVE  Once(Candidate(snap, q))
<1> DEFINE s == snap.commits
           entry == [op |-> q.op, hash |-> q.hash, srev |-> q.srev,
                     rev |-> snap.rev + 1]
           all == Append(s, entry)
           t == LastAudit(all)
           k == Len(all) - Len(t)
<1>1. snap \in Snapshot /\ q \in Request
  BY RequestsAssumption
<1>2. s \in Seq(AuditEntry) /\ entry \in AuditEntry /\ entry.op = q.op
  BY <1>1 DEF Snapshot, Request, AuditEntry
<1>3. /\ all \in Seq(AuditEntry) /\ Len(s) \in Nat /\ Len(all) = Len(s) + 1
      /\ \A i \in 1 .. Len(s) : all[i] = s[i]
      /\ all[Len(s) + 1] = entry
  BY <1>2
<1>4. \A i \in 1 .. Len(s) : q.op # NoOp => s[i].op # q.op
  BY <1>2 DEF Recorded, EntriesOf
<1>5. \A i, j \in 1 .. Len(s) : s[i].op = s[j].op /\ s[i].op # NoOp => i = j
  BY <1>1, <1>2 DEF Once
<1>6. Candidate(snap, q).commits = t
  BY DEF Candidate
<1> HIDE DEF s, entry, all
<1>7. \A i, j \in 1 .. Len(all) : all[i].op = all[j].op /\ all[i].op # NoOp => i = j
  BY <1>2, <1>3, <1>4, <1>5
<1>8. /\ t \in Seq(AuditEntry) /\ Len(t) \in Nat /\ Len(t) <= Len(all)
      /\ \A i \in 1 .. Len(t) : t[i] = all[i + k]
  <2>1. all \in Seq(AuditEntry)
    BY <1>3
  <2>2. /\ t \in Seq(AuditEntry) /\ Len(t) <= Len(all)
        /\ \A i \in 1 .. Len(t) : t[i] = all[i + (Len(all) - Len(t))]
    BY <2>1, LastAuditFacts
  <2> HIDE DEF t
  <2> QED
    BY <2>2
<1> HIDE DEF t
<1>9. \A i \in 1 .. Len(t) : i + k \in 1 .. Len(all)
  BY <1>3, <1>8
<1>10. \A i, j \in DOMAIN t : t[i].op = t[j].op /\ t[i].op # NoOp => i = j
  <2> SUFFICES ASSUME NEW i \in 1 .. Len(t), NEW j \in 1 .. Len(t),
                      t[i].op = t[j].op, t[i].op # NoOp
               PROVE  i = j
    BY <1>8
  <2>1. k \in Int
    BY <1>3, <1>8
  <2> HIDE DEF k
  <2>2. i + k = j + k
    BY <1>7, <1>8, <1>9
  <2> QED
    BY <2>1, <2>2
<1> QED
  BY <1>6, <1>10 DEF Once

\* A remembered operation identity was applied once, however often and from
\* however many sessions it is retried.
THEOREM RememberedIsAppliedOnce == Spec => []AppliedOnce
<1>1. Init => AppliedOnce
  BY DEF Init, AppliedOnce, Created
<1>2. IInv /\ AppliedOnce /\ [Next]_vars => AppliedOnce'
  <2> SUFFICES ASSUME IInv, AppliedOnce, [Next]_vars, disk' # disk PROVE AppliedOnce'
    BY DEF AppliedOnce
  <2>1. PICK c \in Writers : /\ pc[c] = "write"
                             /\ Verdict(disk, req[c], expect[c]) = "write"
                             /\ disk' = Candidate(disk, req[c])
    BY OnlyTheHolderWrites
  <2>2. disk \in Snapshot /\ disk # None /\ req[c] \in Requests
    BY <2>1 DEF IInv, TypeOK, LockInv, CallsKnown
  <2>3. Recorded(disk, req[c]) = {} /\ Once(disk)
    BY <2>1, <2>2 DEF Verdict, AppliedOnce, Once
  <2>4. Once(Candidate(disk, req[c]))
    BY <2>2, <2>3, CandidateOnce
  <2> QED
    BY <2>1, <2>4 DEF AppliedOnce, Once
<1> QED
  BY Invariant, <1>1, <1>2, PTL DEF Spec

-----------------------------------------------------------------------------
\* What it takes for a replay to be reported without its summary.

\* The audit names revisions the file has reached.
AuditReached == disk # None => \A e \in EntriesOf(disk) : 1 <= e.rev /\ e.rev <= disk.rev

LEMMA AuditStays ==
  ASSUME IInv, AuditReached, [Next]_vars PROVE AuditReached'
<1>1. CASE disk' = disk
  BY <1>1 DEF AuditReached, EntriesOf
<1>2. CASE disk' # disk
  <2>1. PICK c \in Writers : /\ pc[c] = "write"
                             /\ Verdict(disk, req[c], expect[c]) = "write"
                             /\ disk' = Candidate(disk, req[c])
    BY <1>2, OnlyTheHolderWrites
  <2>2. disk \in Snapshot /\ disk # None /\ req[c] \in Request
    BY <2>1, RequestsAssumption DEF IInv, TypeOK, LockInv, CallsKnown
  <2> DEFINE entry == [op |-> req[c].op, hash |-> req[c].hash, srev |-> req[c].srev,
                       rev |-> disk.rev + 1]
             all == Append(disk.commits, entry)
  <2>3. entry \in AuditEntry /\ entry.rev = disk.rev + 1
    BY <2>2 DEF Request, AuditEntry, Snapshot
  <2>4. /\ disk.rev \in Nat /\ disk.commits \in Seq(AuditEntry)
        /\ \A i \in 1 .. Len(disk.commits) :
             /\ disk.commits[i].rev \in Nat
             /\ 1 <= disk.commits[i].rev /\ disk.commits[i].rev <= disk.rev
    <3>1. disk.rev \in Nat /\ disk.commits \in Seq(AuditEntry)
      BY <2>2 DEF Snapshot
    <3>2. ASSUME NEW i \in 1 .. Len(disk.commits)
          PROVE  disk.commits[i] \in AuditEntry /\ disk.commits[i] \in EntriesOf(disk)
      BY <3>1 DEF EntriesOf
    <3> QED
      BY <2>2, <3>1, <3>2 DEF AuditReached, AuditEntry
  <2>5. disk'.rev = disk.rev + 1 /\ disk'.commits = LastAudit(all)
    BY <2>1 DEF Candidate
  <2> HIDE DEF entry
  <2>6. /\ all \in Seq(AuditEntry)
        /\ \A i \in 1 .. Len(all) : 1 <= all[i].rev /\ all[i].rev <= disk.rev + 1
    BY <2>3, <2>4
  <2> HIDE DEF all
  <2>7. \A i \in 1 .. Len(LastAudit(all)) :
          1 <= LastAudit(all)[i].rev /\ LastAudit(all)[i].rev <= disk.rev + 1
    <3> DEFINE t == LastAudit(all)
               k == Len(all) - Len(t)
    <3>1. t \in Seq(AuditEntry) /\ Len(t) <= Len(all) /\ \A i \in 1 .. Len(t) : t[i] = all[i + k]
      BY <2>6, LastAuditFacts
    <3>2. Len(t) \in Nat /\ Len(all) \in Nat /\ k \in Nat
      BY <2>6, <3>1
    <3>3. \A i \in 1 .. Len(t) : i + k \in 1 .. Len(all)
      BY <3>2
    <3> HIDE DEF t, k
    <3> QED
      BY <2>6, <3>1, <3>3 DEF t
  <2>8. DOMAIN LastAudit(all) = 1 .. Len(LastAudit(all))
    BY <2>6, LastAuditFacts
  <2> QED
    BY <2>5, <2>7, <2>8 DEF AuditReached, EntriesOf
<1> QED
  BY <1>1, <1>2

\* The file and its pointer never go back.
LEMMA PublishedStays ==
  ASSUME IInv, [Next]_vars, NEW r \in Nat
  PROVE  /\ PublishedUpTo(r) => PublishedUpTo(r)'
         /\ disk # None => disk' # None /\ disk' \in Snapshot /\ disk.rev <= disk'.rev
<1>1. PublishedUpTo(r) => PublishedUpTo(r)'
  <2>1. CASE UNCHANGED pointer
    BY <2>1 DEF PublishedUpTo
  <2>2. CASE pointer' # pointer
    <3>1. PICK c \in Writers : PublishPointer(c)
      BY <2>2
      DEF Next, CallStep, vars, fileVars, Begin, BeginMissing, AcquireLock, LockTimeout,
          Load, ReadFails, Write, WriteFails, Readback, PublishShard, PublishFails,
          Prove, Release, Final, Crash, ReadSnapshot, ReadPointer, ReadShard
    <3>2. /\ mine[c] = disk /\ disk \in Snapshot /\ req[c] \in Requests /\ req[c].summary
          /\ pointer # None => pointer.rev <= disk.rev /\ pointer \in Pointer
      BY <3>1 DEF PublishPointer, IInv, TypeOK, LockInv, CallsKnown, CallInv, WrittenCurrent,
         OnlySummaryCalls, FileInv, PointerSound
    <3>3. /\ pointer' = PointerTo(Summary(disk, req[c].op)) /\ pointer' # None
          /\ pointer'.rev = disk.rev
      <4>1. PointerTo(Summary(disk, req[c].op)) \in Pointer
        BY <3>2, SummaryType, SummaryOpType
      <4> QED
        BY <3>1, <3>2, <4>1, NoneAssumption DEF PublishPointer, PointerTo, Summary
    <3> QED
      BY <3>2, <3>3 DEF PublishedUpTo, Snapshot, Pointer
  <2> QED
    BY <2>1, <2>2
<1>2. disk # None => disk' # None /\ disk' \in Snapshot /\ disk.rev <= disk'.rev
  <2>1. CASE disk' = disk
    BY <2>1 DEF IInv, TypeOK, Snapshot
  <2>2. CASE disk' # disk
    <3>1. PICK c \in Writers : /\ pc[c] = "write"
                               /\ Verdict(disk, req[c], expect[c]) = "write"
                               /\ disk' = Candidate(disk, req[c])
      BY <2>2, OnlyTheHolderWrites
    <3>2. disk \in Snapshot /\ req[c] \in Requests
      BY <3>1 DEF IInv, TypeOK, LockInv, CallsKnown
    <3>3. disk' \in Snapshot /\ disk'.rev = disk.rev + 1
      BY <3>1, <3>2, CandidateFacts
    <3> QED
      BY <3>2, <3>3, NoneAssumption DEF Snapshot
  <2> QED
    BY <2>1, <2>2
<1> QED
  BY <1>1, <1>2

\* Whoever finds nobody in the lock finds the summary of the last commit published: no
\* commit has been left without it by a crash, a failed write or a call that asks for none.
Settled == holders = {} /\ disk # None /\ disk.rev > 0 => PublishedUpTo(disk.rev)

\* A call that has found itself recorded, and has given the lock back, has its summary.
Replays ==
  \A c \in Writers :
    pc[c] \in {"release", "final"} /\ result[c] = "idempotent" =>
      /\ disk # None
      /\ \E e \in Recorded(mine[c], req[c]) :
           /\ e.rev \in Nat /\ 1 <= e.rev /\ e.rev <= disk.rev
           /\ pc[c] = "final" => PublishedUpTo(e.rev)

LEMMA ReplaysStay ==
  ASSUME IInv, AuditReached, Replays, [Next]_vars, Settled' PROVE Replays'
<1> SUFFICES ASSUME NEW d \in Writers, pc'[d] \in {"release", "final"}, result'[d] = "idempotent"
             PROVE  /\ disk' # None
                    /\ \E e \in Recorded(mine[d], req[d])' :
                         /\ e.rev \in Nat /\ 1 <= e.rev /\ e.rev <= disk'.rev
                         /\ pc'[d] = "final" => PublishedUpTo(e.rev)'
  BY DEF Replays
<1> USE DEF IInv, TypeOK, Goto, Return, Forget
<1>1. CASE /\ pc[d] \in {"release", "final"} /\ result[d] = "idempotent"
           /\ mine'[d] = mine[d] /\ req'[d] = req[d] /\ pc'[d] = pc[d]
  <2>1. disk # None
    BY <1>1 DEF Replays
  <2>2. PICK e \in Recorded(mine[d], req[d]) : /\ e.rev \in Nat /\ 1 <= e.rev /\ e.rev <= disk.rev
                                               /\ pc[d] = "final" => PublishedUpTo(e.rev)
    BY <1>1 DEF Replays
  <2>3. e \in Recorded(mine[d], req[d])'
    BY <1>1, <2>2 DEF Recorded, EntriesOf
  <2>4. /\ PublishedUpTo(e.rev) => PublishedUpTo(e.rev)'
        /\ disk' # None /\ disk' \in Snapshot /\ disk.rev <= disk'.rev
    BY <2>1, <2>2, PublishedStays
  <2>5. disk.rev \in Nat /\ disk'.rev \in Nat
    BY <2>1, <2>4 DEF Snapshot
  <2>6. e.rev <= disk'.rev
    BY <2>2, <2>4, <2>5
  <2> QED
    BY <1>1, <2>2, <2>3, <2>4, <2>6
<1>2. CASE Load(d) /\ Verdict(disk, req[d], expect[d]) # "write"
  <2>1. Verdict(disk, req[d], expect[d]) = "idempotent" /\ pc'[d] = "release" /\ mine'[d] = disk
    BY <1>2 DEF Load
  <2>2. PICK e \in Recorded(disk, req[d]) : TRUE
    BY <2>1 DEF Verdict
  <2>3. disk \in Snapshot /\ disk # None /\ UNCHANGED <<disk, req>>
    BY <1>2 DEF Load, LockInv, CallsKnown, fileVars
  <2>4. e \in EntriesOf(disk) /\ e.rev \in Nat
    <3>1. e \in EntriesOf(disk) /\ disk.commits \in Seq(AuditEntry)
      BY <2>2, <2>3 DEF Recorded, Snapshot
    <3>2. e \in AuditEntry
      BY <3>1 DEF EntriesOf
    <3> QED
      BY <3>1, <3>2 DEF AuditEntry
  <2>5. e \in Recorded(mine[d], req[d])'
    BY <2>1, <2>2, <2>3 DEF Recorded, EntriesOf
  <2> QED
    BY <2>1, <2>3, <2>4, <2>5 DEF AuditReached
<1>3. CASE Release(d)
  <2>1. /\ pc'[d] = "final" /\ pc[d] = "release" /\ result[d] = "idempotent"
        /\ UNCHANGED <<disk, pointer, mine, req>>
    BY <1>3 DEF Release, fileVars
  <2>2. PICK e \in Recorded(mine[d], req[d]) : e.rev \in Nat /\ 1 <= e.rev /\ e.rev <= disk.rev
    BY <2>1 DEF Replays
  <2>3. disk \in Snapshot /\ disk # None
    BY <2>1 DEF LockInv, CallsKnown
  <2>4. holders' = {}
    <3>1. holders = {c \in Writers : pc[c] \in Locked} /\ pc[d] \in Locked
      BY <2>1 DEF LockInv, HeldWhileGuarded, Locked
    <3>2. \A c \in holders : c = d
      BY <3>1 DEF LockInv, OneHolder
    <3> QED
      BY <1>3, <3>2 DEF Release, Lock!Leave
  <2>5. disk.rev \in Nat /\ disk.rev > 0
    BY <2>2, <2>3 DEF Snapshot
  <2>6. PublishedUpTo(disk.rev)
    BY <2>1, <2>3, <2>4, <2>5 DEF Settled, PublishedUpTo
  <2>7. PublishedUpTo(e.rev)
    BY <2>2, <2>5, <2>6 DEF PublishedUpTo, Pointer
  <2> QED
    BY <2>1, <2>2, <2>3, <2>7 DEF Recorded, EntriesOf, PublishedUpTo
<1>4. \/ /\ pc[d] \in {"release", "final"} /\ result[d] = "idempotent"
         /\ mine'[d] = mine[d] /\ req'[d] = req[d] /\ pc'[d] = pc[d]
      \/ Load(d) /\ Verdict(disk, req[d], expect[d]) # "write"
      \/ Release(d)
  <2>1. ASSUME NEW c \in Writers, c # d, Begin(c) \/ BeginMissing(c) \/ CallStep(c) \/ Crash(c)
        PROVE  /\ pc[d] = pc'[d] /\ result[d] = result'[d]
               /\ mine'[d] = mine[d] /\ req'[d] = req[d]
    BY <2>1 DEF Begin, BeginMissing, CallStep, AcquireLock, LockTimeout, Load, ReadFails, Write,
       WriteFails, Readback, PublishShard, PublishPointer, PublishFails, Prove, Release, Final, Crash
  <2>2. CASE Begin(d) \/ BeginMissing(d) \/ CallStep(d) \/ Crash(d)
    BY <2>2 DEF Begin, BeginMissing, CallStep, AcquireLock, LockTimeout, Load, ReadFails, Write,
       WriteFails, Readback, PublishShard, PublishPointer, PublishFails, Prove, Release, Final, Crash
  <2>3. CASE UNCHANGED writerVars
    BY <2>3 DEF writerVars
  <2> QED
    BY <2>1, <2>2, <2>3 DEF Next, ReadSnapshot, ReadPointer, ReadShard, vars, writerVars
<1> QED
  BY <1>1, <1>2, <1>3, <1>4

\* "Command success is proven only after the readback confirms snapshot, shard and pointer"
\* is so of a replay wherever no commit is left without its summary: a call that died
\* between its write and its pointer, or committed without a summary, is all it takes for
\* ReplayIsPublished to be violated, and nothing that happens inside a lock is.
THEOREM ReplayOfSettledIsPublished == Spec /\ []Settled => ReplayIsPublished
<1> DEFINE Sound == \A c \in Writers :
                      Reports(c, "idempotent")
                      => \E e \in Recorded(mine[c], req[c]) : PublishedUpTo(e.rev)
<1>1. Init => AuditReached /\ Replays
  BY DEF Init, AuditReached, Replays, EntriesOf, Created
<1>2. IInv /\ AuditReached /\ Replays /\ [Next]_vars /\ Settled' => AuditReached' /\ Replays'
  BY AuditStays, ReplaysStay
<1>3. IInv /\ Replays /\ [Next]_vars => [Sound]_vars
  <2> SUFFICES ASSUME IInv, Replays, [Next]_vars, NEW c \in Writers, Reports(c, "idempotent")
               PROVE  \E e \in Recorded(mine[c], req[c]) : PublishedUpTo(e.rev)
    OBVIOUS
  <2>1. result[c] = "idempotent" /\ pc[c] = "final"
    BY ReportIsResult DEF Reports
  <2> QED
    BY <2>1 DEF Replays
<1> QED
  BY <1>1, <1>2, <1>3, Invariant, PTL DEF Spec, ReplayIsPublished
=============================================================================
