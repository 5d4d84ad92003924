--------------------------- MODULE Worktree_proofs ---------------------------
(***************************************************************************)
(* The worktree tools for every set of sessions.  GitWorktreeFlock, for    *)
(* every number of calls: the lock file excludes until a rename moves a    *)
(* file its session has not read, and comparison takes over the lock of a  *)
(* dead process only.  WorktreeRemoval, for every number of commits and    *)
(* edits: uncommitted work is destroyed only by a forced plan, a worktree  *)
(* goes only as it was judged, and the executor's git process runs under   *)
(* the kernel lock.                                                        *)
(***************************************************************************)
EXTENDS GitWorktreeFlock, WorktreeRemoval, TLAPS

\* A token exists from the call that makes it on, a dead one is of a call that was
\* made, and the call a session is in is alive.
TokensMade ==
  /\ \A t \in gone : t[2] <= flocks[t[1]]
  /\ lockFile # None => lockFile[2] <= flocks[lockFile[1]]
  /\ \A s \in Sessions : flockPc[s] # "out" => Token(s) \in Tokens \ gone
  /\ \A s \in Sessions : aside[s] # None => aside[s][2] <= flocks[aside[s][1]]

\* A session that reclaims has read the record of a dead process.
SeenIsGone ==
  \A s \in Sessions :
    flockPc[s] \in {"rename", "compare", "putback", "recreate"} => seen[s] \in gone

\* As long as no rename has misfired: the path holds the file of the owner, an owner
\* there is for every live file, and what has been renamed is what was read.
PathIsOwned ==
  misfired \/ /\ \A s \in Sessions : Owning(s) => lockFile = Token(s)
              /\ (lockFile # None /\ ~OwnerGone(lockFile)) =>
                   Owning(lockFile[1]) \/ lockFile \in left
              /\ \A s \in Sessions : aside[s] # None => aside[s] = seen[s]
              /\ \A s \in Sessions : flockPc[s] # "putback"

FlockInv == FlockTypeOK /\ TokensMade /\ SeenIsGone /\ PathIsOwned

\* A token is a pair and none is None.
LEMMA TokenFacts ==
  ASSUME NEW t \in Tokens
  PROVE  t # None /\ t[1] \in Sessions /\ t[2] \in 1 .. MaxFlocks /\ t = <<t[1], t[2]>>
BY NoneIsNoToken, FlockBound DEF Tokens

\* Before any call there is no file and nobody owns the lock.
LEMMA InitIsFlockInv == FlockInit => FlockInv
<1> SUFFICES ASSUME FlockInit PROVE FlockInv
  OBVIOUS
<1> USE FlockBound DEF FlockInit
<1>1. 0 \in 0 .. MaxFlocks
  OBVIOUS
<1>2. FlockTypeOK
  BY <1>1 DEF FlockTypeOK, FlockPlaces
<1>3. TokensMade /\ SeenIsGone
  BY DEF TokensMade, SeenIsGone
<1>4. PathIsOwned
  BY DEF PathIsOwned, Owning
<1> QED
  BY <1>2, <1>3, <1>4 DEF FlockInv

\* Every step of acquireGitWorktreeFlock, of its release and of a death keeps the
\* state well formed.
LEMMA TypeStep == FlockTypeOK /\ TokensMade /\ [FlockNext]_flockVars => FlockTypeOK'
<1> SUFFICES ASSUME FlockTypeOK, TokensMade, [FlockNext]_flockVars PROVE FlockTypeOK'
  OBVIOUS
<1> USE FlockBound DEF FlockTypeOK, FlockPlaces, FlockGoto, At
<1>1. ASSUME NEW s \in Sessions, TryLock(s) PROVE FlockTypeOK'
  <2>1. flocks' \in [Sessions -> 0 .. MaxFlocks] /\ flocks'[s] \in 1 .. MaxFlocks
    BY <1>1 DEF TryLock
  <2>2. <<s, flocks'[s]>> \in Tokens
    BY <2>1 DEF Tokens
  <2> QED
    BY <1>1, <2>1, <2>2 DEF TryLock
<1>2. ASSUME NEW s \in Sessions, WriteRecord(s) PROVE FlockTypeOK'
  BY <1>2 DEF WriteRecord, TokensMade
<1>3. ASSUME NEW s \in Sessions, ReadExisting(s) PROVE FlockTypeOK'
  BY <1>3 DEF ReadExisting
<1>4. ASSUME NEW s \in Sessions, RenameAside(s) PROVE FlockTypeOK'
  BY <1>4 DEF RenameAside
<1>5. ASSUME NEW s \in Sessions, Compare(s) PROVE FlockTypeOK'
  BY <1>5 DEF Compare
<1>6. ASSUME NEW s \in Sessions, PutBack(s) PROVE FlockTypeOK'
  BY <1>6 DEF PutBack
<1>7. ASSUME NEW s \in Sessions, Recreate(s) PROVE FlockTypeOK'
  BY <1>7 DEF Recreate, TokensMade
<1>8. ASSUME NEW s \in Sessions, Unlock(s) PROVE FlockTypeOK'
  BY <1>8 DEF Unlock
<1>9. ASSUME NEW s \in Sessions, Unlink(s) PROVE FlockTypeOK'
  BY <1>9 DEF Unlink
<1>10. ASSUME NEW s \in Sessions, ProcessDies(s) PROVE FlockTypeOK'
  BY <1>10 DEF ProcessDies
<1>12. ASSUME NEW s \in Sessions, WriteFails(s) PROVE FlockTypeOK'
  BY <1>12 DEF WriteFails, TokensMade
<1>13. ASSUME NEW s \in Sessions, ReclaimFails(s) PROVE FlockTypeOK'
  BY <1>13 DEF ReclaimFails
<1>14. ASSUME NEW s \in Sessions, ReleaseFails(s) PROVE FlockTypeOK'
  BY <1>14 DEF ReleaseFails, TokensMade
<1>11. ASSUME UNCHANGED flockVars PROVE FlockTypeOK'
  BY <1>11 DEF flockVars
<1> QED
  BY <1>1, <1>2, <1>3, <1>4, <1>5, <1>6, <1>7, <1>8, <1>9, <1>10, <1>11,
     <1>12, <1>13, <1>14 DEF FlockNext, FlockStep

\* A call has a token of its own that no dead process has.
LEMMA TokensStep ==
  ASSUME FlockTypeOK, TokensMade, [FlockNext]_flockVars PROVE TokensMade'
<1> USE FlockBound DEF FlockTypeOK, TokensMade, FlockGoto, At, Token
<1>0. FlockTypeOK'
  BY TypeStep
<1>1. ASSUME NEW s \in Sessions, TryLock(s) PROVE TokensMade'
  <2>1. /\ flocks[s] \in 0 .. MaxFlocks /\ flocks[s] < MaxFlocks
        /\ flocks' = [flocks EXCEPT ![s] = flocks[s] + 1] /\ gone' = gone /\ aside' = aside
        /\ lockFile' \in {lockFile, <<s, flocks'[s]>>}
        /\ flocks'[s] = flocks[s] + 1
    BY <1>1 DEF TryLock
  <2>2. \A u \in Sessions : flocks[u] <= flocks'[u]
    BY <2>1
  <2>3. \A t \in Tokens : t[1] \in Sessions /\ t[2] \in Nat
    BY TokenFacts
  <2>4. \A t \in gone' : t[2] <= flocks'[t[1]]
    BY <2>1, <2>2, <2>3
  <2>5. lockFile' # None => lockFile'[2] <= flocks'[lockFile'[1]]
    BY <2>1, <2>2, <2>3
  <2>6. <<s, flocks'[s]>> \in Tokens \ gone'
    BY <2>1, <2>4 DEF Tokens
  <2>7. \A u \in Sessions : flockPc'[u] # "out" => <<u, flocks'[u]>> \in Tokens \ gone'
    BY <2>1, <2>6, <1>1 DEF TryLock
  <2>8. \A u \in Sessions : aside'[u] # None => aside'[u][2] <= flocks'[aside'[u][1]]
    BY <2>1, <2>2, <2>3
  <2> QED
    BY <2>4, <2>5, <2>7, <2>8
<1>2. ASSUME NEW s \in Sessions, WriteRecord(s) PROVE TokensMade'
  BY <1>2 DEF WriteRecord
<1>3. ASSUME NEW s \in Sessions, ReadExisting(s) PROVE TokensMade'
  BY <1>3 DEF ReadExisting
<1>4. ASSUME NEW s \in Sessions, RenameAside(s) PROVE TokensMade'
  BY <1>4 DEF RenameAside
<1>5. ASSUME NEW s \in Sessions, Compare(s) PROVE TokensMade'
  BY <1>5 DEF Compare
<1>6. ASSUME NEW s \in Sessions, PutBack(s) PROVE TokensMade'
  BY <1>6 DEF PutBack
<1>7. ASSUME NEW s \in Sessions, Recreate(s) PROVE TokensMade'
  BY <1>7 DEF Recreate
<1>8. ASSUME NEW s \in Sessions, Unlock(s) PROVE TokensMade'
  BY <1>8 DEF Unlock
<1>9. ASSUME NEW s \in Sessions, Unlink(s) PROVE TokensMade'
  BY <1>9 DEF Unlink
<1>10. ASSUME NEW s \in Sessions, ProcessDies(s) PROVE TokensMade'
  BY <1>10 DEF ProcessDies
<1>12. ASSUME NEW s \in Sessions, WriteFails(s) PROVE TokensMade'
  BY <1>12 DEF WriteFails
<1>13. ASSUME NEW s \in Sessions, ReclaimFails(s) PROVE TokensMade'
  BY <1>13 DEF ReclaimFails
<1>14. ASSUME NEW s \in Sessions, ReleaseFails(s) PROVE TokensMade'
  BY <1>14 DEF ReleaseFails
<1>11. ASSUME UNCHANGED flockVars PROVE TokensMade'
  BY <1>11 DEF flockVars
<1> QED
  BY <1>1, <1>2, <1>3, <1>4, <1>5, <1>6, <1>7, <1>8, <1>9, <1>10, <1>11,
     <1>12, <1>13, <1>14 DEF FlockNext, FlockStep

\* A probe that finds a process gone stays true.
LEMMA SeenStep ==
  ASSUME FlockTypeOK, SeenIsGone, [FlockNext]_flockVars PROVE SeenIsGone'
<1> USE DEF FlockTypeOK, SeenIsGone, FlockGoto, At
<1>1. ASSUME NEW s \in Sessions, TryLock(s) PROVE SeenIsGone'
  BY <1>1 DEF TryLock
<1>2. ASSUME NEW s \in Sessions, WriteRecord(s) PROVE SeenIsGone'
  BY <1>2 DEF WriteRecord
<1>3. ASSUME NEW s \in Sessions, ReadExisting(s) PROVE SeenIsGone'
  BY <1>3 DEF ReadExisting, OwnerGone
<1>4. ASSUME NEW s \in Sessions, RenameAside(s) PROVE SeenIsGone'
  BY <1>4 DEF RenameAside
<1>5. ASSUME NEW s \in Sessions, Compare(s) PROVE SeenIsGone'
  BY <1>5 DEF Compare
<1>6. ASSUME NEW s \in Sessions, PutBack(s) PROVE SeenIsGone'
  BY <1>6 DEF PutBack
<1>7. ASSUME NEW s \in Sessions, Recreate(s) PROVE SeenIsGone'
  BY <1>7 DEF Recreate
<1>8. ASSUME NEW s \in Sessions, Unlock(s) PROVE SeenIsGone'
  BY <1>8 DEF Unlock
<1>9. ASSUME NEW s \in Sessions, Unlink(s) PROVE SeenIsGone'
  BY <1>9 DEF Unlink
<1>10. ASSUME NEW s \in Sessions, ProcessDies(s) PROVE SeenIsGone'
  BY <1>10 DEF ProcessDies
<1>12. ASSUME NEW s \in Sessions, WriteFails(s) PROVE SeenIsGone'
  BY <1>12 DEF WriteFails
<1>13. ASSUME NEW s \in Sessions, ReclaimFails(s) PROVE SeenIsGone'
  BY <1>13 DEF ReclaimFails
<1>14. ASSUME NEW s \in Sessions, ReleaseFails(s) PROVE SeenIsGone'
  BY <1>14 DEF ReleaseFails
<1>11. ASSUME UNCHANGED flockVars PROVE SeenIsGone'
  BY <1>11 DEF flockVars
<1> QED
  BY <1>1, <1>2, <1>3, <1>4, <1>5, <1>6, <1>7, <1>8, <1>9, <1>10, <1>11,
     <1>12, <1>13, <1>14 DEF FlockNext, FlockStep

\* Until a rename misfires, only its owner and a reclaimer of a dead file move the path.
LEMMA OwnedStep ==
  ASSUME FlockInv, [FlockNext]_flockVars PROVE PathIsOwned'
<1> USE DEF FlockInv, FlockTypeOK, FlockGoto, At, Owning, OwnerGone
<1>0. /\ \A s \in Sessions : Owning(s) => Token(s) \in Tokens \ gone
      /\ \A s, t \in Sessions : Token(s) = Token(t) => s = t
      /\ \A t \in Tokens : t # None /\ t[1] \in Sessions
  BY TokenFacts DEF TokensMade, Token
<1>1. ASSUME NEW s \in Sessions, TryLock(s) PROVE PathIsOwned'
  <2>1. flocks[s] + 1 \in Nat /\ flocks' = [flocks EXCEPT ![s] = flocks[s] + 1]
    BY <1>1 DEF TryLock
  <2>2. \A u \in Sessions \ {s} : Token(u)' = Token(u)
    BY <2>1 DEF Token
  <2>3. Token(s)' = <<s, flocks'[s]>> /\ <<s, flocks'[s]>>[1] = s
    BY DEF Token
  <2>4. CASE lockFile = None /\ lockFile' = <<s, flocks'[s]>> /\ FlockGoto(s, "write")
    BY <1>0, <1>1, <2>2, <2>3, <2>4 DEF TryLock, PathIsOwned
  <2>5. CASE UNCHANGED lockFile /\ FlockGoto(s, "read")
    BY <1>0, <1>1, <2>2, <2>5 DEF TryLock, PathIsOwned
  <2> QED
    BY <1>1, <2>4, <2>5 DEF TryLock
<1>2. ASSUME NEW s \in Sessions, WriteRecord(s) PROVE PathIsOwned'
  BY <1>0, <1>2 DEF WriteRecord, PathIsOwned, Token
<1>3. ASSUME NEW s \in Sessions, ReadExisting(s) PROVE PathIsOwned'
  BY <1>0, <1>3 DEF ReadExisting, PathIsOwned, Token
<1>4. ASSUME NEW s \in Sessions, RenameAside(s) PROVE PathIsOwned'
  <2> SUFFICES ASSUME ~misfired' PROVE PathIsOwned'
    BY DEF PathIsOwned
  <2>1. ~misfired /\ lockFile \in {None, seen[s]} /\ lockFile' = None /\ seen' = seen
    BY <1>4 DEF RenameAside
  <2>2. seen[s] \in gone
    BY <1>4 DEF RenameAside, SeenIsGone
  <2>3. \A u \in Sessions : ~Owning(u)
    BY <1>0, <2>1, <2>2 DEF PathIsOwned
  <2>4. \A u \in Sessions : ~Owning(u)' /\ flockPc'[u] # "putback"
    BY <1>4, <2>1, <2>3 DEF RenameAside, PathIsOwned
  <2>5. \A u \in Sessions : aside'[u] # None => aside'[u] = seen'[u]
    BY <1>4, <2>1 DEF RenameAside, PathIsOwned
  <2> QED
    BY <2>1, <2>4, <2>5 DEF PathIsOwned
<1>5. ASSUME NEW s \in Sessions, Compare(s) PROVE PathIsOwned'
  BY <1>0, <1>5 DEF Compare, PathIsOwned, Token
<1>6. ASSUME NEW s \in Sessions, PutBack(s) PROVE PathIsOwned'
  BY <1>6 DEF PutBack, PathIsOwned
<1>7. ASSUME NEW s \in Sessions, Recreate(s) PROVE PathIsOwned'
  <2>1. \A u \in Sessions : Token(u)' = Token(u)
    BY <1>7 DEF Recreate, Token
  <2>2. Token(s)[1] = s
    BY DEF Token
  <2> QED
    BY <1>0, <1>7, <2>1, <2>2 DEF Recreate, PathIsOwned
<1>8. ASSUME NEW s \in Sessions, Unlock(s) PROVE PathIsOwned'
  BY <1>0, <1>8 DEF Unlock, PathIsOwned, Token
<1>9. ASSUME NEW s \in Sessions, Unlink(s) PROVE PathIsOwned'
  BY <1>0, <1>9 DEF Unlink, PathIsOwned, Token
<1>10. ASSUME NEW s \in Sessions, ProcessDies(s) PROVE PathIsOwned'
  BY <1>0, <1>10 DEF ProcessDies, PathIsOwned, Token, TokensMade
<1>12. ASSUME NEW s \in Sessions, WriteFails(s) PROVE PathIsOwned'
  BY <1>0, <1>12 DEF WriteFails, PathIsOwned, Token
<1>13. ASSUME NEW s \in Sessions, ReclaimFails(s) PROVE PathIsOwned'
  BY <1>0, <1>13 DEF ReclaimFails, PathIsOwned, Token
<1>14. ASSUME NEW s \in Sessions, ReleaseFails(s) PROVE PathIsOwned'
  BY <1>0, <1>14 DEF ReleaseFails, PathIsOwned, Token
<1>11. ASSUME UNCHANGED flockVars PROVE PathIsOwned'
  BY <1>11 DEF flockVars, PathIsOwned, Token
<1> QED
  BY <1>1, <1>2, <1>3, <1>4, <1>5, <1>6, <1>7, <1>8, <1>9, <1>10, <1>11,
     <1>12, <1>13, <1>14 DEF FlockNext, FlockStep

\* The invariant the theorems rest on.
LEMMA FlockInvariant == FlockSpec => []FlockInv
<1>1. FlockInv /\ [FlockNext]_flockVars => FlockInv'
  BY TypeStep, TokensStep, SeenStep, OwnedStep DEF FlockInv
<1> QED
  BY <1>1, InitIsFlockInv, PTL DEF FlockSpec

\* acquireGitWorktreeFlock keeps its files and tokens well formed.
THEOREM FlockTyping == FlockSpec => []FlockTypeOK
BY FlockInvariant, PTL DEF FlockInv

\* At most one living session owns the lock, and the file at the path is its own, until
\* a reclaimer renames a file it has not read (acquireGitWorktreeFlock).
THEOREM FlockExcludes == FlockSpec => []FlockExclusive
<1>1. FlockInv => FlockExclusive
  BY DEF FlockInv, PathIsOwned, FlockExclusive, Token
<1> QED
  BY <1>1, FlockInvariant, PTL

\* Comparison takes over the lock of a dead process only, and until a rename misfires a
\* live file is owned or was left by a call whose write or release failed
\* (acquireGitWorktreeFlock, releaseGitWorktreeFlock).
THEOREM FlockReclaims == FlockSpec => []FlockReclaimsDead
<1>1. FlockInv => FlockReclaimsDead
  BY DEF FlockInv, FlockTypeOK, SeenIsGone, PathIsOwned, FlockReclaimsDead, OwnerGone
<1> QED
  BY <1>1, FlockInvariant, PTL

-----------------------------------------------------------------------------
\* The lock file is a lock service that a misfired rename compromises: the service that
\* FileLock implements for the lock of one file (utils/fs.ts).
FlockService == INSTANCE LockService WITH
                  Callers <- Sessions,
                  holders <- {s \in Sessions : Owning(s)},
                  compromised <- misfired

\* A caller that creates the file enters, one that removes or loses it leaves.
LEMMA FlockServiceStep ==
  ASSUME FlockInv, [FlockNext]_flockVars PROVE [FlockService!Next]_FlockService!vars
<1> DEFINE Owners == {s \in Sessions : Owning(s)}
<1> USE DEF FlockInv, FlockTypeOK, FlockGoto, At, Owning
<1>1. ASSUME NEW s \in Sessions, lockFile = None, flockPc[s] \in {"out", "recreate"},
             FlockGoto(s, "write"), UNCHANGED misfired
      PROVE  FlockService!Enter(s)
  <2>1. misfired \/ Owners = {}
    BY <1>1, TokenFacts DEF PathIsOwned, TokensMade
  <2>2. s \notin Owners /\ Owners' = Owners \cup {s}
    BY <1>1
  <2> QED
    BY <1>1, <2>1, <2>2, Zenon DEF FlockService!Enter
<1>2. ASSUME NEW s \in Sessions, Owning(s), UNCHANGED misfired,
             FlockGoto(s, "out") \/ FlockGoto(s, "read")
      PROVE  FlockService!Leave({s})
  <2>1. {s} \subseteq Owners /\ Owners' = Owners \ {s}
    BY <1>2
  <2> QED
    BY <1>2, <2>1, Zenon DEF FlockService!Leave
<1>3. CASE UNCHANGED misfired /\ Owners' = Owners
  BY <1>3, Zenon DEF FlockService!vars
<1>4. ASSUME NEW s \in Sessions, FlockStep(s), ~RenameAside(s)
      PROVE  FlockService!Next \/ (UNCHANGED misfired /\ Owners' = Owners)
  <2>1. CASE TryLock(s)
    <3>1. CASE lockFile = None /\ FlockGoto(s, "write")
      BY <1>1, <2>1, <3>1 DEF TryLock, FlockService!Next
    <3>2. CASE FlockGoto(s, "read")
      BY <2>1, <3>2 DEF TryLock
    <3> QED
      BY <2>1, <3>1, <3>2 DEF TryLock
  <2>2. CASE Recreate(s)
    <3>1. CASE lockFile = None
      BY <1>1, <2>2, <3>1 DEF Recreate, FlockService!Next
    <3>2. CASE lockFile # None
      BY <2>2, <3>2 DEF Recreate
    <3> QED
      BY <3>1, <3>2
  <2>3. CASE Unlock(s) \/ Unlink(s)
    <3>1. CASE FlockGoto(s, "out")
      BY <1>2, <2>3, <3>1 DEF Unlock, Unlink, FlockService!Next
    <3>2. CASE FlockGoto(s, "unlink")
      BY <2>3, <3>2 DEF Unlock, Unlink
    <3> QED
      BY <2>3, <3>1, <3>2 DEF Unlock, Unlink
  <2>4. CASE ProcessDies(s)
    <3>1. CASE Owning(s)
      BY <1>2, <2>4, <3>1 DEF ProcessDies, FlockService!Next
    <3>2. CASE ~Owning(s)
      BY <2>4, <3>2 DEF ProcessDies
    <3> QED
      BY <3>1, <3>2
  <2>5. CASE WriteRecord(s) \/ ReadExisting(s) \/ Compare(s) \/ PutBack(s) \/ ReclaimFails(s)
    BY <2>5 DEF WriteRecord, ReadExisting, Compare, PutBack, ReclaimFails
  <2>6. CASE WriteFails(s) \/ ReleaseFails(s)
    BY <1>2, <2>6 DEF WriteFails, ReleaseFails, FlockService!Next
  <2> QED
    BY <1>4, <2>1, <2>2, <2>3, <2>4, <2>5, <2>6 DEF FlockStep
<1>5. ASSUME NEW s \in Sessions, RenameAside(s)
      PROVE  FlockService!Compromise \/ (UNCHANGED misfired /\ Owners' = Owners)
  <2>1. Owners' = Owners
    BY <1>5 DEF RenameAside
  <2>2. misfired' = TRUE \/ misfired' = misfired
    BY <1>5, Zenon DEF RenameAside
  <2> QED
    BY <2>1, <2>2, Zenon DEF FlockService!Compromise
<1>6. CASE UNCHANGED flockVars
  BY <1>3, <1>6 DEF flockVars
<1> QED
  BY <1>3, <1>4, <1>5, <1>6 DEF FlockNext, FlockService!Next

\* acquireGitWorktreeFlock and releaseGitWorktreeFlock implement the lock service,
\* compromised exactly when a rename misfires.
THEOREM FlockRefinement == FlockSpec => FlockService!Spec
<1>1. FlockInit => FlockService!Init
  BY DEF FlockInit, FlockService!Init, Owning
<1> QED
  BY <1>1, FlockServiceStep, FlockInvariant, PTL DEF FlockSpec, FlockService!Spec

\* One session at a time is between its probe of a dead owner and its rename.
OneReclaimer == \A s, t \in Sessions : At(s, "rename") /\ At(t, "rename") => s = t

\* Then what it renames is the file whose owner it has probed.
ProbedIsThere == ~misfired /\ \A s \in Sessions : At(s, "rename") => lockFile = seen[s]

LEMMA ProbedStays ==
  ASSUME FlockInv, OneReclaimer, ProbedIsThere, [FlockNext]_flockVars PROVE ProbedIsThere'
<1> USE DEF FlockInv, FlockTypeOK, FlockGoto, At
<1>1. \A s \in Sessions : At(s, "rename") => seen[s] \in gone /\ seen[s] # None
  BY TokenFacts DEF SeenIsGone
<1>2. ASSUME NEW s \in Sessions, FlockStep(s) PROVE ProbedIsThere'
  <2>1. CASE TryLock(s)
    BY <1>1, <2>1 DEF TryLock, ProbedIsThere
  <2>2. CASE \/ WriteRecord(s) \/ WriteFails(s) \/ Compare(s) \/ ReclaimFails(s)
             \/ Unlock(s) \/ ReleaseFails(s) \/ ProcessDies(s)
    BY <2>2 DEF WriteRecord, WriteFails, Compare, ReclaimFails, Unlock, ReleaseFails,
                ProcessDies, ProbedIsThere
  <2>3. CASE ReadExisting(s)
    BY <2>3 DEF ReadExisting, ProbedIsThere
  <2>4. CASE RenameAside(s)
    <3>1. \A t \in Sessions : flockPc'[t] # "rename"
      BY <2>4 DEF RenameAside, OneReclaimer
    <3>2. lockFile = seen[s] /\ ~misfired
      BY <2>4 DEF RenameAside, ProbedIsThere
    <3>3. ~misfired'
      BY <2>4, <3>2, Zenon DEF RenameAside
    <3> QED
      BY <3>1, <3>3 DEF ProbedIsThere
  <2>5. CASE PutBack(s)
    BY <2>5 DEF PutBack, PathIsOwned, ProbedIsThere
  <2>6. CASE Recreate(s)
    BY <1>1, <2>6 DEF Recreate, ProbedIsThere
  <2>7. CASE Unlink(s)
    <3>1. lockFile = Token(s) /\ Token(s) \notin gone
      BY <2>7 DEF Unlink, Owning, ProbedIsThere, PathIsOwned, TokensMade
    <3> QED
      BY <1>1, <2>7, <3>1 DEF Unlink, ProbedIsThere
  <2> QED
    BY <1>2, <2>1, <2>2, <2>3, <2>4, <2>5, <2>6, <2>7 DEF FlockStep
<1>3. CASE UNCHANGED flockVars
  BY <1>3 DEF flockVars, ProbedIsThere
<1> QED
  BY <1>2, <1>3 DEF FlockNext

\* Two sessions that have probed the same dead owner are all it takes for a rename to
\* misfire: without them the lock excludes with no exception, whoever dies and whatever
\* else is going on.
THEOREM OneReclaimerExcludes ==
  FlockSpec /\ []OneReclaimer => [](\A s, t \in Sessions : Owning(s) /\ Owning(t) => s = t)
<1>1. FlockInit => ProbedIsThere
  BY DEF FlockInit, ProbedIsThere, At
<1>2. FlockInv /\ ProbedIsThere => \A s, t \in Sessions : Owning(s) /\ Owning(t) => s = t
  BY DEF FlockInv, PathIsOwned, ProbedIsThere, Token
<1>3. FlockInv /\ OneReclaimer /\ ProbedIsThere /\ [FlockNext]_flockVars => ProbedIsThere'
  BY ProbedStays
<1> QED
  BY <1>1, <1>2, <1>3, FlockInvariant, PTL DEF FlockSpec

\* An empty record at the path, and no session that writes it, releases it or renames.
EmptyRecordAlone ==
  /\ lockFile # None /\ lockFile \notin written
  /\ \A s \in Sessions : flockPc[s] \in {"out", "read", "recreate"}

\* The empty record that a failed write or a death leaves is never reclaimed: it has no
\* process to probe, so every later call reports contention (acquireGitWorktreeFlock,
\* existing?.pid !== undefined).
THEOREM EmptyRecordIsForever ==
  FlockSpec => [][EmptyRecordAlone => EmptyRecordAlone' /\ UNCHANGED lockFile]_flockVars
<1>1. ASSUME FlockTypeOK, EmptyRecordAlone, [FlockNext]_flockVars
      PROVE  EmptyRecordAlone' /\ UNCHANGED lockFile
  <2> USE DEF FlockTypeOK, EmptyRecordAlone, FlockGoto, At
  <2>1. ASSUME NEW s \in Sessions, FlockStep(s) PROVE EmptyRecordAlone' /\ UNCHANGED lockFile
    <3>1. CASE TryLock(s)
      BY <1>1, <3>1 DEF TryLock
    <3>2. CASE ReadExisting(s)
      BY <1>1, <3>2 DEF ReadExisting
    <3>3. CASE Recreate(s)
      BY <1>1, <3>3 DEF Recreate
    <3>4. CASE ReclaimFails(s) \/ ProcessDies(s)
      BY <1>1, <3>4 DEF ReclaimFails, ProcessDies
    <3> QED
      BY <1>1, <2>1, <3>1, <3>2, <3>3, <3>4 DEF FlockStep, WriteRecord, WriteFails, RenameAside,
         Compare, PutBack, Unlock, Unlink, ReleaseFails
  <2>2. CASE UNCHANGED flockVars
    BY <1>1, <2>2 DEF flockVars
  <2> QED
    BY <1>1, <2>1, <2>2 DEF FlockNext
<1> QED
  BY <1>1, FlockInvariant, PTL DEF FlockSpec, FlockInv

-----------------------------------------------------------------------------
\* A git process that is no stray belongs to a session that waits for it, and a session
\* past the lease has a plan.
ProcessesWaitedFor ==
  /\ \A s \in removing : removalPc[s] = "removing"
  /\ \A s \in Sessions : removalPc[s] \in Guarded => plan[s] \in Plan

\* The kernel lock is held by the session that is between the lease and the return.
LeaseGuards ==
  /\ \A s \in Sessions : removalPc[s] \in Guarded => lease = s
  /\ lease # None => removalPc[lease] \in Guarded

\* What the judgement of a session still guarantees once it goes on to remove.
JudgementHolds ==
  \A s \in Sessions :
    /\ removalPc[s] = "remove" \/ s \in removing =>
         moved[s] \/ (~used /\ head <= integrated /\ terminal)
    /\ removalPc[s] = "detach" => moved[s] \/ ~used

\* ... and what it guarantees to a git process whose call has returned.
StraysJudged == \A k \in strays : k.moved \/ (~used /\ head <= integrated /\ terminal)

RemovalInv == RemovalTypeOK /\ ProcessesWaitedFor /\ LeaseGuards /\ JudgementHolds /\ StraysJudged

\* No worktree, no call.
LEMMA InitIsRemovalInv == RemovalInit => RemovalInv
<1> SUFFICES ASSUME RemovalInit PROVE RemovalInv
  OBVIOUS
<1> USE RemovalBounds DEF RemovalInit
<1>1. RemovalTypeOK
  <2>1. {registered, onDisk, used, terminal} \subseteq BOOLEAN /\ moved \in [Sessions -> BOOLEAN]
    BY Zenon
  <2>2. edits \in 0 .. MaxEdits /\ head \in 0 .. MaxHead /\ integrated \in 0 .. head
    OBVIOUS
  <2>3. /\ {createLock, lease} \subseteq Sessions \cup {None}
        /\ removing \subseteq Sessions /\ crashed \subseteq Sessions /\ strays \subseteq Stray
        /\ removalPc \in [Sessions -> RemovalPlaces]
        /\ plan \in [Sessions -> Plan \cup {None}]
    BY DEF RemovalPlaces
  <2> QED
    BY <2>1, <2>2, <2>3 DEF RemovalTypeOK
<1>2. ProcessesWaitedFor /\ LeaseGuards /\ JudgementHolds /\ StraysJudged
  BY DEF ProcessesWaitedFor, LeaseGuards, Guarded, JudgementHolds, StraysJudged
<1> QED
  BY <1>1, <1>2 DEF RemovalInv

\* Marking keeps the marks and the strays well formed.
LEMMA MarkedTypes ==
  ASSUME strays \subseteq Stray, NEW ended, AllMovedBut(ended)
  PROVE  strays' \subseteq Stray /\ moved' \in [Sessions -> BOOLEAN]
<1>1. \A k \in strays : [k EXCEPT !.moved = TRUE] \in Stray
  BY DEF Stray
<1>2. strays' \subseteq Stray
  BY <1>1 DEF AllMovedBut, MovedOn
<1>3. \A s \in Sessions : Touched(s) \in BOOLEAN
  BY DEF Touched
<1>4. moved' \in [Sessions -> BOOLEAN]
  BY <1>3, Zenon DEF AllMovedBut
<1> QED
  BY <1>2, <1>4

\* A git process that ends changes the worktree only within its type.
LEMMA GitEndTypes ==
  ASSUME RemovalTypeOK, NEW force, NEW ended, GitEnds(force, ended)
  PROVE  /\ {registered', onDisk', used', terminal'} \subseteq BOOLEAN
         /\ edits' \in 0 .. MaxEdits
         /\ head' \in 0 .. MaxHead /\ integrated' \in 0 .. head'
         /\ strays' \subseteq Stray /\ moved' \in [Sessions -> BOOLEAN]
<1>1. CASE strays' = strays \ ended /\ UNCHANGED <<worktreeVars, moved>>
  BY <1>1 DEF worktreeVars, RemovalTypeOK
<1>2. CASE /\ registered' \in BOOLEAN /\ onDisk' = FALSE /\ edits' = 0 /\ used' = FALSE
           /\ AllMovedBut(ended) /\ UNCHANGED <<head, integrated, terminal>>
  <2>1. strays' \subseteq Stray /\ moved' \in [Sessions -> BOOLEAN]
    BY <1>2, MarkedTypes DEF RemovalTypeOK
  <2>2. {registered', onDisk', used', terminal'} \subseteq BOOLEAN
    BY <1>2, Zenon DEF RemovalTypeOK
  <2> QED
    BY <1>2, <2>1, <2>2, RemovalBounds DEF RemovalTypeOK
<1> QED
  BY <1>1, <1>2 DEF GitEnds

\* Every step keeps the worktree, the locks and the calls well formed.
LEMMA RemovalTypeStep ==
  ASSUME RemovalTypeOK, ProcessesWaitedFor, [RemovalNext]_removalVars PROVE RemovalTypeOK'
<1> USE RemovalBounds, NoneIsNoSession DEF RemovalTypeOK, RemovalPlaces, Plan
<1>1. ASSUME Work PROVE RemovalTypeOK'
  <2>1. {registered', onDisk', used', terminal'} \subseteq BOOLEAN
    BY <1>1, Zenon DEF Work, AllMoved
  <2>2. edits' \in 0 .. MaxEdits
    BY <1>1 DEF Work, AllMoved
  <2>3. head' \in 0 .. MaxHead /\ integrated' \in 0 .. head'
    BY <1>1 DEF Work, AllMoved
  <2>4. /\ {createLock', lease'} \subseteq Sessions \cup {None} /\ removing' \subseteq Sessions
        /\ removalPc' \in [Sessions -> RemovalPlaces] /\ plan' \in [Sessions -> Plan \cup {None}]
        /\ crashed' \subseteq Sessions
    BY <1>1 DEF Work, AllMoved
  <2>5. strays' \subseteq Stray /\ moved' \in [Sessions -> BOOLEAN]
    BY <1>1, MarkedTypes DEF Work, AllMoved
  <2> QED
    BY <2>1, <2>2, <2>3, <2>4, <2>5
<1>2. ASSUME NEW s \in Sessions, Prune(s) PROVE RemovalTypeOK'
  BY <1>2 DEF Prune, Stage
<1>3. ASSUME NEW s \in Sessions, BeginCreate(s) PROVE RemovalTypeOK'
  BY <1>3 DEF BeginCreate, Stage, MoveTo, worktreeVars
<1>4. ASSUME NEW s \in Sessions, AddWorktree(s) PROVE RemovalTypeOK'
  BY <1>4, MarkedTypes DEF AddWorktree, Stage, MoveTo, AllMoved
<1>5. ASSUME NEW s \in Sessions, SetUp(s) PROVE RemovalTypeOK'
  BY <1>5, MarkedTypes DEF SetUp, Stage, MoveTo, AllMoved
<1>6. ASSUME NEW s \in Sessions, ReleaseCreateLock(s) PROVE RemovalTypeOK'
  BY <1>6 DEF ReleaseCreateLock, Stage, Leave, MoveTo, worktreeVars
<1>7. ASSUME NEW s \in Sessions, BeginDetach(s) PROVE RemovalTypeOK'
  BY <1>7 DEF BeginDetach, Stage, MoveTo, worktreeVars
<1>8. ASSUME NEW s \in Sessions, PreflightBranch(s) PROVE RemovalTypeOK'
  BY <1>8 DEF PreflightBranch, Stage, MoveTo, worktreeVars
<1>9. ASSUME NEW s \in Sessions, DetachRemove(s) PROVE RemovalTypeOK'
  BY <1>9, GitEndTypes DEF DetachRemove, Stage, MoveTo
<1>10. ASSUME NEW s \in Sessions, TakeLease(s) PROVE RemovalTypeOK'
  BY <1>10 DEF TakeLease, Stage, MoveTo, worktreeVars
<1>11. ASSUME NEW s \in Sessions, Census(s) PROVE RemovalTypeOK'
  BY <1>11 DEF Census, Stage, MoveTo, worktreeVars
<1>12. ASSUME NEW s \in Sessions, PreDeleteHooks(s) PROVE RemovalTypeOK'
  BY <1>12, MarkedTypes DEF PreDeleteHooks, Stage, AllMoved
<1>13. ASSUME NEW s \in Sessions, Recensus(s) PROVE RemovalTypeOK'
  BY <1>13 DEF Recensus, Stage, MoveTo, worktreeVars
<1>14. ASSUME NEW s \in Sessions, StartRemove(s) PROVE RemovalTypeOK'
  BY <1>14 DEF StartRemove, Stage, MoveTo, worktreeVars
<1>15. ASSUME NEW s \in Sessions, GitRemove(s) PROVE RemovalTypeOK'
  BY <1>15, GitEndTypes DEF GitRemove
<1>16. ASSUME NEW k \in Stray, StrayEnds(k) PROVE RemovalTypeOK'
  BY <1>16, GitEndTypes DEF StrayEnds
<1>17. ASSUME NEW s \in Sessions, Confirm(s) PROVE RemovalTypeOK'
  BY <1>17 DEF Confirm, Stage, MoveTo, worktreeVars
<1>18. ASSUME NEW s \in Sessions, Abort(s) PROVE RemovalTypeOK'
  <2>1. strays' \subseteq Stray
    <3>1. s \in removing => plan[s].force \in BOOLEAN
      BY DEF ProcessesWaitedFor, Guarded
    <3> QED
      BY <1>18, <3>1 DEF Abort, Stray
  <2> QED
    BY <1>18, <2>1 DEF Abort, Leave, MoveTo, worktreeVars
<1>20. ASSUME NEW s \in Sessions, SettleLease(s) PROVE RemovalTypeOK'
  BY <1>20 DEF SettleLease, Stage, Leave, MoveTo, worktreeVars
<1>21. ASSUME NEW s \in Sessions, Crash(s) PROVE RemovalTypeOK'
  BY <1>21 DEF Crash, worktreeVars
<1>22. ASSUME NEW s \in Sessions, NEW force \in BOOLEAN, PlanDeletion(s, force) PROVE RemovalTypeOK'
  BY <1>22 DEF PlanDeletion, Stage, worktreeVars
<1>23. ASSUME UNCHANGED removalVars PROVE RemovalTypeOK'
  BY <1>23 DEF removalVars, worktreeVars
<1> QED
  BY <1>1, <1>2, <1>3, <1>4, <1>5, <1>6, <1>7, <1>8, <1>9, <1>10, <1>11, <1>12, <1>13,
     <1>14, <1>15, <1>16, <1>17, <1>18, <1>20, <1>21, <1>22, <1>23
     DEF RemovalNext, RemovalStep

\* A git process is started by StartRemove, and its session moves on when it has ended or
\* has become a stray.
LEMMA ProcessStep ==
  ASSUME RemovalTypeOK, ProcessesWaitedFor, [RemovalNext]_removalVars PROVE ProcessesWaitedFor'
<1> USE DEF RemovalTypeOK, ProcessesWaitedFor, Guarded
<1>1. ASSUME Work PROVE ProcessesWaitedFor'
  BY <1>1 DEF Work, AllMoved, AllMovedBut, MovedOn
<1>2. ASSUME NEW s \in Sessions, Prune(s) PROVE ProcessesWaitedFor'
  BY <1>2 DEF Prune, Stage
<1>3. ASSUME NEW s \in Sessions, BeginCreate(s) PROVE ProcessesWaitedFor'
  BY <1>3 DEF BeginCreate, Stage, MoveTo, worktreeVars
<1>4. ASSUME NEW s \in Sessions, AddWorktree(s) PROVE ProcessesWaitedFor'
  BY <1>4 DEF AddWorktree, Stage, MoveTo, AllMoved, AllMovedBut, MovedOn
<1>5. ASSUME NEW s \in Sessions, SetUp(s) PROVE ProcessesWaitedFor'
  BY <1>5 DEF SetUp, Stage, MoveTo, AllMoved, AllMovedBut, MovedOn
<1>6. ASSUME NEW s \in Sessions, ReleaseCreateLock(s) PROVE ProcessesWaitedFor'
  BY <1>6 DEF ReleaseCreateLock, Stage, Leave, MoveTo, worktreeVars
<1>7. ASSUME NEW s \in Sessions, BeginDetach(s) PROVE ProcessesWaitedFor'
  BY <1>7 DEF BeginDetach, Stage, MoveTo, worktreeVars
<1>8. ASSUME NEW s \in Sessions, PreflightBranch(s) PROVE ProcessesWaitedFor'
  BY <1>8 DEF PreflightBranch, Stage, MoveTo, worktreeVars
<1>9. ASSUME NEW s \in Sessions, DetachRemove(s) PROVE ProcessesWaitedFor'
  BY <1>9 DEF DetachRemove, Stage, MoveTo, GitEnds, AllMovedBut, MovedOn, worktreeVars
<1>10. ASSUME NEW s \in Sessions, TakeLease(s) PROVE ProcessesWaitedFor'
  BY <1>10 DEF TakeLease, Stage, MoveTo, worktreeVars
<1>11. ASSUME NEW s \in Sessions, Census(s) PROVE ProcessesWaitedFor'
  BY <1>11 DEF Census, Stage, MoveTo, worktreeVars
<1>12. ASSUME NEW s \in Sessions, PreDeleteHooks(s) PROVE ProcessesWaitedFor'
  BY <1>12 DEF PreDeleteHooks, Stage, AllMoved, AllMovedBut, MovedOn
<1>13. ASSUME NEW s \in Sessions, Recensus(s) PROVE ProcessesWaitedFor'
  BY <1>13 DEF Recensus, Stage, MoveTo, worktreeVars
<1>14. ASSUME NEW s \in Sessions, StartRemove(s) PROVE ProcessesWaitedFor'
  BY <1>14 DEF StartRemove, Stage, MoveTo, worktreeVars
<1>15. ASSUME NEW s \in Sessions, GitRemove(s) PROVE ProcessesWaitedFor'
  BY <1>15 DEF GitRemove, GitEnds, AllMovedBut, MovedOn, worktreeVars
<1>16. ASSUME NEW k \in Stray, StrayEnds(k) PROVE ProcessesWaitedFor'
  BY <1>16 DEF StrayEnds, GitEnds, AllMovedBut, MovedOn, worktreeVars
<1>17. ASSUME NEW s \in Sessions, Confirm(s) PROVE ProcessesWaitedFor'
  BY <1>17 DEF Confirm, Stage, MoveTo, worktreeVars
<1>18. ASSUME NEW s \in Sessions, Abort(s) PROVE ProcessesWaitedFor'
  BY <1>18 DEF Abort, Leave, MoveTo, worktreeVars
<1>20. ASSUME NEW s \in Sessions, SettleLease(s) PROVE ProcessesWaitedFor'
  BY <1>20 DEF SettleLease, Stage, Leave, MoveTo, worktreeVars
<1>21. ASSUME NEW s \in Sessions, Crash(s) PROVE ProcessesWaitedFor'
  BY <1>21 DEF Crash, worktreeVars
<1>22. ASSUME NEW s \in Sessions, NEW force \in BOOLEAN, PlanDeletion(s, force) PROVE ProcessesWaitedFor'
  <2>1. [dirty |-> edits > 0, head |-> head, force |-> force] \in Plan
    BY <1>22 DEF Plan
  <2> QED
    BY <1>22, <2>1 DEF PlanDeletion, Stage, worktreeVars
<1>23. ASSUME UNCHANGED removalVars PROVE ProcessesWaitedFor'
  BY <1>23 DEF removalVars, worktreeVars
<1> QED
  BY <1>1, <1>2, <1>3, <1>4, <1>5, <1>6, <1>7, <1>8, <1>9, <1>10, <1>11, <1>12, <1>13,
     <1>14, <1>15, <1>16, <1>17, <1>18, <1>20, <1>21, <1>22, <1>23
     DEF RemovalNext, RemovalStep

\* The lock is taken when nobody holds it, so nobody else is past the lease.
LEMMA LeaseStep ==
  ASSUME RemovalTypeOK, LeaseGuards, [RemovalNext]_removalVars PROVE LeaseGuards'
<1> USE NoneIsNoSession DEF RemovalTypeOK, LeaseGuards, Guarded
<1>1. ASSUME Work PROVE LeaseGuards'
  BY <1>1 DEF Work, AllMoved, AllMovedBut, MovedOn
<1>2. ASSUME NEW s \in Sessions, Prune(s) PROVE LeaseGuards'
  BY <1>2 DEF Prune, Stage
<1>3. ASSUME NEW s \in Sessions, BeginCreate(s) PROVE LeaseGuards'
  BY <1>3 DEF BeginCreate, Stage, MoveTo, worktreeVars
<1>4. ASSUME NEW s \in Sessions, AddWorktree(s) PROVE LeaseGuards'
  BY <1>4 DEF AddWorktree, Stage, MoveTo, AllMoved, AllMovedBut, MovedOn
<1>5. ASSUME NEW s \in Sessions, SetUp(s) PROVE LeaseGuards'
  BY <1>5 DEF SetUp, Stage, MoveTo, AllMoved, AllMovedBut, MovedOn
<1>6. ASSUME NEW s \in Sessions, ReleaseCreateLock(s) PROVE LeaseGuards'
  BY <1>6 DEF ReleaseCreateLock, Stage, Leave, MoveTo, worktreeVars
<1>7. ASSUME NEW s \in Sessions, BeginDetach(s) PROVE LeaseGuards'
  BY <1>7 DEF BeginDetach, Stage, MoveTo, worktreeVars
<1>8. ASSUME NEW s \in Sessions, PreflightBranch(s) PROVE LeaseGuards'
  BY <1>8 DEF PreflightBranch, Stage, MoveTo, worktreeVars
<1>9. ASSUME NEW s \in Sessions, DetachRemove(s) PROVE LeaseGuards'
  BY <1>9 DEF DetachRemove, Stage, MoveTo, GitEnds, AllMovedBut, MovedOn, worktreeVars
<1>10. ASSUME NEW s \in Sessions, TakeLease(s) PROVE LeaseGuards'
  BY <1>10 DEF TakeLease, Stage, MoveTo, worktreeVars
<1>11. ASSUME NEW s \in Sessions, Census(s) PROVE LeaseGuards'
  BY <1>11 DEF Census, Stage, MoveTo, worktreeVars
<1>12. ASSUME NEW s \in Sessions, PreDeleteHooks(s) PROVE LeaseGuards'
  BY <1>12 DEF PreDeleteHooks, Stage, AllMoved, AllMovedBut, MovedOn
<1>13. ASSUME NEW s \in Sessions, Recensus(s) PROVE LeaseGuards'
  BY <1>13 DEF Recensus, Stage, MoveTo, worktreeVars
<1>14. ASSUME NEW s \in Sessions, StartRemove(s) PROVE LeaseGuards'
  BY <1>14 DEF StartRemove, Stage, MoveTo, worktreeVars
<1>15. ASSUME NEW s \in Sessions, GitRemove(s) PROVE LeaseGuards'
  BY <1>15 DEF GitRemove, GitEnds, AllMovedBut, MovedOn, worktreeVars
<1>16. ASSUME NEW k \in Stray, StrayEnds(k) PROVE LeaseGuards'
  BY <1>16 DEF StrayEnds, GitEnds, AllMovedBut, MovedOn, worktreeVars
<1>17. ASSUME NEW s \in Sessions, Confirm(s) PROVE LeaseGuards'
  BY <1>17 DEF Confirm, Stage, MoveTo, worktreeVars
<1>18. ASSUME NEW s \in Sessions, Abort(s) PROVE LeaseGuards'
  BY <1>18 DEF Abort, Leave, MoveTo, worktreeVars
<1>20. ASSUME NEW s \in Sessions, SettleLease(s) PROVE LeaseGuards'
  BY <1>20 DEF SettleLease, Stage, Leave, MoveTo, worktreeVars
<1>21. ASSUME NEW s \in Sessions, Crash(s) PROVE LeaseGuards'
  BY <1>21 DEF Crash, worktreeVars
<1>22. ASSUME NEW s \in Sessions, NEW force \in BOOLEAN, PlanDeletion(s, force) PROVE LeaseGuards'
  BY <1>22 DEF PlanDeletion, Stage, worktreeVars
<1>23. ASSUME UNCHANGED removalVars PROVE LeaseGuards'
  BY <1>23 DEF removalVars, worktreeVars
<1> QED
  BY <1>1, <1>2, <1>3, <1>4, <1>5, <1>6, <1>7, <1>8, <1>9, <1>10, <1>11, <1>12, <1>13,
     <1>14, <1>15, <1>16, <1>17, <1>18, <1>20, <1>21, <1>22, <1>23
     DEF RemovalNext, RemovalStep

\* Whatever changes the worktree marks the sessions that have judged it.
LEMMA JudgementStep ==
  ASSUME RemovalTypeOK, ProcessesWaitedFor, JudgementHolds, [RemovalNext]_removalVars
  PROVE  JudgementHolds'
<1> USE DEF RemovalTypeOK, ProcessesWaitedFor, JudgementHolds, Touched
<1>1. ASSUME Work PROVE JudgementHolds'
  BY <1>1 DEF Work, AllMoved, AllMovedBut, MovedOn
<1>2. ASSUME NEW s \in Sessions, Prune(s) PROVE JudgementHolds'
  BY <1>2 DEF Prune, Stage
<1>3. ASSUME NEW s \in Sessions, BeginCreate(s) PROVE JudgementHolds'
  BY <1>3 DEF BeginCreate, Stage, MoveTo, worktreeVars
<1>4. ASSUME NEW s \in Sessions, AddWorktree(s) PROVE JudgementHolds'
  BY <1>4 DEF AddWorktree, Stage, MoveTo, AllMoved, AllMovedBut, MovedOn
<1>5. ASSUME NEW s \in Sessions, SetUp(s) PROVE JudgementHolds'
  BY <1>5 DEF SetUp, Stage, MoveTo, AllMoved, AllMovedBut, MovedOn
<1>6. ASSUME NEW s \in Sessions, ReleaseCreateLock(s) PROVE JudgementHolds'
  BY <1>6 DEF ReleaseCreateLock, Stage, Leave, MoveTo, worktreeVars
<1>7. ASSUME NEW s \in Sessions, BeginDetach(s) PROVE JudgementHolds'
  BY <1>7 DEF BeginDetach, Stage, MoveTo, worktreeVars
<1>8. ASSUME NEW s \in Sessions, PreflightBranch(s) PROVE JudgementHolds'
  BY <1>8 DEF PreflightBranch, Stage, MoveTo, worktreeVars
<1>9. ASSUME NEW s \in Sessions, DetachRemove(s) PROVE JudgementHolds'
  <2>1. removalPc[s] = "detach" /\ MoveTo(s, "unlock") /\ removing' = removing
    BY <1>9 DEF DetachRemove, Stage
  <2>2. CASE UNCHANGED <<worktreeVars, moved>>
    BY <2>1, <2>2 DEF MoveTo, worktreeVars
  <2>3. CASE AllMovedBut({})
    BY <2>1, <2>3 DEF MoveTo, AllMovedBut
  <2> QED
    BY <1>9, <2>2, <2>3 DEF DetachRemove, GitEnds
<1>10. ASSUME NEW s \in Sessions, TakeLease(s) PROVE JudgementHolds'
  BY <1>10 DEF TakeLease, Stage, MoveTo, worktreeVars
<1>11. ASSUME NEW s \in Sessions, Census(s) PROVE JudgementHolds'
  BY <1>11 DEF Census, Stage, MoveTo, worktreeVars
<1>12. ASSUME NEW s \in Sessions, PreDeleteHooks(s) PROVE JudgementHolds'
  BY <1>12 DEF PreDeleteHooks, Stage, AllMoved, AllMovedBut, MovedOn
<1>13. ASSUME NEW s \in Sessions, Recensus(s) PROVE JudgementHolds'
  BY <1>13 DEF Recensus, Stage, MoveTo, worktreeVars, AsPlanned, Deletable
<1>14. ASSUME NEW s \in Sessions, StartRemove(s) PROVE JudgementHolds'
  BY <1>14 DEF StartRemove, Stage, MoveTo, worktreeVars
<1>15. ASSUME NEW s \in Sessions, GitRemove(s) PROVE JudgementHolds'
  BY <1>15 DEF GitRemove, GitEnds, AllMovedBut, MovedOn, worktreeVars
<1>16. ASSUME NEW k \in Stray, StrayEnds(k) PROVE JudgementHolds'
  BY <1>16 DEF StrayEnds, GitEnds, AllMovedBut, MovedOn, worktreeVars
<1>17. ASSUME NEW s \in Sessions, Confirm(s) PROVE JudgementHolds'
  BY <1>17 DEF Confirm, Stage, MoveTo, worktreeVars
<1>18. ASSUME NEW s \in Sessions, Abort(s) PROVE JudgementHolds'
  BY <1>18 DEF Abort, Leave, MoveTo, worktreeVars, Guarded
<1>20. ASSUME NEW s \in Sessions, SettleLease(s) PROVE JudgementHolds'
  BY <1>20 DEF SettleLease, Stage, Leave, MoveTo, worktreeVars
<1>21. ASSUME NEW s \in Sessions, Crash(s) PROVE JudgementHolds'
  BY <1>21 DEF Crash, worktreeVars
<1>22. ASSUME NEW s \in Sessions, NEW force \in BOOLEAN, PlanDeletion(s, force) PROVE JudgementHolds'
  BY <1>22 DEF PlanDeletion, Stage, worktreeVars
<1>23. ASSUME UNCHANGED removalVars PROVE JudgementHolds'
  BY <1>23 DEF removalVars, worktreeVars
<1> QED
  BY <1>1, <1>2, <1>3, <1>4, <1>5, <1>6, <1>7, <1>8, <1>9, <1>10, <1>11, <1>12, <1>13,
     <1>14, <1>15, <1>16, <1>17, <1>18, <1>20, <1>21, <1>22, <1>23
     DEF RemovalNext, RemovalStep

\* A stray starts with the judgement of its session, and is marked with all others.
LEMMA StrayStep ==
  ASSUME RemovalTypeOK, ProcessesWaitedFor, JudgementHolds, StraysJudged,
         [RemovalNext]_removalVars
  PROVE  StraysJudged'
<1> USE DEF RemovalTypeOK, StraysJudged, Stray
<1>1. ASSUME NEW ended, AllMovedBut(ended) PROVE StraysJudged'
  BY <1>1 DEF AllMovedBut, MovedOn
<1>2. ASSUME NEW force, NEW ended, GitEnds(force, ended) PROVE StraysJudged'
  <2>1. CASE strays' = strays \ ended /\ UNCHANGED <<worktreeVars, moved>>
    BY <2>1 DEF worktreeVars
  <2>2. CASE AllMovedBut(ended)
    BY <1>1, <2>2
  <2> QED
    BY <1>2, <2>1, <2>2 DEF GitEnds
<1>3. ASSUME NEW s \in Sessions, Abort(s) PROVE StraysJudged'
  <2>1. ASSUME s \in removing PROVE moved[s] \/ (~used /\ head <= integrated /\ terminal)
    BY <2>1 DEF JudgementHolds
  <2>2. ASSUME NEW k \in strays' PROVE k \in strays \/ (s \in removing /\ k.moved = moved[s])
    BY <1>3, <2>2 DEF Abort
  <2>3. UNCHANGED <<used, head, integrated, terminal>>
    BY <1>3 DEF Abort, worktreeVars
  <2> QED
    BY <2>1, <2>2, <2>3
<1>4. CASE Work
  <2>1. AllMovedBut({})
    BY <1>4 DEF Work, AllMoved
  <2> QED
    BY <1>1, <2>1
<1>5. ASSUME NEW s \in Sessions, AddWorktree(s) \/ SetUp(s) \/ PreDeleteHooks(s) PROVE StraysJudged'
  <2>1. AllMovedBut({}) \/ UNCHANGED <<strays, used, head, integrated, terminal>>
    BY <1>5 DEF AddWorktree, SetUp, PreDeleteHooks, AllMoved
  <2> QED
    BY <1>1, <2>1
<1>6. ASSUME NEW s \in Sessions, DetachRemove(s) \/ GitRemove(s) PROVE StraysJudged'
  BY <1>2, <1>6 DEF DetachRemove, GitRemove
<1>7. ASSUME NEW k \in Stray, StrayEnds(k) PROVE StraysJudged'
  BY <1>2, <1>7 DEF StrayEnds
<1>8. ASSUME NEW s \in Sessions, RemovalStep(s),
             ~(AddWorktree(s) \/ SetUp(s) \/ PreDeleteHooks(s)), ~(DetachRemove(s) \/ GitRemove(s)),
             ~Abort(s)
      PROVE  UNCHANGED <<strays, used, head, integrated, terminal>>
  BY <1>8 DEF RemovalStep, Prune, BeginCreate, ReleaseCreateLock, BeginDetach, PreflightBranch,
       PlanDeletion, TakeLease, Census, Recensus, StartRemove, Confirm, SettleLease, Crash,
       worktreeVars
<1>9. CASE UNCHANGED removalVars
  BY <1>9 DEF removalVars, worktreeVars
<1> QED
  BY <1>3, <1>4, <1>5, <1>6, <1>7, <1>8, <1>9 DEF RemovalNext

\* The invariant the theorems rest on.
LEMMA RemovalInvariant == RemovalSpec => []RemovalInv
<1>1. RemovalInv /\ [RemovalNext]_removalVars => RemovalInv'
  BY RemovalTypeStep, ProcessStep, LeaseStep, JudgementStep, StrayStep DEF RemovalInv
<1> QED
  BY <1>1, InitIsRemovalInv, PTL DEF RemovalSpec

\* A worktree disappears in a detachment, in a git process of the executor or in a stray.
LEMMA WhoRemoves ==
  ASSUME RemovalTypeOK, RemovalNext, onDisk, ~onDisk'
  PROVE  \/ \E s \in removing : RemoveAllowed(plan[s].force)
         \/ \E k \in strays : RemoveAllowed(k.force)
         \/ edits = 0 /\ \E s \in Sessions : removalPc[s] = "detach"
<1>1. ASSUME NEW s \in Sessions, DetachRemove(s)
      PROVE  edits = 0 /\ removalPc[s] = "detach"
  BY <1>1 DEF DetachRemove, GitEnds, RemoveAllowed, Stage, worktreeVars
<1>2. ASSUME NEW s \in Sessions, GitRemove(s)
      PROVE  s \in removing /\ RemoveAllowed(plan[s].force)
  BY <1>2 DEF GitRemove, GitEnds, worktreeVars
<1>3. ASSUME NEW k \in Stray, StrayEnds(k) PROVE k \in strays /\ RemoveAllowed(k.force)
  BY <1>3 DEF StrayEnds, GitEnds, worktreeVars
<1>4. ~Work
  BY DEF Work
<1>5. ASSUME NEW s \in Sessions, RemovalStep(s)
      PROVE  DetachRemove(s) \/ GitRemove(s)
  BY <1>5 DEF RemovalStep, Prune, BeginCreate, AddWorktree, SetUp, ReleaseCreateLock, BeginDetach,
       PreflightBranch, PlanDeletion, TakeLease, Census, PreDeleteHooks, Recensus, StartRemove,
       Confirm, Abort, SettleLease, Crash, worktreeVars
<1> QED
  BY <1>1, <1>2, <1>3, <1>4, <1>5 DEF RemovalNext

\* The worktree tools keep their locks, plans and stages well formed.
THEOREM RemovalTyping == RemovalSpec => []RemovalTypeOK
BY RemovalInvariant, PTL DEF RemovalInv

\* A git worktree remove that its call waits for runs under the kernel lock of that call,
\* and the lock is never left to a session that does not settle it; what outlives its call
\* is a stray of an aborted operation.
THEOREM RemovalRunsUnderLease == RemovalSpec => []RemovalUnderLease
<1>1. RemovalInv => RemovalUnderLease
  BY DEF RemovalInv, RemovalTypeOK, ProcessesWaitedFor, LeaseGuards, RemovalUnderLease, Guarded
<1> QED
  BY <1>1, RemovalInvariant, PTL

\* Uncommitted work is destroyed only by a deletion approved with force, be it a stray.
THEOREM OnlyForceDestroysWork == RemovalSpec => UncommittedWorkKept
<1> DEFINE Kept == (onDisk /\ ~onDisk' /\ edits > 0) =>
      \/ \E s \in removing : plan[s].force
      \/ \E k \in strays : k.force
<1>1. RemovalInv /\ [RemovalNext]_removalVars => [Kept]_removalVars
  BY WhoRemoves DEF RemovalInv, RemovalTypeOK, RemoveAllowed
<1> QED
  BY <1>1, RemovalInvariant, PTL DEF RemovalSpec, UncommittedWorkKept

\* A worktree disappears as the judgement that its git process follows found it, but for
\* what others did since.
THEOREM OnlyJudgedAreRemoved == RemovalSpec => RemovedAsJudged
<1> DEFINE Judged == (onDisk /\ ~onDisk') =>
      \/ \E s \in removing : moved[s] \/ (~used /\ head <= integrated /\ terminal)
      \/ \E k \in strays : k.moved \/ (~used /\ head <= integrated /\ terminal)
      \/ \E s \in Sessions : removalPc[s] = "detach" /\ (moved[s] \/ ~used)
<1>1. RemovalInv /\ [RemovalNext]_removalVars => [Judged]_removalVars
  BY WhoRemoves DEF RemovalInv, RemovalTypeOK, JudgementHolds, StraysJudged
<1> QED
  BY <1>1, RemovalInvariant, PTL DEF RemovalSpec, RemovedAsJudged
=============================================================================
