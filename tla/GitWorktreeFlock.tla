-------------------------- MODULE GitWorktreeFlock --------------------------
(***************************************************************************)
(* The lock file that serialises the creation and the detachment of        *)
(* worktrees (utils/git-worktree-flock.ts, acquireGitWorktreeFlock and     *)
(* releaseGitWorktreeFlock).                                               *)
(*                                                                         *)
(* The file is created exclusively and its record written after it.  The   *)
(* lock of a dead process is reclaimed by renaming the file aside, reading *)
(* it again and comparing; what turns out to be another file is renamed    *)
(* back.  A record is identified by its owner token, one for each call, so *)
(* a file is its token; a file that is created and not written has none to *)
(* read.  Any of these file operations may fail in a process that lives on *)
(* and so leave a file behind that no call releases.                       *)
(***************************************************************************)
EXTENDS ToolSessions

CONSTANT MaxFlocks   \* bound on the calls of one session

ASSUME FlockBound == MaxFlocks \in Nat
ASSUME NoneIsNoToken == None \notin Sessions \X Nat

Tokens == Sessions \X (1 .. MaxFlocks)

FlockPlaces == {"out", "write", "in", "unlink", "read", "rename", "compare", "putback",
                "recreate"}

VARIABLES
  lockFile,   \* the file at lockPath: its token, or None
  written,    \* tokens whose record has been written to their file
  aside,      \* what a session has renamed to its reclaim path
  flockPc,    \* where a session is in acquire or release
  seen,       \* the token a session has read
  flocks,     \* calls a session has made
  gone,       \* tokens of processes that have died
  left,       \* history: tokens of calls whose write or release has failed
  misfired    \* history: a session renamed another file than it had read

flockVars == <<lockFile, written, aside, flockPc, seen, flocks, gone, left, misfired>>

FlockTypeOK ==
  /\ lockFile \in Tokens \cup {None}
  /\ written \subseteq Tokens
  /\ aside \in [Sessions -> Tokens \cup {None}]
  /\ flockPc \in [Sessions -> FlockPlaces]
  /\ \A s \in Sessions : aside[s] # None <=> flockPc[s] \in {"compare", "putback"}
  /\ seen \in [Sessions -> Tokens \cup {None}]
  /\ flocks \in [Sessions -> 0 .. MaxFlocks]
  /\ gone \subseteq Tokens
  /\ left \subseteq Tokens
  /\ misfired \in BOOLEAN

FlockInit ==
  /\ lockFile = None
  /\ written = {}
  /\ aside = [s \in Sessions |-> None]
  /\ flockPc = [s \in Sessions |-> "out"]
  /\ seen = [s \in Sessions |-> None]
  /\ flocks = [s \in Sessions |-> 0]
  /\ gone = {}
  /\ left = {}
  /\ misfired = FALSE

\* The owner token of the current call of s.
Token(s) == <<s, flocks[s]>>
OwnerGone(t) == t \in gone
At(s, place) == flockPc[s] = place
FlockGoto(s, place) == flockPc' = [flockPc EXCEPT ![s] = place]

-----------------------------------------------------------------------------
\* open(lockPath, "wx") with a fresh token; it fails on a file that exists, or for
\* another reason.
TryLock(s) ==
  /\ At(s, "out") /\ flocks[s] < MaxFlocks
  /\ flocks' = [flocks EXCEPT ![s] = @ + 1]
  /\ seen' = [seen EXCEPT ![s] = None]
  /\ \/ lockFile = None /\ lockFile' = <<s, flocks'[s]>> /\ FlockGoto(s, "write")
     \/ UNCHANGED lockFile /\ FlockGoto(s, "read")
  /\ UNCHANGED <<written, aside, gone, left, misfired>>

\* handle.writeFile: the record goes to the file that was opened, wherever it is now.
WriteRecord(s) ==
  /\ At(s, "write")
  /\ written' = written \cup {Token(s)}
  /\ FlockGoto(s, "in")
  /\ UNCHANGED <<lockFile, aside, seen, flocks, gone, left, misfired>>

\* handle.writeFile or handle.close throws: the file stays, with its record or without.
\* The first create goes on to read what is there, the second one gives up.
WriteFails(s) ==
  /\ At(s, "write")
  /\ written' \in {written, written \cup {Token(s)}}
  /\ left' = left \cup {Token(s)}
  /\ FlockGoto(s, IF seen[s] = None THEN "read" ELSE "out")
  /\ UNCHANGED <<lockFile, aside, seen, flocks, gone, misfired>>

\* Bug: a lock that cannot be probed is reclaimed as well.
ReadExistingUnprobed(s) ==
  /\ At(s, "read")
  /\ IF lockFile \in written
     THEN seen' = [seen EXCEPT ![s] = lockFile] /\ FlockGoto(s, "rename")
     ELSE UNCHANGED seen /\ FlockGoto(s, "out")
  /\ UNCHANGED <<lockFile, written, aside, flocks, gone, left, misfired>>

\* The existing record is read and its process probed; a missing or unwritten file, or
\* a live owner, is contention.
ReadExisting(s) ==
  /\ At(s, "read")
  /\ IF lockFile \in written /\ OwnerGone(lockFile)
     THEN seen' = [seen EXCEPT ![s] = lockFile] /\ FlockGoto(s, "rename")
     ELSE UNCHANGED seen /\ FlockGoto(s, "out")
  /\ UNCHANGED <<lockFile, written, aside, flocks, gone, left, misfired>>

\* Bug: a rename that finds no file goes unnoticed.
RenameAsideUnchecked(s) ==
  /\ At(s, "rename")
  /\ aside' = [aside EXCEPT ![s] = lockFile]
  /\ lockFile' = None
  /\ misfired' = (misfired \/ lockFile \notin {None, seen[s]})
  /\ FlockGoto(s, "compare")
  /\ UNCHANGED <<written, seen, flocks, gone, left>>

\* rename(lockPath, reclaimPath) moves whatever is there.
RenameAside(s) ==
  /\ At(s, "rename")
  /\ aside' = [aside EXCEPT ![s] = lockFile]
  /\ lockFile' = None
  /\ misfired' = (misfired \/ lockFile \notin {None, seen[s]})
  /\ FlockGoto(s, IF lockFile = None THEN "out" ELSE "compare")
  /\ UNCHANGED <<written, seen, flocks, gone, left>>

\* The renamed file is read again: the one seen before is removed, an unreadable one
\* is removed by the handler of the exception, another one goes back.
Compare(s) ==
  /\ At(s, "compare")
  /\ IF aside[s] \in written /\ aside[s] # seen[s]
     THEN UNCHANGED aside /\ FlockGoto(s, "putback")
     ELSE /\ aside' = [aside EXCEPT ![s] = None]
          /\ FlockGoto(s, IF aside[s] \in written THEN "recreate" ELSE "out")
  /\ UNCHANGED <<lockFile, written, seen, flocks, gone, left, misfired>>

\* rename(reclaimPath, lockPath) replaces what may have been created meanwhile.
PutBack(s) ==
  /\ At(s, "putback")
  /\ lockFile' = aside[s]
  /\ aside' = [aside EXCEPT ![s] = None]
  /\ FlockGoto(s, "out")
  /\ UNCHANGED <<written, seen, flocks, gone, left, misfired>>

\* Bug: the second create is not exclusive.
RecreateOverwrites(s) ==
  /\ At(s, "recreate")
  /\ lockFile' = Token(s) /\ FlockGoto(s, "write")
  /\ UNCHANGED <<written, aside, seen, flocks, gone, left, misfired>>

\* The second exclusive create.
Recreate(s) ==
  /\ At(s, "recreate")
  /\ IF lockFile = None
     THEN lockFile' = Token(s) /\ FlockGoto(s, "write")
     ELSE UNCHANGED lockFile /\ FlockGoto(s, "out")
  /\ UNCHANGED <<written, aside, seen, flocks, gone, left, misfired>>

\* A read, a rename or the create of the reclaim throws: contention is reported, and
\* what was moved aside is removed or stays at a path nobody looks at.
ReclaimFails(s) ==
  /\ flockPc[s] \in {"read", "rename", "compare", "putback", "recreate"}
  /\ aside' = [aside EXCEPT ![s] = None]
  /\ FlockGoto(s, "out")
  /\ UNCHANGED <<lockFile, written, seen, flocks, gone, left, misfired>>

\* releaseGitWorktreeFlock reads the token ...
Unlock(s) ==
  /\ At(s, "in")
  /\ FlockGoto(s, IF lockFile = Token(s) THEN "unlink" ELSE "out")
  /\ UNCHANGED <<lockFile, written, aside, seen, flocks, gone, left, misfired>>

\* ... and removes the file at the path.
Unlink(s) ==
  /\ At(s, "unlink")
  /\ lockFile' = None
  /\ FlockGoto(s, "out")
  /\ UNCHANGED <<written, aside, seen, flocks, gone, left, misfired>>

\* ... and swallows the error of either operation.
ReleaseFails(s) ==
  /\ flockPc[s] \in {"in", "unlink"}
  /\ left' = left \cup {Token(s)}
  /\ FlockGoto(s, "out")
  /\ UNCHANGED <<lockFile, written, aside, seen, flocks, gone, misfired>>

\* The process dies, between any two steps, and the session goes on in another one.
ProcessDies(s) ==
  /\ flockPc[s] # "out"
  /\ gone' = gone \cup {t \in Tokens : t[1] = s /\ t[2] <= flocks[s]}
  /\ aside' = [aside EXCEPT ![s] = None]
  /\ FlockGoto(s, "out")
  /\ UNCHANGED <<lockFile, written, seen, flocks, left, misfired>>

FlockStep(s) ==
  \/ TryLock(s) \/ WriteRecord(s) \/ WriteFails(s) \/ ReadExisting(s) \/ RenameAside(s)
  \/ Compare(s) \/ PutBack(s) \/ Recreate(s) \/ ReclaimFails(s)
  \/ Unlock(s) \/ Unlink(s) \/ ReleaseFails(s) \/ ProcessDies(s)

FlockNext == \E s \in Sessions : FlockStep(s)

FlockSpec == FlockInit /\ [][FlockNext]_flockVars

-----------------------------------------------------------------------------
\* Sessions that own the lock: from their exclusive create to their unlink.
Owning(s) == flockPc[s] \in {"write", "in", "unlink"}

\* At most one living session owns the lock, and it owns the file at the path, until
\* somebody renames a file it has not read: the comparison after the rename comes
\* too late for the file it has moved (acquireGitWorktreeFlock).
FlockExclusive ==
  misfired \/ \A s, t \in Sessions : Owning(s) => /\ lockFile = Token(s)
                                                  /\ Owning(t) => s = t

\* Comparison takes over the lock of a dead process only: a session that goes on to
\* create its own file has seen the record of a process that is gone, even when
\* renames have misfired.  Until one has, what is moved aside is the file of a dead
\* process as well, and a file at the path whose process lives is owned, or was left
\* there by a call that failed to write its record or to release it
\* (acquireGitWorktreeFlock, releaseGitWorktreeFlock).
FlockReclaimsDead ==
  /\ \A s \in Sessions : flockPc[s] = "recreate" => OwnerGone(seen[s])
  /\ misfired \/ /\ \A s \in Sessions : aside[s] # None => OwnerGone(aside[s])
                 /\ (lockFile # None /\ ~OwnerGone(lockFile)) =>
                      Owning(lockFile[1]) \/ lockFile \in left
=============================================================================
