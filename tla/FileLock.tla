------------------------------ MODULE FileLock ------------------------------
(***************************************************************************)
(* acquireFileLock of utils/fs.ts: the advisory lock file that serialises  *)
(* every writer of the project store, across asynchronous calls of one     *)
(* process and across processes.                                           *)
(*                                                                         *)
(* Every file-system call is a step of its own.  writeFile(.., "wx") is    *)
(* two of them: the exclusive open creates an EMPTY file (TryCreate), and  *)
(* the pid and the timestamp reach it later (Stamp).  A process may die    *)
(* between any two steps.                                                  *)
(***************************************************************************)
EXTENDS Naturals, FiniteSets

CONSTANTS Callers,      \* concurrent calls of acquireFileLock on one path
          Pids,         \* the processes they run in
          PidOf,        \* the process of each caller
          UserOf,       \* the user each process runs as
          MortalPids,   \* the processes that may die
          MaxAttempts,  \* attempts that fit the longest timeoutMs
          None          \* no caller

ASSUME CallersAssumption == /\ None \notin Callers
                            /\ PidOf \in [Callers -> Pids]
                            /\ MortalPids \subseteq Pids
                            /\ DOMAIN UserOf = Pids
ASSUME MaxAttemptsAssumption == MaxAttempts \in Nat \ {0}

\* All the processes run as one user, so that a signal-0 probe fails only on
\* a process that is gone.
OneUser == \A p, q \in Pids : UserOf[p] = UserOf[q]

VARIABLES
  lockOwner,    \* who created the lock file now at the path; None: no file
  lockStamped,  \* the file holds its pid and timestamp (it is created empty)
  lockAged,     \* the timestamp is more than STALE_LOCK_MS old
  pc,           \* where each caller is
  seen,         \* the creator of the stale lock file a caller has read
  attempts,     \* attempts made by the current call
  alive,        \* the processes that run
  misfired      \* ghost: a reclaim unlinked a file other than the one it read

vars == <<lockOwner, lockStamped, lockAged, pc, seen, attempts, alive, misfired>>

\* Where no call of acquireFileLock is in progress and no lock is held.
Resting == {"idle", "timedout", "failed"}
Acquiring == {"try", "stamp", "inspect", "probe", "remove", "miss"}

TypeOK == /\ lockOwner \in Callers \cup {None}
          /\ lockStamped \in BOOLEAN
          /\ lockAged \in BOOLEAN
          /\ pc \in [Callers -> Resting \cup Acquiring \cup {"held"}]
          /\ seen \in [Callers -> Callers \cup {None}]
          /\ attempts \in [Callers -> 0 .. MaxAttempts]
          /\ alive \in SUBSET Pids
          /\ misfired \in BOOLEAN

Live(c) == PidOf[c] \in alive

\* The callers that believe the lock is theirs: the exclusive create has
\* succeeded and the release has not run.
Inside == {c \in Callers : Live(c) /\ pc[c] \in {"stamp", "held"}}

Init == /\ lockOwner = None
        /\ lockStamped = FALSE
        /\ lockAged = FALSE
        /\ pc = [c \in Callers |-> "idle"]
        /\ seen = [c \in Callers |-> None]
        /\ attempts = [c \in Callers |-> 0]
        /\ alive = Pids
        /\ misfired = FALSE

-----------------------------------------------------------------------------
Goto(c, label) == pc' = [pc EXCEPT ![c] = label]

\* unlink(lockPath): whatever file is at the path goes, whoever created it.
Unlink == /\ lockOwner' = None
          /\ lockStamped' = FALSE
          /\ lockAged' = FALSE

\* acquireFileLock is called: boundedRetry makes its first attempt at once.
Begin(c) == /\ Live(c)
            /\ pc[c] \in Resting
            /\ Goto(c, "try")
            /\ attempts' = [attempts EXCEPT ![c] = 1]
            /\ UNCHANGED <<lockOwner, lockStamped, lockAged, seen, alive, misfired>>

\* Bug: flag "w" for "wx".
CreateWithoutExclusion(c) ==
  /\ Live(c)
  /\ pc[c] = "try"
  /\ lockOwner' = c
  /\ lockStamped' = FALSE
  /\ lockAged' = FALSE
  /\ Goto(c, "stamp")
  /\ UNCHANGED <<seen, attempts, alive, misfired>>

\* The exclusive open creates the file, still empty.
TryCreate(c) == /\ Live(c)
                /\ pc[c] = "try"
                /\ lockOwner = None
                /\ lockOwner' = c
                /\ lockStamped' = FALSE
                /\ lockAged' = FALSE
                /\ Goto(c, "stamp")
                /\ UNCHANGED <<seen, attempts, alive, misfired>>

\* EEXIST: look at the lock that is there.
Occupied(c) == /\ Live(c)
               /\ pc[c] = "try"
               /\ lockOwner # None
               /\ Goto(c, "inspect")
               /\ UNCHANGED <<lockOwner, lockStamped, lockAged, seen, attempts,
                              alive, misfired>>

\* Any other error of the open is thrown at the caller.
OpenFails(c) == /\ Live(c)
                /\ pc[c] = "try"
                /\ Goto(c, "failed")
                /\ UNCHANGED <<lockOwner, lockStamped, lockAged, seen, attempts,
                               alive, misfired>>

\* pid and timestamp are written to the file that was opened; if it has been
\* unlinked meanwhile they land in a file no path leads to.
Stamp(c) == /\ Live(c)
            /\ pc[c] = "stamp"
            /\ lockStamped' = (lockStamped \/ lockOwner = c)
            /\ Goto(c, "held")
            /\ UNCHANGED <<lockOwner, lockAged, seen, attempts, alive, misfired>>

\* The write fails (a full disk): the error is thrown and the empty file stays.
StampFails(c) == /\ Live(c)
                 /\ pc[c] = "stamp"
                 /\ Goto(c, "failed")
                 /\ UNCHANGED <<lockOwner, lockStamped, lockAged, seen, attempts,
                                alive, misfired>>

\* readFile: no file, an empty file (its timestamp is NaN) and a young lock
\* are misses; an old lock has its process probed.
Stale == lockOwner # None /\ lockStamped /\ lockAged

\* Bug: the age alone condemns a lock.
InspectWithoutProbe(c) ==
  /\ Live(c)
  /\ pc[c] = "inspect"
  /\ seen' = [seen EXCEPT ![c] = IF Stale THEN lockOwner ELSE None]
  /\ Goto(c, IF Stale THEN "remove" ELSE "miss")
  /\ UNCHANGED <<lockOwner, lockStamped, lockAged, attempts, alive, misfired>>

Inspect(c) ==
  /\ Live(c)
  /\ pc[c] = "inspect"
  /\ seen' = [seen EXCEPT ![c] = IF Stale THEN lockOwner ELSE None]
  /\ Goto(c, IF Stale THEN "probe" ELSE "miss")
  /\ UNCHANGED <<lockOwner, lockStamped, lockAged, attempts, alive, misfired>>

\* process.kill(pid, 0) throws: there is no such process (ESRCH), or it is
\* another user's (EPERM).  The code takes either for a dead process.
\* Bug: a signal that is delivered is taken for an error.
ProbeThrowsAlways(c) == TRUE

ProbeThrows(c) == \/ ~Live(seen[c])
                  \/ UserOf[PidOf[seen[c]]] # UserOf[PidOf[c]]

Probe(c) == /\ Live(c)
            /\ pc[c] = "probe"
            /\ Goto(c, IF ProbeThrows(c) THEN "remove" ELSE "miss")
            /\ UNCHANGED <<lockOwner, lockStamped, lockAged, seen, attempts,
                           alive, misfired>>

\* The stale lock is unlinked by its path, without looking at it again.
RemoveStale(c) == /\ Live(c)
                  /\ pc[c] = "remove"
                  /\ misfired' = (misfired \/ lockOwner \notin {None, seen[c]})
                  /\ Unlink
                  /\ Goto(c, "miss")
                  /\ UNCHANGED <<seen, attempts, alive>>

\* Bug: the attempts are not charged to the budget.
RetryUncharged(c) == /\ Live(c)
                     /\ pc[c] = "miss"
                     /\ seen' = [seen EXCEPT ![c] = None]
                     /\ Goto(c, "try")
                     /\ UNCHANGED <<lockOwner, lockStamped, lockAged, attempts,
                                    alive, misfired>>

\* Bug: the budget is never looked at.
RetryUnbounded(c) == /\ Live(c)
                     /\ pc[c] = "miss"
                     /\ attempts' = [attempts EXCEPT ![c] = @ + 1]
                     /\ seen' = [seen EXCEPT ![c] = None]
                     /\ Goto(c, "try")
                     /\ UNCHANGED <<lockOwner, lockStamped, lockAged, alive,
                                    misfired>>

\* After a miss: back off and try again while the budget lasts...
Retry(c) == /\ Live(c)
            /\ pc[c] = "miss"
            /\ attempts[c] < MaxAttempts
            /\ attempts' = [attempts EXCEPT ![c] = @ + 1]
            /\ seen' = [seen EXCEPT ![c] = None]
            /\ Goto(c, "try")
            /\ UNCHANGED <<lockOwner, lockStamped, lockAged, alive, misfired>>

\* ... and throw "Failed to acquire lock" once it is spent.
GiveUp(c) == /\ Live(c)
             /\ pc[c] = "miss"
             /\ seen' = [seen EXCEPT ![c] = None]
             /\ Goto(c, "timedout")
             /\ UNCHANGED <<lockOwner, lockStamped, lockAged, attempts, alive,
                            misfired>>

\* The function acquireFileLock returned: unlink by path, errors ignored.
Release(c) == /\ Live(c)
              /\ pc[c] = "held"
              /\ Unlink
              /\ Goto(c, "idle")
              /\ UNCHANGED <<seen, attempts, alive, misfired>>

-----------------------------------------------------------------------------
\* STALE_LOCK_MS pass.  The timestamp is taken before the open, so the age of
\* a file and that of its stamp are the same.
Age == /\ lockOwner # None
       /\ ~lockAged
       /\ lockAged' = TRUE
       /\ UNCHANGED <<lockOwner, lockStamped, pc, seen, attempts, alive, misfired>>

\* A process dies with all its callers; what they left on the disk stays.
Die(p) == /\ p \in MortalPids \cap alive
          /\ alive' = alive \ {p}
          /\ UNCHANGED <<lockOwner, lockStamped, lockAged, pc, seen, attempts,
                         misfired>>

\* The steps of one call of acquireFileLock, which nothing can block.
AcquireStep(c) == \/ TryCreate(c) \/ Occupied(c) \/ OpenFails(c)
                  \/ Stamp(c) \/ StampFails(c)
                  \/ Inspect(c) \/ Probe(c) \/ RemoveStale(c)
                  \/ Retry(c) \/ GiveUp(c)

Next == \/ \E c \in Callers : Begin(c) \/ AcquireStep(c) \/ Release(c)
        \/ Age
        \/ \E p \in Pids : Die(p)

Spec == Init /\ [][Next]_vars

\* The event loop runs every pending continuation of a live process.
FairSpec == Spec /\ \A c \in Callers : WF_vars(AcquireStep(c))

-----------------------------------------------------------------------------
\* A caller that is inside owns the file at the path, so the file really keeps
\* everybody else out; until a reclaim has unlinked a file it had not read.
OwnsItsFile == misfired \/ \A c \in Inside : lockOwner = c

\* Mutual exclusion, whoever dies and whenever: two callers are inside only
\* after a misfired reclaim.  (RemoveStale unlinks what is at the path NOW,
\* Inspect read what was there before.)
ExclusiveUnlessMisfired == misfired \/ \A c, d \in Inside : c = d

\* No lock file is reclaimed on its age alone: when a caller is about to
\* unlink, the process whose lock it has read is gone.
ReclaimOnlyDead == \A c \in Callers : pc[c] = "remove" => ~Live(seen[c])

\* Mutual exclusion without the exception, as the writers of the store take
\* it for granted.
MutualExclusion == \A c, d \in Inside : c = d

\* "Stale locks (>30s) are automatically removed on the next acquire
\* attempt": an attempt that looks at the old lock of a dead process does not
\* end in a miss with the lock still there to be looked at again.
StaleLockRemoved ==
  [][\A c \in Callers :
       /\ pc[c] = "inspect" /\ lockOwner # None /\ lockAged /\ ~Live(lockOwner)
       => pc'[c] # "miss"]_vars

\* The wait is bounded: a call returns or throws, unless its process dies.
AcquireReturns ==
  \A c \in Callers :
    pc[c] = "try" ~> (pc[c] \in Resting \cup {"held"} \/ ~Live(c))

\* The lock file implements the service its callers rely on.
Service == INSTANCE LockService WITH holders <- Inside, compromised <- misfired
ImplementsLockService == Service!Spec
=============================================================================
