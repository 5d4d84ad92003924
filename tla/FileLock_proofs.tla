--------------------------- MODULE FileLock_proofs ---------------------------
(***************************************************************************)
(* FileLock for every set of callers and processes and every budget: the   *)
(* lock is exclusive until a reclaim unlinks a file it had not read, it is *)
(* exclusive for ever if no process dies, only locks of dead processes are *)
(* reclaimed, and the lock file implements LockService.                    *)
(***************************************************************************)
EXTENDS FileLock, TLAPS

\* acquireFileLock keeps its state well formed: attempts never exceed the
\* budget.
THEOREM Typing == Spec => []TypeOK
<1> USE CallersAssumption, MaxAttemptsAssumption
<1>1. Init => TypeOK
  <2> SUFFICES ASSUME Init PROVE TypeOK
    OBVIOUS
  <2> USE DEF Init
  <2>1. pc \in [Callers -> Resting \cup Acquiring \cup {"held"}]
    BY DEF Resting
  <2>2. seen \in [Callers -> Callers \cup {None}]
    OBVIOUS
  <2>3. attempts \in [Callers -> 0 .. MaxAttempts]
    BY 0 \in 0 .. MaxAttempts
  <2> QED
    BY <2>1, <2>2, <2>3 DEF TypeOK
<1>2. TypeOK /\ [Next]_vars => TypeOK'
  <2> SUFFICES ASSUME TypeOK, [Next]_vars PROVE TypeOK'
    OBVIOUS
  <2> USE DEF TypeOK, Resting, Acquiring, Goto
  <2>1. ASSUME NEW c \in Callers, Begin(c) PROVE TypeOK'
    BY <2>1 DEF Begin
  <2>2. ASSUME NEW c \in Callers, TryCreate(c) PROVE TypeOK'
    BY <2>2 DEF TryCreate
  <2>3. ASSUME NEW c \in Callers, Occupied(c) PROVE TypeOK'
    BY <2>3 DEF Occupied
  <2>4. ASSUME NEW c \in Callers, OpenFails(c) PROVE TypeOK'
    BY <2>4 DEF OpenFails
  <2>5. ASSUME NEW c \in Callers, Stamp(c) PROVE TypeOK'
    BY <2>5 DEF Stamp
  <2>6. ASSUME NEW c \in Callers, StampFails(c) PROVE TypeOK'
    BY <2>6 DEF StampFails
  <2>7. ASSUME NEW c \in Callers, Inspect(c) PROVE TypeOK'
    BY <2>7 DEF Inspect
  <2>8. ASSUME NEW c \in Callers, Probe(c) PROVE TypeOK'
    BY <2>8 DEF Probe
  <2>9. ASSUME NEW c \in Callers, RemoveStale(c) PROVE TypeOK'
    BY <2>9 DEF RemoveStale, Unlink
  <2>10. ASSUME NEW c \in Callers, Retry(c) PROVE TypeOK'
    BY <2>10 DEF Retry
  <2>11. ASSUME NEW c \in Callers, GiveUp(c) PROVE TypeOK'
    BY <2>11 DEF GiveUp
  <2>12. ASSUME NEW c \in Callers, Release(c) PROVE TypeOK'
    BY <2>12 DEF Release, Unlink
  <2>13. ASSUME Age PROVE TypeOK'
    BY <2>13 DEF Age
  <2>14. ASSUME NEW p \in Pids, Die(p) PROVE TypeOK'
    BY <2>14 DEF Die
  <2>15. ASSUME UNCHANGED vars PROVE TypeOK'
    BY <2>15 DEF vars
  <2> QED
    BY <2>1, <2>2, <2>3, <2>4, <2>5, <2>6, <2>7, <2>8, <2>9, <2>10, <2>11,
       <2>12, <2>13, <2>14, <2>15 DEF Next, AcquireStep
<1> QED
  BY <1>1, <1>2, PTL DEF Spec

-----------------------------------------------------------------------------
(***************************************************************************)
(* The inductive invariant.  ReclaimOnlyDead is what makes a removal       *)
(* harmless: the lock it was judged by belonged to a dead caller, so if it *)
(* is still that lock nobody inside loses it, and if it is another one the *)
(* reclaim has misfired.                                                   *)
(***************************************************************************)
JudgesALock == \A c \in Callers : pc[c] \in {"probe", "remove"} => seen[c] \in Callers

IInv == TypeOK /\ JudgesALock /\ ReclaimOnlyDead /\ OwnsItsFile

\* Nobody has tried the lock yet.
LEMMA InitInvariant == Init /\ TypeOK => IInv
  BY DEF Init, IInv, JudgesALock, ReclaimOnlyDead, OwnsItsFile, Inside

\* No step of a caller, and no death of a process, breaks it.
LEMMA StepInvariant == OneUser /\ IInv /\ TypeOK' /\ [Next]_vars => IInv'
<1> SUFFICES ASSUME OneUser, IInv, TypeOK', [Next]_vars
             PROVE JudgesALock' /\ ReclaimOnlyDead' /\ OwnsItsFile'
  BY DEF IInv
<1> USE CallersAssumption DEF IInv
<1> DEFINE Goal == JudgesALock' /\ ReclaimOnlyDead' /\ OwnsItsFile'
<1> USE DEF TypeOK, JudgesALock, ReclaimOnlyDead, OwnsItsFile, Inside, Live, Goto
<1>1. ASSUME NEW c \in Callers, Begin(c) PROVE Goal
  BY <1>1 DEF Begin, Resting
<1>2. ASSUME NEW c \in Callers, TryCreate(c) PROVE Goal
  BY <1>2 DEF TryCreate
<1>3. ASSUME NEW c \in Callers, Occupied(c) PROVE Goal
  BY <1>3 DEF Occupied
<1>4. ASSUME NEW c \in Callers, OpenFails(c) PROVE Goal
  BY <1>4 DEF OpenFails
<1>5. ASSUME NEW c \in Callers, Stamp(c) PROVE Goal
  BY <1>5 DEF Stamp
<1>6. ASSUME NEW c \in Callers, StampFails(c) PROVE Goal
  BY <1>6 DEF StampFails
<1>7. ASSUME NEW c \in Callers, Inspect(c) PROVE Goal
  BY <1>7 DEF Inspect, Stale
<1>8. ASSUME NEW c \in Callers, Probe(c) PROVE Goal
  <2>1. ProbeThrows(c) => ~Live(seen[c])
    BY <1>8 DEF Probe, ProbeThrows, OneUser
  <2> QED
    BY <1>8, <2>1 DEF Probe
<1>9. ASSUME NEW c \in Callers, RemoveStale(c) PROVE Goal
  <2>1. ASSUME NEW d \in Inside, ~misfired' PROVE FALSE
    <3>1. lockOwner = d /\ lockOwner \in {None, seen[c]}
      BY <1>9, <2>1 DEF RemoveStale
    <3>2. d # seen[c]
      BY <1>9, <2>1 DEF RemoveStale
    <3> QED
      BY <2>1, <3>1, <3>2
  <2>2. Inside' = Inside
    BY <1>9 DEF RemoveStale
  <2>3. OwnsItsFile'
    BY <1>9, <2>1, <2>2
  <2> QED
    BY <1>9, <2>3 DEF RemoveStale
<1>10. ASSUME NEW c \in Callers, Retry(c) PROVE Goal
  BY <1>10 DEF Retry
<1>11. ASSUME NEW c \in Callers, GiveUp(c) PROVE Goal
  BY <1>11 DEF GiveUp
<1>12. ASSUME NEW c \in Callers, Release(c) PROVE Goal
  <2>1. OwnsItsFile'
    BY <1>12 DEF Release
  <2> QED
    BY <1>12, <2>1 DEF Release
<1>13. ASSUME Age PROVE Goal
  BY <1>13 DEF Age
<1>14. ASSUME NEW p \in Pids, Die(p) PROVE Goal
  BY <1>14 DEF Die
<1>15. ASSUME UNCHANGED vars PROVE Goal
  BY <1>15 DEF vars
<1> QED
  BY <1>1, <1>2, <1>3, <1>4, <1>5, <1>6, <1>7, <1>8, <1>9, <1>10, <1>11,
     <1>12, <1>13, <1>14, <1>15 DEF Next, AcquireStep

\* The inductive invariant holds throughout, when one user runs the sessions.
THEOREM Invariant == OneUser => (Spec => []IInv)
<1> SUFFICES ASSUME OneUser PROVE Spec => []IInv
  OBVIOUS
<1>1. IInv /\ TypeOK' /\ [Next]_vars => IInv'
  BY StepInvariant
<1> QED
  BY <1>1, InitInvariant, Typing, PTL DEF Spec

\* acquireFileLock excludes: two callers are inside only after a reclaim has
\* unlinked another file than the one it had read.
THEOREM Exclusion == OneUser => (Spec => []ExclusiveUnlessMisfired)
<1> SUFFICES ASSUME OneUser PROVE Spec => []ExclusiveUnlessMisfired
  OBVIOUS
<1>1. IInv => ExclusiveUnlessMisfired
  BY DEF IInv, OwnsItsFile, ExclusiveUnlessMisfired
<1> QED
  BY <1>1, Invariant, PTL

\* acquireFileLock reclaims only locks whose process is gone.
THEOREM ReclaimsOnlyDead == OneUser => (Spec => []ReclaimOnlyDead)
<1> SUFFICES ASSUME OneUser PROVE Spec => []ReclaimOnlyDead
  OBVIOUS
<1>1. IInv => ReclaimOnlyDead
  BY DEF IInv
<1> QED
  BY <1>1, Invariant, PTL

-----------------------------------------------------------------------------
NobodyDied == alive = Pids /\ ~misfired

\* While every process lives no reclaim happens at all, and the lock excludes
\* without exception.
THEOREM ExclusionWithoutCrashes ==
  OneUser /\ MortalPids = {} => (Spec => []MutualExclusion)
<1> SUFFICES ASSUME OneUser, MortalPids = {} PROVE Spec => []MutualExclusion
  OBVIOUS
<1>1. Init => NobodyDied
  BY DEF Init, NobodyDied
<1>2. IInv /\ NobodyDied /\ [Next]_vars => NobodyDied'
  <2> SUFFICES ASSUME IInv, NobodyDied, [Next]_vars PROVE NobodyDied'
    OBVIOUS
  <2> USE DEF NobodyDied
  <2>1. ASSUME NEW c \in Callers, RemoveStale(c) PROVE FALSE
    <3>1. seen[c] \in Callers /\ PidOf[seen[c]] \notin Pids
      BY <2>1 DEF RemoveStale, IInv, JudgesALock, ReclaimOnlyDead, Live
    <3> QED
      BY <3>1, CallersAssumption
  <2>2. ASSUME NEW p \in Pids, Die(p) PROVE FALSE
    BY <2>2 DEF Die
  <2> QED
    BY <2>1, <2>2 DEF Next, AcquireStep, Begin, TryCreate, Occupied, OpenFails,
       Stamp, StampFails, Inspect, Probe, Retry, GiveUp, Release, Age, vars
<1>3. IInv /\ NobodyDied => MutualExclusion
  BY DEF IInv, OwnsItsFile, NobodyDied, MutualExclusion
<1> QED
  BY <1>1, <1>2, <1>3, Invariant, PTL DEF Spec

-----------------------------------------------------------------------------
\* A created lock file is an entry of the service, an unlinked one a leave.
LEMMA StepImplementsService ==
  IInv /\ TypeOK' /\ [Next]_vars => [Service!Next]_(Service!vars)
<1> SUFFICES ASSUME IInv, TypeOK', [Next]_vars
             PROVE Service!Next \/ UNCHANGED <<Inside, misfired>>
  BY DEF Service!vars
<1> USE CallersAssumption DEF IInv
<1> DEFINE Goal == Service!Next \/ UNCHANGED <<Inside, misfired>>
           Stutter == UNCHANGED <<Inside, misfired>>
<1> USE DEF TypeOK, Inside, Live, Goto
<1>1. ASSUME NEW c \in Callers, Begin(c) PROVE Stutter
  BY <1>1 DEF Begin, Resting
<1>2. ASSUME NEW c \in Callers, TryCreate(c) PROVE Service!Enter(c)
  <2>1. c \notin Inside
    BY <1>2 DEF TryCreate
  <2>2. Inside = {} \/ misfired
    BY <1>2 DEF TryCreate, OwnsItsFile
  <2>3. Inside' = Inside \cup {c} /\ misfired' = misfired
    BY <1>2 DEF TryCreate
  <2> QED
    BY <2>1, <2>2, <2>3 DEF Service!Enter
<1>3. ASSUME NEW c \in Callers, Occupied(c) PROVE Stutter
  BY <1>3 DEF Occupied
<1>4. ASSUME NEW c \in Callers, OpenFails(c) PROVE Stutter
  BY <1>4 DEF OpenFails
<1>5. ASSUME NEW c \in Callers, Stamp(c) PROVE Stutter
  BY <1>5 DEF Stamp
<1>6. ASSUME NEW c \in Callers, StampFails(c) \/ Release(c) PROVE Service!Leave({c})
  <2>1. c \in Inside
    BY <1>6 DEF StampFails, Release
  <2>2. Inside' = Inside \ {c} /\ misfired' = misfired
    BY <1>6 DEF StampFails, Release
  <2> QED
    BY <2>1, <2>2 DEF Service!Leave
<1>7. ASSUME NEW c \in Callers, Inspect(c) PROVE Stutter
  BY <1>7 DEF Inspect, Stale
<1>8. ASSUME NEW c \in Callers, Probe(c) PROVE Stutter
  BY <1>8 DEF Probe
<1>9. ASSUME NEW c \in Callers, RemoveStale(c) PROVE Goal
  <2>1. Inside' = Inside
    BY <1>9 DEF RemoveStale
  <2>2. misfired' = misfired \/ misfired' = TRUE
    BY <1>9 DEF RemoveStale
  <2> QED
    BY <2>1, <2>2 DEF Service!Next, Service!Compromise
<1>10. ASSUME NEW c \in Callers, Retry(c) PROVE Stutter
  BY <1>10 DEF Retry
<1>11. ASSUME NEW c \in Callers, GiveUp(c) PROVE Stutter
  BY <1>11 DEF GiveUp
<1>12. ASSUME Age PROVE Stutter
  BY <1>12 DEF Age
<1>13. ASSUME NEW p \in Pids, Die(p) PROVE Goal
  <2> DEFINE Dead == {c \in Inside : PidOf[c] = p}
  <2>1. Inside' = Inside \ Dead /\ misfired' = misfired
    BY <1>13 DEF Die
  <2>2. CASE Dead = {}
    BY <2>1, <2>2
  <2>3. CASE Dead # {}
    <3>1. Service!Leave(Dead)
      BY <2>1, <2>3 DEF Service!Leave
    <3>2. Dead \in SUBSET Callers
      OBVIOUS
    <3> HIDE DEF Dead, Inside, Live, TypeOK, IInv
    <3> QED
      BY <3>1, <3>2 DEF Service!Next
  <2> QED
    BY <2>2, <2>3
<1>14. ASSUME UNCHANGED vars PROVE Stutter
  BY <1>14 DEF vars
<1> HIDE DEF TypeOK, Inside, Live, Goto, IInv
<1>15. ASSUME NEW c \in Callers, Service!Enter(c) \/ Service!Leave({c}) PROVE Goal
  BY <1>15 DEF Service!Next
<1> QED
  BY <1>1, <1>2, <1>3, <1>4, <1>5, <1>6, <1>7, <1>8, <1>9, <1>10, <1>11,
     <1>12, <1>13, <1>14, <1>15 DEF Next, AcquireStep

\* The lock file implements the service its callers rely on.
THEOREM Refinement == OneUser => (Spec => ImplementsLockService)
<1> SUFFICES ASSUME OneUser PROVE Spec => ImplementsLockService
  OBVIOUS
<1>1. Init => Service!Init
  BY DEF Init, Service!Init, Inside
<1>2. IInv => TypeOK
  BY DEF IInv
<1> QED
  BY <1>1, <1>2, StepImplementsService, Invariant, PTL
  DEF Spec, Service!Spec, ImplementsLockService

-----------------------------------------------------------------------------
(***************************************************************************)
(* A misfire takes three callers: the dead owner of the stale lock and two *)
(* that reclaim it.  With at most two, the file a caller unlinks is the    *)
(* one it has read, or there is none any more.                             *)
(***************************************************************************)
TwoCallers == \A a, b, c \in Callers : a = b \/ a = c \/ b = c

\* A stamped file belongs to a caller that still holds it or has died; a caller that is
\* about to judge or unlink a lock has no file at the path, and has read another's.
OthersLockOnly ==
  /\ lockOwner # None /\ lockStamped => pc[lockOwner] = "held"
  /\ \A c \in Callers : pc[c] \in {"probe", "remove"} =>
                          seen[c] \in Callers \ {c} /\ lockOwner # c

Unmisfired == ~misfired /\ OthersLockOnly

\* Of two callers the one that unlinks finds the other's file or none.
LEMMA UnmisfiredKept ==
  ASSUME TwoCallers, TypeOK, Unmisfired, [Next]_vars
  PROVE  Unmisfired'
<1> USE CallersAssumption DEF TypeOK, Unmisfired, OthersLockOnly, Goto
<1>1. ASSUME NEW c \in Callers, Begin(c) PROVE Unmisfired'
  BY <1>1 DEF Begin, Resting
<1>2. ASSUME NEW c \in Callers, TryCreate(c) PROVE Unmisfired'
  BY <1>2 DEF TryCreate
<1>3. ASSUME NEW c \in Callers, Occupied(c) \/ OpenFails(c) PROVE Unmisfired'
  BY <1>3 DEF Occupied, OpenFails
<1>4. ASSUME NEW c \in Callers, Stamp(c) PROVE Unmisfired'
  BY <1>4 DEF Stamp
<1>5. ASSUME NEW c \in Callers, StampFails(c) PROVE Unmisfired'
  BY <1>5 DEF StampFails
<1>6. ASSUME NEW c \in Callers, Inspect(c) PROVE Unmisfired'
  BY <1>6 DEF Inspect, Stale
<1>7. ASSUME NEW c \in Callers, Probe(c) PROVE Unmisfired'
  BY <1>7 DEF Probe
<1>8. ASSUME NEW c \in Callers, RemoveStale(c) PROVE Unmisfired'
  <2>1. lockOwner \in {None, seen[c]}
    BY <1>8 DEF RemoveStale, TwoCallers
  <2> QED
    BY <1>8, <2>1 DEF RemoveStale, Unlink
<1>9. ASSUME NEW c \in Callers, Retry(c) \/ GiveUp(c) PROVE Unmisfired'
  BY <1>9 DEF Retry, GiveUp
<1>10. ASSUME NEW c \in Callers, Release(c) PROVE Unmisfired'
  BY <1>10 DEF Release, Unlink
<1>11. ASSUME Age PROVE Unmisfired'
  BY <1>11 DEF Age
<1>12. ASSUME NEW p \in Pids, Die(p) PROVE Unmisfired'
  BY <1>12 DEF Die
<1>13. CASE UNCHANGED vars
  BY <1>13 DEF vars
<1> QED
  BY <1>1, <1>2, <1>3, <1>4, <1>5, <1>6, <1>7, <1>8, <1>9, <1>10, <1>11, <1>12, <1>13
  DEF Next, AcquireStep

\* Two callers exclude each other whoever dies and whenever: the violation of
\* MutualExclusion needs a third.
THEOREM ExclusionOfTwo == OneUser /\ TwoCallers => (Spec => []MutualExclusion)
<1> SUFFICES ASSUME OneUser, TwoCallers PROVE Spec => []MutualExclusion
  OBVIOUS
<1>1. Init => Unmisfired
  BY DEF Init, Unmisfired, OthersLockOnly
<1>2. TypeOK /\ Unmisfired /\ [Next]_vars => Unmisfired'
  BY UnmisfiredKept
<1>3. Unmisfired /\ ExclusiveUnlessMisfired => MutualExclusion
  BY DEF Unmisfired, ExclusiveUnlessMisfired, MutualExclusion
<1> QED
  BY <1>1, <1>2, <1>3, Typing, Exclusion, PTL DEF Spec

-----------------------------------------------------------------------------
(***************************************************************************)
(* The safety half of AcquireReturns: a call of acquireFileLock has a rank *)
(* that is bounded by its budget, every step of the call lowers it and no  *)
(* other step moves it.  Hence a call takes at most 5 * MaxAttempts steps; *)
(* that a step is always possible is what the liveness check adds.         *)
(***************************************************************************)
Place(label) == CASE label = "try" -> 5 [] label = "inspect" -> 4 [] label = "probe" -> 3
                  [] label = "remove" -> 2 [] OTHER -> 1

\* The steps that are left to the call of c, at most.
StepsLeft(c) ==
  IF pc[c] \in Acquiring THEN Place(pc[c]) + 5 * (MaxAttempts - attempts[c]) ELSE 0

CallsWindDown ==
  \A c \in Callers :
    /\ AcquireStep(c) => StepsLeft(c)' < StepsLeft(c)
    /\ pc[c] \in Acquiring => \/ StepsLeft(c)' < StepsLeft(c)
                              \/ UNCHANGED <<pc[c], attempts[c], seen[c]>>

\* A call makes at least one attempt.
Charged == \A c \in Callers : pc[c] \in Acquiring => attempts[c] \in 1 .. MaxAttempts

\* boundedRetry charges every attempt: no call of acquireFileLock takes more than
\* 5 * MaxAttempts steps, whatever the other callers do meanwhile.
THEOREM CallsAreBounded ==
  Spec => /\ []\A c \in Callers : StepsLeft(c) \in 0 .. 5 * MaxAttempts
          /\ [][CallsWindDown]_vars
<1> USE CallersAssumption, MaxAttemptsAssumption
<1>1. Init => Charged
  BY DEF Init, Charged, Acquiring
<1>2. TypeOK /\ Charged /\ [Next]_vars => Charged'
  <2> SUFFICES ASSUME TypeOK, Charged, [Next]_vars, NEW c \in Callers, pc'[c] \in Acquiring
               PROVE  attempts'[c] \in 1 .. MaxAttempts
    BY DEF Charged
  <2>1. \/ UNCHANGED <<pc[c], attempts[c]>>
        \/ Begin(c) \/ AcquireStep(c) \/ Release(c)
    BY DEF TypeOK, Goto, Next, vars, Age, Die, AcquireStep, Begin, TryCreate, Occupied, OpenFails,
       Stamp, StampFails, Inspect, Probe, RemoveStale, Retry, GiveUp, Release
  <2> QED
    BY <2>1 DEF TypeOK, Charged, Goto, Acquiring, Resting, AcquireStep, Begin, TryCreate, Occupied,
       OpenFails, Stamp, StampFails, Inspect, Probe, RemoveStale, Retry, GiveUp, Release
<1>3. TypeOK /\ Charged => \A c \in Callers : StepsLeft(c) \in 0 .. 5 * MaxAttempts
  BY DEF TypeOK, Charged, StepsLeft, Place
<1>4. TypeOK /\ Charged /\ [Next]_vars => [CallsWindDown]_vars
  <2> SUFFICES ASSUME TypeOK, Charged, Next, NEW c \in Callers
               PROVE  /\ AcquireStep(c) => StepsLeft(c)' < StepsLeft(c)
                      /\ \/ AcquireStep(c) \/ pc[c] \notin Acquiring
                         \/ UNCHANGED <<pc[c], attempts[c], seen[c]>>
    BY DEF CallsWindDown
  <2>1. \/ UNCHANGED <<pc[c], attempts[c], seen[c]>>
        \/ Begin(c) \/ AcquireStep(c) \/ Release(c)
    BY DEF TypeOK, Goto, Next, Age, Die, AcquireStep, Begin, TryCreate, Occupied, OpenFails,
       Stamp, StampFails, Inspect, Probe, RemoveStale, Retry, GiveUp, Release
  <2>2. ASSUME AcquireStep(c) PROVE StepsLeft(c)' < StepsLeft(c)
    BY <2>2 DEF TypeOK, Charged, StepsLeft, Place, Goto, Acquiring, Resting, AcquireStep, TryCreate,
       Occupied, OpenFails, Stamp, StampFails, Inspect, Probe, RemoveStale, Retry, GiveUp
  <2> QED
    BY <2>1, <2>2 DEF Begin, Release, Acquiring, Resting
<1> QED
  BY <1>1, <1>2, <1>3, <1>4, Typing, PTL DEF Spec

-----------------------------------------------------------------------------
\* An empty lock file whose creator is gone or has thrown, and nobody about to judge or
\* unlink a lock read before.
Wedged == /\ lockOwner # None /\ ~lockStamped /\ Inside = {}
          /\ \A c \in Callers : Live(c) => pc[c] \notin {"probe", "remove"}

LEMMA WedgedStep == TypeOK /\ Wedged /\ [Next]_vars => Wedged'
<1> SUFFICES ASSUME TypeOK, Wedged, [Next]_vars PROVE Wedged'
  OBVIOUS
<1> USE DEF TypeOK, Wedged, Inside, Live, Goto
<1>1. ASSUME NEW c \in Callers, Begin(c) \/ Occupied(c) \/ OpenFails(c) PROVE Wedged'
  BY <1>1 DEF Begin, Occupied, OpenFails
<1>2. ASSUME NEW c \in Callers,
             TryCreate(c) \/ Stamp(c) \/ StampFails(c) \/ Release(c) \/ Probe(c) \/ RemoveStale(c)
      PROVE  FALSE
  BY <1>2 DEF TryCreate, Stamp, StampFails, Release, Probe, RemoveStale
<1>3. ASSUME NEW c \in Callers, Inspect(c) PROVE Wedged'
  BY <1>3 DEF Inspect, Stale
<1>4. ASSUME NEW c \in Callers, Retry(c) \/ GiveUp(c) PROVE Wedged'
  BY <1>4 DEF Retry, GiveUp
<1>5. CASE Age
  BY <1>5 DEF Age
<1>6. ASSUME NEW p \in Pids, Die(p) PROVE Wedged'
  BY <1>6 DEF Die
<1>7. CASE UNCHANGED vars
  BY <1>7 DEF vars
<1> QED
  BY <1>1, <1>2, <1>3, <1>4, <1>5, <1>6, <1>7 DEF Next, AcquireStep

\* "Stale locks (>30s) are automatically removed on the next acquire attempt" is not only
\* missed once (StaleLockRemoved): a process that dies, or whose write fails, between the
\* exclusive open and the stamp leaves a lock that no call of acquireFileLock, at no age of
\* the file, will ever remove or get past.
THEOREM EmptyLockIsForever == Spec => [](Wedged => []Wedged)
<1>1. TypeOK /\ Wedged /\ [Next]_vars => Wedged'
  BY WedgedStep
<1> QED
  BY <1>1, Typing, PTL DEF Spec
=============================================================================
