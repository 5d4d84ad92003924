------------------------------ MODULE Archive -------------------------------
(***************************************************************************)
(* Archiving one change: determinus_change_archive                         *)
(* (tools/change/handlers-archive.ts, archive-gate.ts, archive/archive.ts) *)
(* on top of the repository of GitRelease.                                 *)
(*                                                                         *)
(* The archive tool writes a bundle, releases the branch, completes the    *)
(* release gate, marks the change archived, refreshes the bundle, removes  *)
(* the worktree and at last the source directory.  Each is a durable step  *)
(* of its own; a process may die between any two, and other sessions may   *)
(* archive, reenter or purge the same change meanwhile.  The change is one *)
(* without specification deltas, so no delta is repaired or proved.        *)
(***************************************************************************)
EXTENDS GitRelease

CONSTANTS Sessions,  \* processes that call the tools
          MaxCalls,  \* bound on the archive calls
          None       \* no file, no call, no claim

ASSUME CallBound == MaxCalls \in Nat

\* change.json, as far as archiving reads and writes it.  lifecycle stands for
\* status and lifecycleState, which these tools set together; ready for the gates
\* before release and the tasks; the rest for phase9_status.
Record == [lifecycle : {"active", "archived"}, ready : BOOLEAN, release : BOOLEAN,
           phase9 : {"none", "pending_merge", "failed", "done"},
           pr : 0 .. MaxPr, tip : 0 .. MaxTip, exact : BOOLEAN]
Bundle == [rec : Record, summary : BOOLEAN]

\* What a call holds to be released: the tip it was asked to release (aim) and its
\* proof; tip is the one it will put on record.
Claim == [kind : {"pushed", "local", "exact", "number", "tree", "ancestor"},
          shown : 0 .. MaxTip, pr : 0 .. MaxPr, aim : Tips, tip : 0 .. MaxTip]

\* worktree: with worktreePath; main: without; skip: phase9 = "skip";
\* reconcile: the retry of a change that reads as archived.
Modes == {"worktree", "main", "skip", "reconcile"}
Places == {"idle", "bundle", "summary", "commit", "release", "armed", "pending", "main",
           "gate", "transition", "refresh", "cleanup", "remove", "replay", "replayed",
          "reenter"}

ASSUME NoneIsNoFile == None \notin Record \cup Bundle \cup Claim

VARIABLES
  active,      \* changes/<id>/change.json
  bundle,      \* the bundle under archive/
  pc, mode,    \* where a session is in its call, and how it was called
  view,        \* the change as the session has it in memory
  found,       \* the session found a bundle when it began
  claim,       \* the release it holds to be proved
  calls,       \* archive calls begun, for the bound
  released,    \* history: the claim the release gate was completed on
  overtaken,   \* history: a reentry was committed beside or after an archive
  rewritten,   \* history: an archived bundle was written over by an earlier view
  purged       \* history: the change was purged

callVars == <<pc, mode, view, found, claim, calls>>
history == <<released, overtaken, rewritten, purged>>
archiveVars == <<active, bundle, callVars, history>>
vars == <<gitVars, archiveVars>>

ArchiveTypeOK ==
  /\ GitTypeOK
  /\ active \in Record \cup {None}
  /\ bundle \in Bundle \cup {None}
  /\ pc \in [Sessions -> Places]
  /\ mode \in [Sessions -> Modes \cup {None}]
  /\ view \in [Sessions -> Record \cup {None}]
  /\ found \in [Sessions -> BOOLEAN]
  /\ claim \in [Sessions -> Claim \cup {None}]
  /\ calls \in 0 .. MaxCalls
  /\ released \in Claim \cup {None}
  /\ {overtaken, rewritten, purged} \subseteq BOOLEAN

NewRecord == [lifecycle |-> "active", ready |-> FALSE, release |-> FALSE,
              phase9 |-> "none", pr |-> 0, tip |-> 0, exact |-> FALSE]

Init ==
  /\ GitInit
  /\ active = NewRecord
  /\ bundle = None
  /\ pc = [s \in Sessions |-> "idle"]
  /\ mode = [s \in Sessions |-> None]
  /\ view = [s \in Sessions |-> None]
  /\ found = [s \in Sessions |-> FALSE]
  /\ claim = [s \in Sessions |-> None]
  /\ calls = 0
  /\ released = None
  /\ overtaken = FALSE
  /\ rewritten = FALSE
  /\ purged = FALSE

-----------------------------------------------------------------------------
\* Reading a change (changes.get): the active record, or else the bundle's.  It
\* reads as archived as soon as there is a bundle, shipped or not.
Found == active # None \/ bundle # None
Loaded == IF active # None THEN active ELSE bundle.rec
ReadsArchived == bundle # None \/ (active # None /\ active.lifecycle = "archived")

Terminal(r) == r.lifecycle = "archived" /\ r.release /\ r.phase9 = "done"
TerminalBundle == bundle # None /\ Terminal(bundle.rec)

\* preservePhase9Evidence: new evidence where there is some, else the earlier one.
Recorded(r, c, phase9) ==
  [r EXCEPT !.phase9 = phase9,
            !.pr = IF c.pr # 0 THEN c.pr ELSE @,
            !.tip = IF c.tip # 0 THEN c.tip ELSE @,
            !.exact = @ \/ c.kind = "exact"]

Claimed(p, aim, recorded) ==
  [kind |-> p.kind, shown |-> p.shown, pr |-> p.pr, aim |-> aim, tip |-> recorded]

\* The claims verifyReleaseEvidenceFromMain may make for the record r.
MainClaims(r) == {Claimed(p, tip, r.tip) : p \in EvidenceFromMain(r)}

\* Between two steps of s nothing but its place changes.
Goto(s, place) == pc' = [pc EXCEPT ![s] = place]
Ends(s) ==
  /\ Goto(s, "idle")
  /\ mode' = [mode EXCEPT ![s] = None]
  /\ view' = [view EXCEPT ![s] = None]
  /\ found' = [found EXCEPT ![s] = FALSE]
  /\ claim' = [claim EXCEPT ![s] = None]

\* withArchiveProjectionLock: nobody else is between two writes of the bundle.
LockFree(s) == \A other \in Sessions \ {s} : pc[other] # "summary"

-----------------------------------------------------------------------------
\* The archive tool.

\* detectMergedArchiveReplay, for a record that names an exactly proved pull request:
\* whatever the route, the evidence from main is shipped and its released commit the
\* merge of that pull request (of ancestry it is the latest commit, which may be so),
\* the pull request has exactly the tip on record and carries the bundle.
ReplayClaims(r) ==
  {Claimed(p, tip, r.tip) : p \in
     {q \in ExactProofs(r.tip) :
        /\ bundle # None /\ r.phase9 # "none" /\ r.exact
        /\ q.pr = r.pr /\ prs[q.pr].artifacts
        /\ \E e \in EvidenceFromMain(r) : e.pr = r.pr \/ e.kind = "ancestor"}}

\* Bug: neither tasks nor gates are asked for.
ArchiveAllowedAlways == Found

\* getArchiveTaskPreflightError, getArchiveGatePreflightError up to acceptance.
ArchiveAllowed == Found /\ Loaded.ready

\* Loads the change and judges tasks and gates; release may be open unless phase9
\* is skipped, which needs its proof at once.  Then chooses the way.
Preflight(s, m) ==
  /\ pc[s] = "idle" /\ calls < MaxCalls
  /\ calls' = calls + 1
  /\ ArchiveAllowed
  /\ m = "skip" => Loaded.release /\ MainClaims(Loaded) # {}
  /\ LET retry == bundle # None /\ (active = None \/ active.lifecycle = "archived")
     IN \/ /\ Goto(s, "replay")
           /\ mode' = [mode EXCEPT ![s] = m]
           /\ \E c \in ReplayClaims(Loaded) : claim' = [claim EXCEPT ![s] = c]
        \/  \* there is none, or a question failed
             /\ m = "main" => bundle # None
             /\ m = "worktree" => worktree
             /\ m = "skip" => ~retry
             /\ Goto(s, IF retry THEN "main" ELSE "bundle")
             /\ mode' = [mode EXCEPT ![s] = IF retry THEN "reconcile" ELSE m]
             /\ \E c \in IF m = "skip" THEN MainClaims(Loaded) ELSE {None} :
                  claim' = [claim EXCEPT ![s] = c]
  /\ view' = [view EXCEPT ![s] = Loaded]
  /\ found' = [found EXCEPT ![s] = bundle # None]
  /\ UNCHANGED <<gitVars, active, bundle, history>>

\* Bug: the call that skips phase 9 skips the transition as well.
AfterBundleToRefresh(s) == CASE mode[s] = "worktree" -> "commit"
                             [] mode[s] = "main" -> "main"
                             [] mode[s] = "skip" -> "refresh"

\* Where a call goes when its bundle is written.
AfterBundle(s) == CASE mode[s] = "worktree" -> "commit"
                    [] mode[s] = "main" -> "main"
                    [] mode[s] = "skip" -> "transition"

\* Bug: the bundle that was found is written again from the view.
ReuseBundleRewrites(s) ==
  /\ pc[s] = "bundle" /\ found[s]
  /\ LockFree(s)
  /\ bundle # None /\ bundle.summary
  /\ bundle' = [bundle EXCEPT !.rec = view[s]]
  /\ Goto(s, AfterBundle(s))
  /\ UNCHANGED <<gitVars, active, mode, view, found, claim, history, calls>>

\* archiveChange, a bundle found before: only its summary is read, for the time stamp.
ReuseBundle(s) ==
  /\ pc[s] = "bundle" /\ found[s]
  /\ LockFree(s)
  /\ bundle # None /\ bundle.summary
  /\ Goto(s, AfterBundle(s))
  /\ UNCHANGED <<gitVars, active, bundle, mode, view, found, claim, history, calls>>

\* archiveChange, no bundle found before: change.json first, over whatever is there.
WriteBundle(s) ==
  /\ pc[s] = "bundle" /\ ~found[s]
  /\ LockFree(s)
  /\ bundle' = [rec |-> view[s], summary |-> bundle # None /\ bundle.summary]
  /\ rewritten' = (rewritten \/ (bundle # None /\ bundle.rec.lifecycle = "archived"))
  /\ Goto(s, "summary")
  /\ UNCHANGED <<gitVars, active, mode, view, found, claim, released, overtaken, purged, calls>>

\* ... and then the terminal summary and the rest.
WriteSummary(s) ==
  /\ pc[s] = "summary"
  /\ bundle' = IF bundle = None THEN None ELSE [bundle EXCEPT !.summary = TRUE]
  /\ Goto(s, AfterBundle(s))
  /\ UNCHANGED <<gitVars, active, mode, view, found, claim, history, calls>>

-----------------------------------------------------------------------------
\* finalizeRelease.

CommitStep(s) ==
  /\ pc[s] = "commit"
  /\ CommitArtifacts
  /\ claim' = [claim EXCEPT ![s] = Claimed(Proof("local", 0, 0), tip, tip)]
  /\ Goto(s, "release")
  /\ UNCHANGED <<active, bundle, mode, view, found, history, calls>>

\* The claim of s, now resting on the proof p.
Rests(s, p) == claim' = [claim EXCEPT ![s] = Claimed(p, @.aim, @.aim)]

ShipMerged(s) ==
  /\ pc[s] = "release"
  /\ ~NothingToMerge
  /\ \E p \in AlreadyMerged(claim[s].aim) : Rests(s, p)
  /\ Goto(s, "gate")
  /\ UNCHANGED <<gitVars, active, bundle, mode, view, found, history, calls>>

ShipPushed(s) ==
  /\ pc[s] = "release"
  /\ MergeAndPush
  /\ Rests(s, Proof("pushed", tip, 0))
  /\ Goto(s, "gate")
  /\ UNCHANGED <<active, bundle, mode, view, found, history, calls>>

ShipLocal(s) ==
  /\ pc[s] = "release"
  /\ NothingToMerge
  /\ Rests(s, Proof("local", 0, 0))
  /\ Goto(s, "gate")
  /\ UNCHANGED <<gitVars, active, bundle, mode, view, found, history, calls>>

HandoffStep(s) ==
  /\ pc[s] = "release"
  /\ ~NothingToMerge
  /\ AlreadyMerged(claim[s].aim) = {}
  /\ Handoff
  /\ Rests(s, Proof("number", 0, Len(prs')))
  /\ Goto(s, "armed")
  /\ UNCHANGED <<active, bundle, mode, view, found, history, calls>>

\* The state of the pull request after the handoff: merged is shipped, open waits.
Handed(s) ==
  /\ pc[s] = "armed"
  /\ \/ /\ \E p \in NumberProofs(claim[s].pr) : Rests(s, p)
        /\ Goto(s, "gate")
     \/ /\ prs[claim[s].pr].state = "open"
        /\ Goto(s, "pending")
        /\ UNCHANGED claim
  /\ UNCHANGED <<gitVars, active, bundle, mode, view, found, history, calls>>

\* recordPhase9Status with the outcome pending_merge; a missing change is an error.
RecordPending(s) ==
  /\ pc[s] = "pending"
  /\ active' = IF active = None THEN None
               ELSE Recorded([active EXCEPT !.exact = view[s].exact],
                             claim[s], "pending_merge")
  /\ Ends(s)
  /\ UNCHANGED <<gitVars, bundle, history, calls>>

\* finalizeRelease throws: the failure is recorded.
RecordFailed(s) ==
  /\ pc[s] \in {"commit", "release"}
  /\ active # None
  /\ active' = [active EXCEPT !.phase9 = "failed", !.pr = view[s].pr, !.tip = view[s].tip,
                              !.exact = view[s].exact]
  /\ Ends(s)
  /\ UNCHANGED <<gitVars, bundle, history, calls>>

\* verifyReleaseEvidenceFromMain, without a worktree or on the retry.
ProveFromMain(s) ==
  /\ pc[s] = "main"
  /\ \E c \in MainClaims(view[s]) : claim' = [claim EXCEPT ![s] = c]
  /\ Goto(s, "gate")
  /\ UNCHANGED <<gitVars, active, bundle, mode, view, found, history, calls>>

-----------------------------------------------------------------------------
\* Completion.

\* completeReleaseGateAfterFinalization, on the latest active record.
CompleteGate(s) ==
  /\ pc[s] = "gate"
  /\ active # None
  /\ active' = [active EXCEPT !.release = TRUE]
  /\ released' = IF active.release THEN released ELSE claim[s]
  /\ IF mode[s] = "reconcile"
     THEN Ends(s)
     ELSE Goto(s, "transition") /\ UNCHANGED <<mode, view, found, claim>>
  /\ UNCHANGED <<gitVars, bundle, overtaken, rewritten, purged, calls>>

\* The bundle as the recovery leaves it, its files refreshed under the lock.
Recovered(c) ==
  [rec |-> IF Terminal(bundle.rec) THEN bundle.rec
           ELSE [Recorded(bundle.rec, c, "done") EXCEPT !.lifecycle = "archived",
                                                        !.release = TRUE],
   summary |-> TRUE]

\* completeArchivedBundleRelease: the source is gone, the bundle takes its part.  It
\* reads the time of a bundle from its summary, and needs one.
CompleteBundle(s) ==
  /\ pc[s] = "gate"
  /\ active = None /\ bundle # None
  /\ LockFree(s)
  /\ bundle.summary
  /\ bundle' = Recovered(claim[s])
  /\ released' = IF bundle.rec.release THEN released ELSE claim[s]
  /\ Ends(s)
  /\ UNCHANGED <<gitVars, active, overtaken, rewritten, purged, calls>>

\* completeMergedArchiveReplay and completeShippedChange after it: of a change that
\* was archived nothing is repeated, any other goes through the transition.  A bundle
\* that is terminal is taken as it is, its summary not looked at.
Replay(s) ==
  /\ pc[s] = "replay"
  /\ bundle # None /\ LockFree(s)
  /\ Terminal(bundle.rec) \/ bundle.summary
  /\ bundle' = IF Terminal(bundle.rec) THEN bundle ELSE Recovered(claim[s])
  /\ released' = IF bundle.rec.release THEN released ELSE claim[s]
  /\ IF Terminal(view[s])
     THEN Ends(s)
     ELSE Goto(s, "replayed") /\ UNCHANGED <<mode, view, found, claim>>
  /\ UNCHANGED <<gitVars, active, overtaken, rewritten, purged, calls>>

\* The archive_transition of completeShippedChange, on the latest active record.  After
\* a replay it completes the release gate in every mode, and the bundle counts as
\* refreshed (terminalRefreshCompleted).
Transition(s) ==
  /\ pc[s] \in {"transition", "replayed"}
  /\ active # None
  /\ LET completes == mode[s] # "skip" \/ pc[s] = "replayed" IN
       /\ active' = [Recorded(active, claim[s], "done")
                       EXCEPT !.lifecycle = "archived", !.release = @ \/ completes]
       /\ released' = IF ~active.release /\ completes THEN claim[s] ELSE released
  /\ view' = [view EXCEPT ![s] = active']
  /\ Goto(s, IF pc[s] = "replayed" THEN "cleanup" ELSE "refresh")
  /\ UNCHANGED <<gitVars, bundle, mode, found, claim, overtaken, rewritten, purged, calls>>

\* The bundle gets the terminal record.
RefreshBundle(s) ==
  /\ pc[s] = "refresh"
  /\ LockFree(s)
  /\ bundle' = [rec |-> view[s], summary |-> TRUE]
  /\ Goto(s, "cleanup")
  /\ UNCHANGED <<gitVars, active, mode, view, found, claim, history, calls>>

\* cleanupShippedChangeWorktree deletes the worktree or retains it.
Cleanup(s) ==
  /\ pc[s] = "cleanup"
  /\ worktree' \in {worktree, worktree /\ mode[s] = "main"}
  /\ Goto(s, "remove")
  /\ UNCHANGED <<route, tip, artifacts, pushed, trunk, merged, local, prs,
                 active, bundle, mode, view, found, claim, history, calls>>

\* Bug: the source goes before the bundle has its terminal record.
RemoveSourceEarly(s) ==
  /\ pc[s] \in {"refresh", "remove"}
  /\ active' \in {active, None}
  /\ Ends(s)
  /\ UNCHANGED <<gitVars, bundle, history, calls>>

\* removeChangeDir; an error is only a warning.
RemoveSource(s) ==
  /\ pc[s] = "remove"
  /\ active' \in {active, None}
  /\ Ends(s)
  /\ UNCHANGED <<gitVars, bundle, history, calls>>

\* A refusal, an error, a timeout or the death of the process.
Stop(s) ==
  /\ pc[s] # "idle"
  /\ Ends(s)
  /\ UNCHANGED <<gitVars, active, bundle, history, calls>>

-----------------------------------------------------------------------------
\* Other tools on the same change.

\* The gates up to acceptance are completed and the tasks done; the gate tool does not
\* ask whether the change is archived.
BecomeReady ==
  /\ active # None /\ ~active.ready
  /\ active' = [active EXCEPT !.ready = TRUE]
  /\ UNCHANGED <<gitVars, bundle, callVars, history>>

\* determinus_change_reenter judges the status it reads ...
JudgeReenter(s) ==
  /\ pc[s] = "idle"
  /\ active # None /\ ~ReadsArchived
  /\ Goto(s, "reenter")
  /\ UNCHANGED <<gitVars, active, bundle, mode, view, found, claim, history, calls>>

\* ... and resets the gates from the reentered one on.
Reenter(s) ==
  /\ pc[s] = "reenter"
  /\ active # None
  /\ active' = [active EXCEPT !.ready = FALSE, !.release = FALSE]
  /\ overtaken' = (\/ overtaken \/ active.lifecycle = "archived"
                   \/ \E other \in Sessions : pc[other] \notin {"idle", "reenter"})
  /\ Ends(s)
  /\ UNCHANGED <<gitVars, bundle, released, rewritten, purged, calls>>

\* The purge of the doctor asks for a change that reads as archived.
Purgeable == Found /\ ReadsArchived

Purge ==
  /\ Purgeable
  /\ bundle' = None
  /\ active' = None
  /\ purged' = TRUE
  /\ UNCHANGED <<gitVars, callVars, released, overtaken, rewritten>>

-----------------------------------------------------------------------------
Call(s) ==
  \/ \E m \in {"worktree", "main", "skip"} : Preflight(s, m)
  \/ ReuseBundle(s) \/ WriteBundle(s) \/ WriteSummary(s)
  \/ CommitStep(s) \/ ShipMerged(s) \/ ShipPushed(s) \/ ShipLocal(s)
  \/ HandoffStep(s) \/ Handed(s) \/ RecordPending(s) \/ RecordFailed(s)
  \/ ProveFromMain(s)
  \/ CompleteGate(s) \/ CompleteBundle(s) \/ Replay(s)
  \/ Transition(s) \/ RefreshBundle(s) \/ Cleanup(s) \/ RemoveSource(s)
  \/ Stop(s)
  \/ JudgeReenter(s) \/ Reenter(s)

Next ==
  \/ \E s \in Sessions : Call(s)
  \/ Repository /\ UNCHANGED archiveVars
  \/ BecomeReady
  \/ Purge

Spec == Init /\ [][Next]_vars

-----------------------------------------------------------------------------
\* Properties.

\* What a claim is worth.  A push releases the tip it was asked to release, an exact
\* pull request the tip it puts on record; ancestry, a pull request taken by its number
\* and equal trees the tip they show, which may be an older one; the local branch nothing.
Worth(c) ==
  CASE c.kind = "pushed" -> Released(c.aim)
    [] c.kind = "exact" -> c.shown = c.tip /\ Released(c.tip)
    [] c.kind \in {"ancestor", "number", "tree"} -> Released(c.shown)
    [] c.kind = "local" -> TRUE

\* A session past finalization, and a completed release gate, rest on a claim that is
\* worth what its kind says, whatever was pushed, merged or closed in between
\* (finalizeRelease, resolveReleaseReachability, completeReleaseGateAfterFinalization).
ReleasedUnlessStaleProof ==
  /\ \A s \in Sessions :
       pc[s] \in {"gate", "transition", "refresh", "cleanup", "remove", "replay", "replayed"}
         => claim[s] # None /\ Worth(claim[s])
  /\ active # None /\ active.release => released # None
  /\ TerminalBundle => released # None
  /\ released # None => Worth(released)

\* The release gate is completed only when the branch it was asked to release is on
\* origin (the remediation texts of rq-releaseFinalization01).
ShippedIsReleased == released # None => Released(released.aim)

\* A change that is not purged is never lost: as long as the source directory is not
\* there the bundle holds the terminal record and its summary.  A session that had
\* preflighted before the bundle existed may set it back; a reentry may take its
\* release gate away (completeShippedChange, archiveBundlePathForWrite).
SourceKeptUntilTerminal ==
  purged \/ active # None
    \/ /\ bundle # None /\ bundle.summary
       /\ TerminalBundle \/ rewritten \/ (overtaken /\ bundle.rec.lifecycle = "archived")

\* A change is archived with its gates and tasks done, unless a reentry is committed
\* beside the archive call or after it: neither tool asks again when it commits.
AcceptedUnlessOvertaken ==
  /\ active # None /\ active.lifecycle = "archived" => active.ready \/ overtaken
  /\ TerminalBundle => bundle.rec.ready \/ overtaken

\* A terminal bundle stays terminal, and an archived record archived, through every
\* retry, failure record and replay, but for a purge, for a session that began before
\* there was a bundle, and for one that skips phase 9 and whose release gate a reentry
\* has taken away (recordPhase9Status, reconcileArchivedBundleRetry).
TerminalStays ==
  [][ /\ (TerminalBundle /\ ~TerminalBundle')
           => \/ bundle' = None /\ purged'
              \/ \E s \in Sessions : pc[s] = "bundle" /\ ~found[s]
              \/ overtaken /\ \E s \in Sessions : pc[s] = "refresh" /\ mode[s] = "skip"
      /\ (active # None /\ active.lifecycle = "archived" /\ active' # None)
           => active'.lifecycle = "archived" ]_vars

\* The bundle is made terminal, and the source removed, only from a record that was
\* marked archived before: the order of completeShippedChange.
ArchivedInOrder ==
  [][ /\ (~TerminalBundle /\ TerminalBundle' /\ active # None)
           => active.lifecycle = "archived"
      /\ (active # None /\ active' = None /\ ~purged')
           => active.lifecycle = "archived" ]_vars
=============================================================================
