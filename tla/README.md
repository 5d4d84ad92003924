# Determinus in TLA+

Determinus is an OpenCode plugin for spec-driven development: an agent takes a *change* through seven
gates (proposal, discovery, design, planning, execution, acceptance, release), its tasks through
red-green test evidence and git checkpoints, and finally archives it. All of that state lives in files
of a project store that several sessions, each a process with many overlapping asynchronous tool calls,
read and write at the same time. The files are the only authority, so the questions this project asks
are about interleaving, crashes and stale judgements.

Paths below are relative to `plugin/src/`.

## 1. Inventory

About 115,000 lines of TypeScript without tests. `plugin/dist`, the JSON schemas, the installation
scripts and the licences are not part of the program's logic.

| component | state it keeps | operations | what is hard | what makes it correct |
|---|---|---|---|---|
| advisory file lock, `utils/fs.ts` | `<file>.lock` with pid and timestamp | `acquireFileLock`, the release it returns | crash while holding, reclaim races, empty lock files, bounded wait | mutual exclusion, reclaim of dead owners only, every wait ends |
| projection transaction, `storage/change-projection-transaction.ts` | `changes/<id>/change.json`: content, `projection_revision`, `state_revision`, ring of `projection_commits` | `commitChangeProjection` | concurrent writers, retries of the same operation, failed reads and writes, crash at each file operation | atomic steps, compare-and-set, at most one application of a remembered operation, no silent wipe, the lock always given back |
| summary, `storage/change-summary-shard.ts` | `summaries/<id>/revisions/<rev>.json`, `current.json` | publish, read, rebuild, list, collect | three files without a common lock for readers, crash between them | pointer names a shard that exists, a reader's "ok" is coherent, success implies publication |
| disk store, `storage/store-disk.ts` | the same files | create, save, close, task and epic operations | writes without lock or revision | no lost update |
| mutation coordinator, `tools/change-mutation-coordinator.ts` | none | `coordinateChangeMutation` | fresh operation identity per call, hence no recognition of retries | one atomic commit per verified outcome |
| gates, `tools/gate.ts`, `types/gates.ts` | gate statuses in the change | complete, reenter | judged on one load, committed on another state | gates done in sequence |
| tasks, `tools/task.ts` | tasks in the change | add, update, cancel, reclassify | same | plan frozen after planning, done only with evidence |
| checkpoint, `tools/checkpoint.ts` | git commit and task record | complete, cancel | git commit between judgement and record, fail-open reads, retry on a clean tree | evidence judged before done |
| test evidence, `tools/test.ts`, `validator/tdd-ordering.ts` | ring of runs per task | `run_test`, pairing rules | eviction, ordering red before green | evidence that was verified stays valid |
| archive and release, `archive/*`, `tools/change/handlers-archive.ts`, `archive-gate.ts` | bundle, release gate, status, source directory | preflight, bundle, finalize, transition, refresh, cleanup, replay, purge | long chain of durable steps, each may crash; other sessions archive, reenter and purge | releases rest on proofs, nothing is removed before the bundle is terminal, terminal stays |
| git finalization, `tools/archive-helpers/*` | git repository, remote, pull request | routes, proofs of reachability, merge, push, handoff, conflict loop | the branch and the pull request move between a question and its use | what is proved about a tip stays true |
| epics, `tools/epic*.ts`, `storage/epics-disk.ts` | `epics/<id>` with version, membership on both sides | mutate, link, promote, move, unlink, converge, retire | two files without a common lock | a membership is backed by an entry, retired work is over |
| worktrees, `tools/worktree/*`, `utils/git-worktree-flock.ts`, `worktree-operation.ts` | lock files, child processes, pending deletions | create, detach, plan, execute deletion, abort | races of processes, facts stale at execution, children that outlive a crash | no work is destroyed unasked, what is removed is what was judged |
| logs: backlog, wisdom, reflection, conformance | JSONL files | append, promote, archive | concurrent append | no entry lost, promotion idempotent |
| reconciliation, quarantine, doctor, migration | plans, quarantined copies, receipts, audit | plan, apply, quarantine, roll back, restore | diagnosis before the lock, crash in the middle of a repair | no content lost, a sound change stays |
| reports, contracts, follow-ups, dispositions | fields of the change | field-local mutations | as the coordinator | as the coordinator |
| readiness and validators | none | pure functions | - | agreement with a reference definition |
| tool boundary (`safeExecute`, budgets, deadlines) | ambient deadline | timeout of a handler | a handler that goes on after its timeout | late effects harmless |
| plugin shell, prompts, status, launcher, MCP, integrations | derived or none | display | - | - |

Interaction: a tool judges a change it has loaded, then calls the coordinator; the coordinator calls
the transaction with summary; the transaction takes the file lock, loads, mutates, writes, reads back and
publishes the summary before its `finally` releases. Readers of the summary and the disk store's own
writers take no lock. `PROJECT.json` lists every component with its status and every hazard at its line.

## 2. Modules

    LockService  <---implements---  FileLock                 the lock
         ^ uses
    AtomicChange <---implements---  ChangeProjection         one change file and its summary
                                         ^ extends
                                    ProjectStore             the same with the unlocked writers
    ChangeWorkflow (its commit step is AtomicChange's)       gates, tasks, evidence
    GitRelease <---extends--- Archive                        archive and release of one change
    ToolSessions <---extends--- GitWorktreeFlock             lock file of worktree creation
                                WorktreeRemoval              worktree creation, detachment, deletion
                                EpicMembership               epics and the memberships of changes
                                TaskCheckpoint               the git side of a checkpoint
                                StoreRepair                  quarantine and reconciliation

* **LockService** - the promise: at most one holder, until the lock is *compromised*.
* **FileLock** - `acquireFileLock`, one step per file-system call. The exclusive `writeFile` is two steps,
  create (`TryCreate`, the file is empty) and `Stamp`. `Inspect`, `Probe`, `RemoveStale` are the
  staleness test, the signal-0 probe and the unlink; `Retry` and `GiveUp` the budget of
  `boundedRetry`; `Age` the passage of `STALE_LOCK_MS`; `Die` the death of a process.
  A timestamp is abstracted to "older than the limit or not", a budget to a number of attempts.
* **AtomicChange** - the promise of the transaction: the change moves by whole accepted calls applied to
  the current content.
* **ChangeProjection** - `commitChangeProjection`, its summary wrapper and the unlocked reader. `pc` is
  the place between two file operations: `load` (with all fences and the mutation, which run without an
  await), `write`, `readback`, `shard`, `pointer`, `proof`, `release`, `final`. `Verdict` keeps the
  fences in the order of the code. The four protected collections are one set `items`; a mutation adds an
  entry, clears, or throws. Reads and writes may fail, a write may fail after its rename has landed
  (`WriteFails`), sessions may crash at any place (`Crash`) and call again. The lock is taken from
  LockService uncompromised: FileLock says when that is justified.
* **ProjectStore** - adds the store operations that load, edit, save and publish without the lock.
* **ChangeWorkflow** - the tools. A call that judges first is two steps, `Judge` and a commit, with any
  steps of other sessions between; the execution gate judges gates and tasks on two loads (`JudgeTasks`).
  The commit is one step because the coordinator's commit is (theorem `Refinement` of
  `ChangeProjection_proofs`) and because no tool passes the revision it has judged. `pending`,
  `in_progress` and `blocked` are "open"; a test run is failed or passed; user approval, readiness,
  worktree isolation and git failures are `GiveUp`. Fingerprints, the red oracle, spec revisions and the
  `advisory`/`off` enforcement are left out: with them a call is refused more or less often, the order of
  judgement and commit is the same. Archived and closed changes are left out. `stale`, `overtaken` and
  `verified` are history variables: no action's guard reads them. `Overtake` marks the calls whose
  judgement a step may have falsified.
* **GitRelease** - the change branch, its copy on origin, its pull requests and the default branch, local
  and remote, as `git-finalize.ts` reads and moves them. A commit is a position on the branch that
  contains all before it; `trunk` holds the tips whose *tree* origin's default branch has had (a squash
  keeps the tree, not the ancestry), `merged` the latest *ancestor*. Every proof of reachability of the
  code is an operator that yields the claims it may make, each with the tip it has shown.
* **Archive** - `determinus_change_archive` on top of it: preflight, bundle and summary, artifact commit,
  finalization with or without a worktree or with phase 9 skipped, handoff to a pull request and its retry,
  release gate, `archive_transition`, refresh of the bundle, cleanup, removal of the source; the
  reconciliation of an archived change; the replay, which `detectMergedArchiveReplay` may find on every route
  (`ReplayClaims`), which completes the gate in every mode and after which the transition goes straight to the
  cleanup, the bundle counting as refreshed (`terminalRefreshCompleted`); and `determinus_change_reenter` and
  the purge beside them. Each durable write is a step; `Stop` ends a call anywhere. `view` is what a session
  has in memory, and it is older than the file as soon as another session writes.
* **ToolSessions** - the parameters of the next five modules, which share no variable.
* **GitWorktreeFlock** - the lock file `acquireGitWorktreeFlock` reclaims by renaming it aside, reading it
  again and comparing; another file is renamed back. A record is its owner token. Each file operation may
  fail in a process that lives on: `WriteFails` leaves a file with or without its record, `ReclaimFails` ends
  a reclaim midway, `ReleaseFails` is the error that `releaseGitWorktreeFlock` swallows. `left` remembers
  the tokens of such calls.
* **WorktreeRemoval** - the worktree of one change: `advWorktreeCreate`, the detachment, and the deletion
  from dry run to `settleLease` with both censuses and the hooks between them; and crash, after which the
  detached holder of the kernel lock and the git process go on. The abort at the deadline waits for the holder
  but not for git, whose `terminate` was begun by the operation's own signal and returns at once the second
  time (`process-runner.ts:111-112`): git runs on as a *stray* without lock or call. A git process that fails or is
  killed may have removed the directory and not its record (`GitEnds`). People edit, commit, enter and
  leave in between.
* **EpicMembership** - create, add_shell, link, retarget, promote, move, unlink, show with its
  convergence, terminal summaries, retire. A call reads, then writes epic, child and epic in the order of
  its tool, one step each; the child is loaded and judged (`Judge`, `Clear`), then saved whole, without a lock
  (`Save`), as any other tool may save it (`BeginEdit`). An archive or a closure copies the record, then
  removes it (`End`, `Discard`); from then on `setEpicMembership` and `clearEpicMembership` find no active
  file, write nothing and return what their callers take for success. `member` is the membership as it is
  read, `bundle` the copy's. `loose` and `forked` are history variables, the exceptions of the
  properties. `Interrupt` stops the process anywhere.
* **TaskCheckpoint** - HEAD, status, add, commit, sha and record, each a process of its own, over one index and
  one branch. The error of a failed call is saved by `tasks.update`: the task is read (`BridgeRead`), the
  whole change loaded (`BridgeLoad`) and saved without the lock (`BridgeSave`), all of its tasks as they were
  loaded. A commit is the set of tasks whose work it contains.
* **StoreRepair** - one change file that may be `sound`, `retired` (enum values that can be mapped),
  `mixed` or `broken`; the quarantine tool with its two diagnoses, move, audit and rollback, and a
  reconcile run that normalises, migrates artifact metadata, quarantines and restores, under its own lock and that
  of the file. Beside them transactions (`CommitChange`), which take the lock, and the store's own writers
  (`LoadWhole`, `SaveWhole`), which do not; `intruded` and `clobbered` remember what the latter have upset.
* **MC\*** - instances; **MCTools** composes the five tools side by side; **\*_proofs** - theorems, one module
  per component, but `Worktree_proofs` for GitWorktreeFlock and WorktreeRemoval, and `Tools_proofs` for
  TaskCheckpoint, StoreRepair and the composition.

## 3. Runs

| run | instance | result |
|---|---|---|
| `file_lock` | 3 callers in 2 processes, one mortal; 2 attempts per call; `FairSpec` | passes, 122,460 states |
| `file_lock_exclusion` | same | **violated**: `MutualExclusion` |
| `file_lock_stale` | same | **violated**: `StaleLockRemoved` |
| `change_projection` | 2 symmetric sessions, 6 requests, 3 calls, ring of 2 | passes, 915,340 states |
| `change_projection_replay` | same, fewer requests | **violated**: `ReplayIsPublished` |
| `project_store_lost_update` | 1 unlocked writer beside the transaction | **violated**: `MutationsSurvive` |
| `change_workflow` | 2 symmetric sessions, 1 task, ring of 3 | passes, 481,706 states |
| `change_workflow_sequence` | same | **violated**: `GatesInSequence` |
| `change_workflow_evidence` | same | **violated**: `EvidenceSurvives` |
| `archive` | 2 symmetric sessions, 2 commits, 1 pull request, 2 archive calls, all routes | passes, about 3.7 million states |
| `archive_shipped` | same | **violated**: `ShippedIsReleased` |
| `tools` | 2 symmetric sessions in each of five tools | passes, about 2.1 million states |

*The lock.* `ExclusiveUnlessMisfired` says that the only way to two holders is a reclaim that unlinks
another file than the one it has read. `file_lock_exclusion` shows that this does happen: A and B read the
lock of a dead process and probe it; A unlinks, creates its own lock and enters; B unlinks A's lock and
enters as well. Callers of the lock document serialization without exception (`backlog-store.ts:16`,
`conformance.ts:118`). `file_lock_stale`: a process that dies after the create and before the stamp leaves
an empty file whose timestamp is NaN; it is never reclaimed, against the comment at `fs.ts:185`.
`AcquireReturns` says that a call still ends.

*The transaction.* `ImplementsAtomicChange` carries most of the weight; `CompareAndSet`, `NoSilentWipe` and
`AppliedOnce` are what callers build on. `PointerSound`, `ReaderCoherent` and `CommittedIsPublished` are about
the summary, whatever crashed where. (That a shard keeps its content is no property of the store:
`persistChangeProjection` publishes another content under the same revision.) `change_projection_replay`: a
call crashes after its write; its retry finds itself recorded, returns before publication and is reported as
success. Today the coordinator draws a fresh identity for each call, so the path is latent.
`project_store_lost_update`: `persistChangeProjection` overwrites a committed entry.

*The workflow.* `SequenceUnlessOvertaken`, `PlanFrozenUnlessOvertaken`, `ExecutionEarned` and `DoneEarned`
state each rule with the exact exception the code leaves: a call whose judgement a step of another session
has overtaken. `change_workflow_sequence` shows the exception for the gates: a completion is judged, an
earlier gate is reentered, the completion commits. `change_workflow_evidence`: later runs of a done task
push the verified red run out of the ring and the execution gate refuses, although
`tdd-ordering.ts:351` says that such tasks are trusted.

*Archive and release.* `ReleasedUnlessStaleProof`: every session past finalization, and every completed
release gate, holds a claim that is still worth what its kind says - a pushed or ancestor tip is on
origin, a merged pull request is merged - although the branch goes on moving. `SourceKeptUntilTerminal`
says that the change is always somewhere, `AcceptedUnlessOvertaken`, `TerminalStays` and `ArchivedInOrder`
that nothing undone is archived, nothing archived comes back and the steps keep their order; each with
the races the code leaves open, named in the property. `archive_shipped`: whether there is anything to
merge is asked of the *local* default branch (`git-finalize.ts:1066`). A branch merged there and not
pushed is finalized as "already merged": the release gate is done and origin has nothing.

*The tools.* Each behaviour of `tools` is one of a single component, chosen by `focus`, and the others keep
their initial states, so every property of a component is checked on all of its behaviours and no
product of unrelated state spaces is built. `FlockExclusive` and `FlockReclaimsDead` state what remains of
exclusion when reclaim renames first and compares afterwards: until a rename has moved a record its session
had not read, what is moved aside belonged to a dead process, and the file of a living one is owned or was left by its
failed write or release. `UncommittedWorkKept`, `RemovedAsJudged` and `RemovalUnderLease` speak of deletion:
work is destroyed only by git processes of a forced plan, a worktree is removed as it was judged last or as others
changed it since (a creation or a detachment, which no common lock keeps away, included), and git runs under the
kernel lock of the call that waits for it, unless its operation was aborted. `MembershipBacked`,
`RetiredChangesDone` and `EpicKept` relate the three files a call of the epic tool writes: one call after
another, interrupted anywhere, keeps them in agreement for every change that has its record; the exceptions are
changes that two calls were about at once, entries written over by calls about such changes or about changes
without a record, and epics changed beside their snapshot. `DoneWorkCommitted` and `CompletionKept` speak of
checkpoints: the sha on record contains the work of the task, and only the save of a change that was read
earlier reopens what is complete, be it the task of the failed checkpoint or another. `RecordKept`,
`SoundStaysActive` and `RepairSaved` say that no repair loses a content or takes away a change that reads, but
where a save without the lock came after the repair's last look.

*Bounds.* FileLock: three callers are needed for the misfired reclaim (a dead owner and two reclaimers; with
two it cannot happen, theorem `ExclusionOfTwo`); two of them share a process, since the overlap of
asynchronous calls and that of processes differ in what dies together. ChangeProjection: `MaxCalls` 3 allows a
crash, a retry and a competing call; `MaxAudit` 2 makes the ring overflow within them (the code keeps 50).
ChangeWorkflow: two sessions are a judgement and the step that overtakes it; one task has every status,
`RunLimit` 3 holds a pair and overflows (the code keeps 8). Repeated reentries and runs make the state space
finite without a bound on calls. Archive: two calls are a call and its competitor or its retry, besides any
number of reentries and purges; two commits tell a tip that was proved from one that came later; one pull
request can be merged, closed or outdated. What a third call adds is covered by the proofs, which have no
bound: a bundle that a call of phase 9 "skip" refreshes after a reentry is the third exception of
`TerminalStays` for that reason. MCTools: `MaxFlocks` 3 calls of each session let a session die, its lock be
reclaimed and the reclaimer be overtaken; one commit and one edit (`MaxHead`, `MaxEdits`) change a worktree
behind a judgement, and one kind of stray (`MaxStrays` 1) outlives its call; two epics, one entry id and two
changes let a change move and an entry be taken by another, `MaxEpicCalls` 4 a call, an overlapping one and
two repairs; two tasks and three checkpoints let one commit take the work of another task, and an error be
saved over the completion of another task; `MaxRevision` 1 and `MaxSaves` 1 are a repair with a commit or a
save without the lock at any place of it. Sessions are interchangeable where a passing run uses symmetry, and
in `tools` changes and tasks are as well; FileLock's run checks liveness, so it uses none.

*Fairness.* Only FileLock has a liveness property. It assumes weak fairness of the steps of each call of
`acquireFileLock`: none of them waits for anybody, and the event loop runs every continuation of a live
process. Nothing is assumed about holders releasing, processes staying alive or locks ageing. The other
specifications state no fairness and no liveness: their calls end by themselves or by a crash, and what a
user or an agent retries is nobody's obligation.

*Deadlock.* The runs of the lock, the transaction, the store and the workflow check for it. A session that
waits for the lock of ChangeProjection can always time out, the unlocked reader can always read again once the
calls are spent, and in the other two a process that has died or given up leaves the others able to
step. `archive` and `tools` do not: there the bounds on calls end every behaviour (an archived and purged
change, for instance, has nothing left to do).

## 4. Proofs

Every theorem holds for all values of the constants under the modules' assumptions. They are of three
kinds: what a run checks; the refinements; and, for each property that the code violates or keeps only with
an exception, the exact circumstance it takes. The last kind carries a hypothesis: on the constants
(`OneSession`, `TwoCallers`, `RawWriters = {}`) or, as `[]P`, on the behaviours considered. TLC finds behaviours
that satisfy these hypotheses and in which the event in question (a release, a replay, a retirement over an
entry) happens.

* `FileLock_proofs`. Invariant: type correctness, `OwnsItsFile` (a caller inside owns the file at the path
  until a reclaim has misfired) and `ReclaimOnlyDead`, with what each program counter knows of `seen`.
  Exclusion alone is not inductive: the exclusive create keeps others out only because the holder's file
  is really at the path. What speaks of dead owners assumes `OneUser`: the code takes EPERM of
  the probe for death, so with several users a live owner can be reclaimed. `Refinement` proves
  `ImplementsLockService`. Exclusion has no exception when no process dies (`ExclusionWithoutCrashes`) or when
  there are two callers (`ExclusionOfTwo`). `CallsAreBounded` is the safety half of `AcquireReturns`: the
  variant `StepsLeft` is at most `5 * MaxAttempts`, every step of a call lowers it and nobody else's raises it.
  `EmptyLockIsForever` says what the violation of `StaleLockRemoved` means: once a lock is empty and its
  creator dead or failed (`Wedged`), it stays so, and no call ever passes it.
* `ChangeProjection_proofs`. The invariant says where the lock is held, what `mine` is at each place
  (the candidate of the file as it is *now* before the write, the file itself after it), that audit entries
  carry increasing revisions, that no operation is in the ring twice, and how far the pointer and the shards
  may be behind the file. From it: `Refinement` (`ImplementsAtomicChange`) and every property of the run.
  `ReplayOfSettledIsPublished`: a replay is honest as long as no commit is left without its summary when the
  lock is free. `Formed` is the part of the invariant that no unlocked write can break.
* `ProjectStore_proofs` rests on `Formed`, since raw saves break the rest. The violation of
  `MutationsSurvive` is delimited from both sides. Every loss is a requested clear or the write of a stale raw save or
  stale commit (`LossesAreStaleWrites`), and a commit goes stale by a raw save only
  (`DecisionsGoStaleByRawSaves`); where the two kinds of writers do not meet between load and write, nothing
  is lost (`UpdatesSurviveApart`), and without raw writers the store is ChangeProjection
  (`WithoutRawWriters`). The lock and the audit are sound in any case (`StoreLockGivenBack`,
  `AuditSoundBesideRawWriters`).
* `ChangeWorkflow_proofs`. The invariant joins `SequenceUnlessOvertaken` with `Fresh`: a call not marked
  stale still satisfies what it has judged. Each action is shown to keep `Fresh` for every other session,
  which is what shows that `Overtake` marks enough. From it: the sequence of the gates and the three action
  properties. `SequenceAlone` and `WorkAlone`: with one session nothing is overtaken, and `GatesInSequence` and
  the action properties hold without their exceptions. `EvidenceEviction`: complete evidence is lost only by a run
  that finds the ring full.
* `Archive_proofs`. Eleven parts, each with the actions that can disturb it. The git side only grows in what a
  claim needs (`Advances`), so a claim once worth its kind stays so (`ClaimsWorth`, `ReleasedWorth`); a
  release gate that any file or memory shows done was completed on a claim (`GatesClaimed`); whoever is in a call
  has seen finished work unless overtaken (`ReadyKept`); a session past the transition has an archived source
  behind it (`OrderKept`); the source goes only once the bundle stands for it (`SourceKept`), and a refresh
  writes a terminal record but for the overtaken "skip" (`RefreshIsTerminal`); a bundle is written before a record is
  archived and has its summary when it is terminal (`BundleKept`), which is what a removal after a replay, with
  no refresh before it, rests on. From it: type correctness and
  every property of the run. `ShippedUnlessMoved`: `ShippedIsReleased` holds unless somebody merges into the
  local default branch without a push, or commits to the branch after work of it has reached the trunk.
  `ArchivedAlone`: with one session only the purge can undo an archive.
* `Worktree_proofs`, first part: the lock file. The invariant says that the token of a call in progress is not dead
  (`TokensMade`), that a reclaimer has read a dead one (`SeenIsGone`), and that before a misfire the path holds the
  owner's file, or one left by a failed write or release, and what was renamed is what was read (`PathIsOwned`). From
  it: `FlockExclusive`, `FlockReclaimsDead` and `FlockRefinement`: this lock, too, implements LockService,
  compromised when a rename misfires. `OneReclaimerExcludes`: it takes two sessions that have probed the same
  dead owner. `EmptyRecordIsForever`: an empty record at the path, once nobody writes, releases or renames,
  stays and keeps every later call out.
* `Worktree_proofs`, second part: deletion. The invariant: git processes that are no strays belong to sessions
  that wait for them, the kernel lock is held exactly between the lease and the return, and the last judgement
  of a session that goes on to remove, and of the call a stray was started by, still holds unless others have
  moved what it judged. From it: the three properties of deletion.
* `EpicMembership_proofs`. The shape of calls, and that the active projection goes only after the snapshot is
  written, hold always (`Formed`). The rest speaks of changes that are not loose and epics that have not
  forked: the file and the snapshot of an epic agree (`Snapshots`), a summary means an ended change
  (`DoneIsEnded`), every membership of a change with a record is backed (`Backed`), and each call knows at its
  step which entry names its change and that the status it has read is still true (`KnownCall`). The lemma that
  carries it, `NamesStep`: an entry that names a change goes on doing so unless a call about that change, or a
  loose one, writes it. From it: `MembershipBacked`, `RetiredChangesDone`; `EpicKept` needs only `Formed`.
  `EpicsAgreeUndisturbed` shows that the history variables blame nobody else: while no two calls are about one
  change, none is about a change without its record (`CallsApart`), and no retirement stops between its two
  writes (`RetirementsFinish`), both properties hold without exception.
* `Tools_proofs`. TaskCheckpoint: finished work is unstaged, in the index or in HEAD; from step to step a call
  knows which of these holds its task's work, until its sha does; commits only add; a copy about to be saved
  is right about every task that is not marked stale (`BridgesKnown`). From it: `DoneWorkCommitted`,
  `CompletionKept`, and `CompletionKeptAlone`: it takes two sessions to reopen what is complete. StoreRepair:
  the file lock is held by whoever moves or restores; under it the file is what the second look found, or away
  with a copy to put back, unless a save without the lock has intruded; before-states are saved before they
  are needed. From it: all three properties. The composition (`ToolsSpec`) lets the steps of all five
  interleave freely, where the run moves one component in each behaviour (`RunIsComposition`): a behaviour is
  one of every component (`ToolsCompose`), hence `ToolsTypeOK` and all promises hold of the tools side by side
  (`ToolsKeepTheirPromises`).

Only model-checked: the liveness `AcquireReturns` (out of the prover's reach; its bound is `CallsAreBounded`) and
the counterexamples of the violated runs, which are behaviours, not theorems.

## 5. Observations

What the code does that a property names as its exception, or that modelling it has shown. None of these
is assumed away in the modules.

* Epics. Linking, moving or unlinking a change that is archived or closed succeeds without writing the change
  (`store-disk.ts:741,778` return null, which `epic.ts:896-901` takes for success): the epic and the bundle then
  disagree, a later retarget takes the entry over while its terminal summary stays, and the epic may retire over
  work that is not done. `promote_shell` puts its membership over one in another epic. A move that stops between the
  child and the source leaves the source's entry, which nothing repairs (`epic.ts`, near 2677, says that the next
  show does). Unlinking on a retired epic clears the child and then fails. The entry of a terminal child is
  backfilled by its entry id in any epic. A retargeted entry keeps its terminal summary; an interrupted
  promotion leaves an entry without status. A retirement that stops between its two writes leaves both
  files: the epic can still be changed (`epics-disk.ts:191-221`), but readers prefer the snapshot (`forked`).
  A save of a change loaded before its closure writes the active file again and the closure is lost.
* Worktrees. Creation and detachment take a lock in the project state directory, deletion one in
  `<git-common-dir>/advance`, so they are not serialised against each other, against
  `git-worktree-flock.ts:4-8`. An aborted deletion returns, its kernel lock given up, while its git process may still
  run. The holder is detached, so after a crash the lock stays held until it ends. A rename back may overwrite a
  fresh lock. A process that lives on after a failed write or release has left a lock file that nobody may
  reclaim; an empty one is never reclaimed even when it dies. A forced plan binds that there was uncommitted work,
  not which; a plan token is good for a worktree made anew at the same head.
* Archive. A replay is looked for on every route; after it the source is removed with no refresh of the
  bundle, which the replay has completed itself. A crash between the bundle's `change.json` and its summary
  makes later archives fail. A crash after `archive_transition` leaves a retry that reports success and
  neither refreshes the bundle nor removes the source. The purge (`handlers-archive.ts:1719`) may delete an
  unshipped change, since a change reads as archived as soon as it has a bundle. A second session that began
  before there was a bundle writes over a terminal one.
* Checkpoint. On a clean tree the HEAD read before the status is recorded. The error bridge writes back the
  whole change as loaded earlier (`store-disk.ts:878,899`), the completions of other tasks included. The
  record does not look at the status again.
* Repair. A restore that stops leaves file and copy, and later runs fail with `active_projection_exists`; two
  copies end in `quarantine_source_ambiguous`. A file that is no JSON or too large is never quarantined by
  reconcile; one that is only invalid can be, as the last action for retired values and for artifact metadata
  (`reconcile-plan.ts:18-22`). A save without the lock may put a sound content back between the second
  diagnosis and the rename, which then takes it away, although `change-projection-quarantine.ts:301` says that
  all writers of active projections use the lock; a rollback or a restore may overwrite it. A run keeps one
  before-file for each record id (`reconcile-apply.ts:538-546`), so a change that is in `changes/` and in
  `archive/` has the later one only. A failed normalisation whose quarantine succeeds has the receipt
  "failed".

## 6. Not modelled, and the plan

1. A passing run of ProjectStore about the pointer beside unlocked publishers; creation of two changes with one
   title; closeBatch and task_cancel, whose batches range over several changes or tasks.
2. Backlog promotion, resumed reconcile runs and their receipts, the state database of pending deletions.
3. Specification deltas and conflict checks of an archive; the conflict loop and rebases of finalization.
4. Pure algorithms as functions against a reference: cycle detection, merge order, phase derivation, the
   lock budget.

Left out for good: rendering, prompts, status views, command-line adapters and the MCP server, which hold
no state of their own; the migration, which one process runs once; `utils/worktree-lease.ts`, which no tool
calls; and the inner workings of git and gh.
