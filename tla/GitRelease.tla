----------------------------- MODULE GitRelease -----------------------------
(***************************************************************************)
(* The git repository and its pull requests, as the finalization of a      *)
(* release reads and moves them (tools/archive-helpers/git-finalize.ts).   *)
(*                                                                         *)
(* A commit of the change branch is its position 1, 2, ...; commit k       *)
(* contains the work of all before it.  The commit of the archive          *)
(* artifacts is the flag "artifacts" and has no position of its own, so    *)
(* the tips before and after it (preArchiveTipSha, changeTipSha) are one.  *)
(* Every question to git or gh may fail and then blocks the finalization;  *)
(* whoever uses the operators below may always block instead.              *)
(***************************************************************************)
EXTENDS Integers, Sequences, FiniteSets

CONSTANTS MaxTip,   \* bound on the commits of the change branch
          MaxPr     \* bound on the pull requests of the change branch

ASSUME GitBounds == MaxTip \in Nat \ {0} /\ MaxPr \in Nat

\* archiveMode "pr", or the classified route of archiveMode "direct".
Routes == {"pr", "direct", "pr_auto_merge", "merge_queue"}
Tips == 1 .. MaxTip
PullRequest == [state : {"open", "merged", "closed"}, head : Tips, artifacts : BOOLEAN]

VARIABLES
  route,      \* how this repository releases; it does not change
  tip,        \* the local change branch
  artifacts,  \* the change branch carries the archive artifacts
  pushed,     \* origin/change/<id>, 0 when it does not exist
  trunk,      \* tips whose tree some commit of origin/<default> has
  merged,     \* latest tip that is an ancestor of origin/<default>
  local,      \* latest tip the local default branch contains
  prs,        \* the pull requests of the branch, oldest first
  worktree    \* the change worktree exists

gitVars == <<route, tip, artifacts, pushed, trunk, merged, local, prs, worktree>>

GitTypeOK ==
  /\ route \in Routes
  /\ tip \in Tips
  /\ artifacts \in BOOLEAN
  /\ pushed \in 0 .. MaxTip
  /\ trunk \subseteq Tips
  /\ merged \in 0 .. MaxTip
  /\ local \in 0 .. MaxTip
  /\ prs \in Seq(PullRequest)
  /\ Len(prs) <= MaxPr
  /\ worktree \in BOOLEAN

GitInit ==
  /\ route \in Routes
  /\ tip = 1
  /\ artifacts = FALSE
  /\ pushed = 0
  /\ trunk = {}
  /\ merged = 0
  /\ local = 0
  /\ prs = <<>>
  /\ worktree = TRUE

\* The work up to commit t is on origin/<default>.
Released(t) == \E k \in trunk : k >= t

Greater(a, b) == IF a > b THEN a ELSE b

-----------------------------------------------------------------------------
\* What others do to the repository.

Commit ==
  /\ worktree /\ tip < MaxTip
  /\ tip' = tip + 1
  /\ UNCHANGED <<route, artifacts, pushed, trunk, merged, local, prs, worktree>>

\* Latest pull request, and the open one, with the branch pushed: its head follows.
HasOpen == prs # <<>> /\ prs[Len(prs)].state = "open"
Synced == IF HasOpen
          THEN [prs EXCEPT ![Len(prs)].head = tip, ![Len(prs)].artifacts = artifacts]
          ELSE prs

OpenPullRequest ==
  /\ ~HasOpen /\ Len(prs) < MaxPr
  /\ pushed' = tip
  /\ prs' = Append(prs, [state |-> "open", head |-> tip, artifacts |-> artifacts])
  /\ UNCHANGED <<route, tip, artifacts, trunk, merged, local, worktree>>

\* With a merge commit the head becomes an ancestor of the trunk, squashed it does not.
MergePullRequest(squash) ==
  /\ HasOpen
  /\ prs' = [prs EXCEPT ![Len(prs)].state = "merged"]
  /\ trunk' = trunk \cup {prs[Len(prs)].head}
  /\ merged' = IF squash THEN merged ELSE Greater(merged, prs[Len(prs)].head)
  /\ UNCHANGED <<route, tip, artifacts, pushed, local, worktree>>

ClosePullRequest ==
  /\ HasOpen
  /\ prs' = [prs EXCEPT ![Len(prs)].state = "closed"]
  /\ UNCHANGED <<route, tip, artifacts, pushed, trunk, merged, local, worktree>>

\* The branch is merged into the default branch of the checkout and not pushed.
MergeLocally ==
  /\ local < tip
  /\ local' = tip
  /\ UNCHANGED <<route, tip, artifacts, pushed, trunk, merged, prs, worktree>>

Repository ==
  \/ Commit
  \/ OpenPullRequest
  \/ \E squash \in BOOLEAN : MergePullRequest(squash)
  \/ ClosePullRequest
  \/ MergeLocally

-----------------------------------------------------------------------------
\* Proofs of a release.  A proof names what it rests on, the tip it really
\* shows to be on the trunk, and the pull request it found.

Proof(kind, shown, pr) == [kind |-> kind, shown |-> shown, pr |-> pr]

Merged == {i \in DOMAIN prs : prs[i].state = "merged"}
LastMerged == CHOOSE i \in Merged : \A j \in Merged : j <= i

\* Bug: any merged pull request of the branch is taken for the exact one.
AnyMerged(t) == Merged

\* Pull requests whose head is exactly t.
HeadedBy(t) == {i \in Merged : prs[i].head = t}

\* verifyDirectMergedPrProof: exactly one merged pull request has the tip as its head.
ExactProofs(t) ==
  IF Cardinality(HeadedBy(t)) = 1
  THEN {Proof("exact", t, i) : i \in HeadedBy(t)}
  ELSE {}

\* readPrMergeState of a number, whatever the head it was merged with.
NumberProofs(n) ==
  IF n \in Merged THEN {Proof("number", prs[n].head, n)} ELSE {}

\* The recorded number, or else the latest merged pull request of the branch.
DiscoveredProofs(n) ==
  IF n # 0 THEN NumberProofs(n)
  ELSE IF Merged # {} THEN NumberProofs(LastMerged) ELSE {}

\* detectSquashMergeByTree.
TreeProofs(t) == IF t \in trunk THEN {Proof("tree", t, 0)} ELSE {}

\* resolveReleaseReachability on a direct route.  The checkout must be level with
\* origin/<default>; then ancestry of the recorded (or the pushed) tip, the exact
\* proof when a pull-request head is on record, a merged number, equal trees.
DirectReachability(v) ==
  LET t == IF v.tip # 0 THEN v.tip ELSE pushed
      loose == IF DiscoveredProofs(v.pr) # {} THEN DiscoveredProofs(v.pr)
               ELSE TreeProofs(IF v.tip # 0 THEN v.tip ELSE tip)
  IN IF local > merged THEN {}
     ELSE IF t # 0 /\ merged >= t THEN {Proof("ancestor", t, 0)}
     ELSE IF v.exact /\ ExactProofs(v.tip) # {}
          THEN {p \in ExactProofs(v.tip) : v.pr \in {0, p.pr}}
     ELSE IF v.exact /\ Merged # {} THEN {}
     ELSE loose

\* ... and on the pull-request routes.
PrReachability(v) ==
  IF v.pr # 0 \/ Merged # {} THEN DiscoveredProofs(v.pr)
  ELSE IF v.tip # 0 THEN TreeProofs(v.tip) ELSE {}

\* verifyReleaseEvidenceFromMain, for the evidence v on record.
EvidenceFromMain(v) ==
  IF route = "direct" /\ v.phase9 # "pending_merge"
  THEN DirectReachability(v)
  ELSE PrReachability(v)

-----------------------------------------------------------------------------
\* Steps of finalizeRelease.

\* commitArchiveArtifacts, in the worktree.
CommitArtifacts ==
  /\ worktree
  /\ artifacts' = TRUE
  /\ UNCHANGED <<route, tip, pushed, trunk, merged, local, prs, worktree>>

\* mergeChangeBranch in a detached worktree of origin/<default>, then pushToOrigin.
MergeAndPush ==
  /\ route = "direct"
  /\ Merged = {}
  /\ local < tip
  /\ trunk' = trunk \cup {tip}
  /\ merged' = tip
  /\ UNCHANGED <<route, tip, artifacts, pushed, local, prs, worktree>>

\* verifyChangeBranchReachable asks the local default branch: a branch it contains
\* is not merged, and the push of an unmoved HEAD succeeds on every route.
NothingToMerge ==
  /\ route # "pr"
  /\ route = "direct" => Merged = {}
  /\ local >= tip

\* Is a merged pull request with exactly this head enough, before anything is pushed?
AlreadyMerged(t) == IF route = "merge_queue" THEN {} ELSE ExactProofs(t)

\* Bug: a pull request is created without looking for one.
HandoffCreates ==
  /\ route # "direct"
  /\ pushed' = tip
  /\ prs' = Append(prs, [state |-> "open", head |-> tip, artifacts |-> artifacts])
  /\ UNCHANGED <<route, tip, artifacts, trunk, merged, local, worktree>>

\* executePullRequestHandoff: push the branch, reuse or create the pull request,
\* arm its auto-merge.  A merged one is reused as it is, a closed one blocks.
Handoff ==
  /\ route # "direct"
  /\ prs # <<>> => prs[Len(prs)].state # "closed"
  /\ prs = <<>> => MaxPr > 0   \* the bound
  /\ pushed' = tip
  /\ prs' = IF prs = <<>>
            THEN <<[state |-> "open", head |-> tip, artifacts |-> artifacts]>>
            ELSE Synced
  /\ UNCHANGED <<route, tip, artifacts, trunk, merged, local, worktree>>
=============================================================================
