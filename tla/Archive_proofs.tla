--------------------------- MODULE Archive_proofs ---------------------------
(***************************************************************************)
(* Archive for every set of sessions, every number of calls, commits and   *)
(* pull requests: what the claims of a release are worth, that a change is *)
(* archived in order and accepted, that a terminal bundle stays and that   *)
(* the source is kept until there is one.                                  *)
(***************************************************************************)
EXTENDS Archive, TLAPS

InCall(s) == pc[s] \notin {"idle", "reenter"}
Claiming == {"release", "armed", "pending", "gate", "transition", "refresh", "cleanup",
             "remove", "replay", "replayed"}
Proved == {"gate", "transition", "refresh", "cleanup", "remove", "replay", "replayed"}

\* What the trunk says of merged tips and pull requests is so.
TrunkHasMerged ==
  /\ merged # 0 => Released(merged)
  /\ \A i \in Merged : prs[i].head \in trunk

\* A call has the change in memory, a mode as long as it writes its bundle, and a claim
\* from the release on.
CallsFormed ==
  \A s \in Sessions :
    /\ InCall(s) => view[s] # None
    /\ pc[s] \in {"bundle", "summary"} => mode[s] \in {"worktree", "main", "skip"}
    /\ pc[s] \in {"bundle", "summary"} /\ mode[s] = "skip" => claim[s] # None
    /\ pc[s] \in Claiming => claim[s] # None

Formed == ArchiveTypeOK /\ CallsFormed

\* Claims are worth their kind once they are proved.
ClaimWorth(s) ==
  /\ pc[s] = "release" => claim[s].aim <= tip
  /\ pc[s] \in {"bundle", "summary"} /\ mode[s] = "skip" => Worth(claim[s])
  /\ pc[s] \in Proved => Worth(claim[s])

ClaimsWorth == \A s \in Sessions : ClaimWorth(s)

\* A completed release gate has had a claim.
GatesClaimed ==
  /\ active # None /\ active.release => released # None
  /\ bundle # None /\ bundle.rec.release => released # None
  /\ \A s \in Sessions : view[s] # None /\ view[s].release => released # None

ReleasedWorth == released # None => Worth(released)

\* Calls go on with a ready change, unless a reentry has come between.
ReadyKept ==
  /\ \/ overtaken
     \/ \A s \in Sessions : InCall(s) => view[s].ready /\ (active # None => active.ready)
  /\ bundle # None => bundle.rec.ready \/ overtaken
  /\ active # None /\ active.lifecycle = "archived" => active.ready \/ overtaken

\* The record is archived, or gone.
SourceArchived == active = None \/ active.lifecycle = "archived"

OrderKept ==
  /\ active # None /\ active.exact => active.lifecycle = "archived"
  /\ \A s \in Sessions :
       /\ view[s] # None /\ (view[s].exact \/ view[s].lifecycle = "archived")
            => SourceArchived
       /\ pc[s] \in {"refresh", "cleanup", "remove", "replay", "replayed"} => SourceArchived

\* Whoever waits for a pull request has it by its number.
HandedByNumber == \A s \in Sessions : pc[s] \in {"armed", "pending"} => claim[s].kind = "number"

\* The bundle that may stand for the change when its source is gone.
GoodBundle ==
  /\ bundle # None /\ bundle.summary
  /\ bundle.rec.lifecycle = "archived" \/ rewritten
  /\ TerminalBundle \/ rewritten \/ overtaken

Safe == purged \/ GoodBundle

SourceKept == /\ active = None => Safe
              /\ \A s \in Sessions : pc[s] \in {"replayed", "cleanup", "remove"} => Safe

\* A bundle is written before a record is archived, and never from an archived one; it
\* has its summary when it is terminal.
BundleKept ==
  /\ active # None /\ active.lifecycle = "archived" => bundle # None
  /\ TerminalBundle => bundle.summary
  /\ \A s \in Sessions :
       /\ pc[s] = "bundle" /\ ~found[s] => view[s].lifecycle = "active"
       /\ InCall(s) /\ ~(pc[s] = "bundle" /\ ~found[s]) => bundle # None \/ active = None

\* The record that a refresh will write is terminal, but for a release gate that a
\* reentry has taken from a call that skips phase 9.
RefreshIsTerminal ==
  \A s \in Sessions :
    /\ pc[s] = "refresh" =>
         /\ view[s].lifecycle = "archived" /\ view[s].phase9 = "done"
         /\ view[s].release \/ (overtaken /\ mode[s] = "skip")
    /\ InCall(s) /\ mode[s] = "skip" => overtaken \/ active = None \/ active.release

ArchiveInv == /\ Formed /\ TrunkHasMerged /\ ClaimsWorth /\ GatesClaimed /\ ReleasedWorth
              /\ ReadyKept /\ OrderKept /\ HandedByNumber /\ SourceKept /\ RefreshIsTerminal
              /\ BundleKept

-----------------------------------------------------------------------------
\* The repository: what others and finalizeRelease do to it.

\* Positions are positions.
LEMMA PullRequests ==
  ASSUME GitTypeOK, TrunkHasMerged, NEW i \in Merged
  PROVE  i \in 1 .. MaxPr /\ prs[i].head \in Tips /\ Released(prs[i].head)
<1>1. i \in DOMAIN prs /\ prs \in Seq(PullRequest) /\ Len(prs) <= MaxPr
  BY DEF Merged, GitTypeOK
<1>2. i \in 1 .. MaxPr /\ prs[i] \in PullRequest
  BY <1>1, GitBounds
<1> QED
  BY <1>2 DEF TrunkHasMerged, PullRequest, Tips, Released

\* The latest pull request is changed in place.
LastBecomes(p) ==
  /\ prs' \in Seq(PullRequest) /\ Len(prs') = Len(prs) /\ DOMAIN prs' = DOMAIN prs
  /\ Len(prs) \in DOMAIN prs /\ prs'[Len(prs)] = p
  /\ \A i \in DOMAIN prs : i # Len(prs) => prs'[i] = prs[i]

LEMMA LastChanged ==
  ASSUME GitTypeOK, prs # <<>>, NEW p \in PullRequest, prs' = [prs EXCEPT ![Len(prs)] = p]
  PROVE  LastBecomes(p)
<1>1. prs \in Seq(PullRequest) /\ Len(prs) \in Nat \ {0} /\ Len(prs) \in DOMAIN prs
  BY DEF GitTypeOK
<1>2. prs' \in Seq(PullRequest) /\ Len(prs') = Len(prs) /\ DOMAIN prs' = DOMAIN prs
  BY <1>1
<1> QED
  BY <1>1, <1>2 DEF LastBecomes

\* A step of the repository: it stays well formed, the trunk only grows and the change
\* branch only moves on.
Advances == GitTypeOK' /\ TrunkHasMerged' /\ trunk \subseteq trunk' /\ tip <= tip'

LEMMA MergeAdvances ==
  ASSUME GitTypeOK, TrunkHasMerged, NEW squash \in BOOLEAN, MergePullRequest(squash)
  PROVE  Advances
<1> DEFINE last == Len(prs)
<1> DEFINE p == [prs[last] EXCEPT !.state = "merged"]
<1>1. prs \in Seq(PullRequest) /\ prs # <<>> /\ prs[last] \in PullRequest
  BY DEF MergePullRequest, HasOpen, GitTypeOK
<1>2. p \in PullRequest /\ p.head = prs[last].head /\ p.head \in Tips
  BY <1>1 DEF PullRequest
<1>3. prs' = [prs EXCEPT ![last] = p]
  BY DEF MergePullRequest
<1>4. LastBecomes(p)
  BY <1>1, <1>2, <1>3, LastChanged
<1>5. trunk' = trunk \cup {p.head} /\ merged' \in {merged, p.head} /\ UNCHANGED tip
  BY <1>2 DEF MergePullRequest, Greater
<1>6. TrunkHasMerged'
  <2>1. merged' # 0 => Released(merged)'
    <3>1. CASE merged' = merged
      BY <1>5, <3>1 DEF TrunkHasMerged, Released
    <3>2. CASE merged' = p.head
      <4>1. p.head \in trunk' /\ p.head \in Int
        BY <1>2, <1>5, GitBounds DEF Tips
      <4> HIDE DEF p
      <4> QED
        BY <3>2, <4>1 DEF Released
    <3> QED
      BY <1>5, <3>1, <3>2
  <2>2. \A i \in Merged' : prs'[i].head \in trunk'
    BY <1>2, <1>4, <1>5 DEF TrunkHasMerged, Merged, LastBecomes
  <2> QED
    BY <2>1, <2>2 DEF TrunkHasMerged
<1>7. GitTypeOK'
  BY <1>2, <1>4, <1>5, GitBounds DEF GitTypeOK, MergePullRequest, LastBecomes, Tips
<1> QED
  BY <1>5, <1>6, <1>7 DEF Advances, GitTypeOK, Tips

LEMMA CloseAdvances ==
  ASSUME GitTypeOK, TrunkHasMerged, ClosePullRequest PROVE Advances
<1> DEFINE last == Len(prs)
<1> DEFINE p == [prs[last] EXCEPT !.state = "closed"]
<1>1. prs \in Seq(PullRequest) /\ prs # <<>> /\ prs[last] \in PullRequest
  BY DEF ClosePullRequest, HasOpen, GitTypeOK
<1>2. p \in PullRequest /\ p.state = "closed"
  BY <1>1 DEF PullRequest
<1>3. prs' = [prs EXCEPT ![last] = p]
  BY DEF ClosePullRequest
<1>4. LastBecomes(p)
  BY <1>1, <1>2, <1>3, LastChanged
<1>5. TrunkHasMerged'
  BY <1>2, <1>4 DEF TrunkHasMerged, Merged, LastBecomes, ClosePullRequest, Released
<1>6. GitTypeOK'
  BY <1>4 DEF GitTypeOK, ClosePullRequest, LastBecomes
<1> QED
  BY <1>5, <1>6 DEF Advances, GitTypeOK, Tips, ClosePullRequest

\* The push of a branch takes the open pull request along.
LEMMA HandoffAdvances ==
  ASSUME GitTypeOK, TrunkHasMerged, Handoff PROVE Advances
<1> DEFINE last == Len(prs)
<1>1. prs \in Seq(PullRequest) /\ tip \in Tips /\ UNCHANGED <<trunk, merged, tip>>
  BY DEF Handoff, GitTypeOK
<1>2. CASE prs = <<>>
  <2> DEFINE p == [state |-> "open", head |-> tip, artifacts |-> artifacts]
  <2>1. prs' = <<p>> /\ p \in PullRequest /\ MaxPr > 0
    BY <1>1, <1>2 DEF Handoff, PullRequest, GitTypeOK
  <2>2. prs' \in Seq(PullRequest) /\ Len(prs') = 1 /\ prs'[1] = p /\ p.state = "open"
    BY <2>1
  <2>3. TrunkHasMerged'
    BY <1>1, <2>2 DEF TrunkHasMerged, Merged, Released
  <2>4. GitTypeOK'
    BY <2>1, <2>2, GitBounds DEF GitTypeOK, Handoff, Tips
  <2> QED
    BY <1>1, <2>3, <2>4 DEF Advances, Tips
<1>3. CASE prs # <<>> /\ ~HasOpen
  <2>1. UNCHANGED prs
    BY <1>3 DEF Handoff, Synced
  <2> QED
    BY <1>1, <2>1, SMTT(30) DEF Advances, GitTypeOK, TrunkHasMerged, Merged, Released, Handoff, Tips
<1>4. CASE HasOpen
  <2> DEFINE p == [prs[last] EXCEPT !.head = tip, !.artifacts = artifacts]
  <2>1. prs # <<>> /\ prs[last] \in PullRequest /\ prs[last].state = "open"
    BY <1>1, <1>4 DEF HasOpen
  <2>2. p \in PullRequest /\ p.state = "open"
    BY <1>1, <2>1 DEF PullRequest, GitTypeOK
  <2>3. prs' = [prs EXCEPT ![last] = p]
    BY <1>4, <2>1 DEF Handoff, Synced
  <2>4. LastBecomes(p)
    BY <2>1, <2>2, <2>3, LastChanged
  <2>5. TrunkHasMerged'
    BY <1>1, <2>2, <2>4 DEF TrunkHasMerged, Merged, LastBecomes, Released
  <2>6. GitTypeOK'
    BY <2>4 DEF GitTypeOK, Handoff, LastBecomes, Tips
  <2> QED
    BY <1>1, <2>5, <2>6 DEF Advances, Tips
<1> QED
  BY <1>2, <1>3, <1>4

LEMMA RepositoryAdvances ==
  ASSUME GitTypeOK, TrunkHasMerged, Repository PROVE Advances
<1> USE GitBounds DEF GitTypeOK, Advances, TrunkHasMerged, Released, Tips, PullRequest, Merged
<1>1. CASE Commit
  BY <1>1 DEF Commit
<1>2. CASE OpenPullRequest
  BY <1>2 DEF OpenPullRequest, HasOpen
<1>3. ASSUME NEW squash \in BOOLEAN, MergePullRequest(squash) PROVE Advances
  BY <1>3, MergeAdvances
<1>4. CASE ClosePullRequest
  BY <1>4, CloseAdvances
<1>5. CASE MergeLocally
  BY <1>5 DEF MergeLocally
<1> QED
  BY <1>1, <1>2, <1>3, <1>4, <1>5 DEF Repository

LEMMA FinalizeAdvances ==
  ASSUME GitTypeOK, TrunkHasMerged, CommitArtifacts \/ MergeAndPush \/ Handoff PROVE Advances
<1> USE GitBounds DEF GitTypeOK, Advances, TrunkHasMerged, Released, Tips, PullRequest, Merged
<1>1. CASE CommitArtifacts
  BY <1>1 DEF CommitArtifacts
<1>2. CASE MergeAndPush
  BY <1>2 DEF MergeAndPush
<1>3. CASE Handoff
  BY <1>3, HandoffAdvances
<1> QED
  BY <1>1, <1>2, <1>3

-----------------------------------------------------------------------------
\* What a proof of a release shows.

\* A proof that is not a local one shows a released tip.
Shows(p) ==
  /\ p.kind \in {"exact", "number", "tree", "ancestor"}
  /\ p.shown \in Tips /\ p.pr \in 0 .. MaxPr /\ Released(p.shown)

LEMMA NumberShows ==
  ASSUME GitTypeOK, TrunkHasMerged, NEW n, NEW p \in NumberProofs(n)
  PROVE  Shows(p) /\ p.kind = "number"
<1>1. n \in Merged /\ p = [kind |-> "number", shown |-> prs[n].head, pr |-> n]
  BY DEF NumberProofs, Proof
<1> QED
  BY <1>1, PullRequests, GitBounds DEF Shows

LEMMA ExactShows ==
  ASSUME GitTypeOK, TrunkHasMerged, NEW t, NEW p \in ExactProofs(t)
  PROVE  Shows(p) /\ p.kind = "exact" /\ p.shown = t
<1>1. PICK i \in HeadedBy(t) : p = [kind |-> "exact", shown |-> t, pr |-> i]
  BY DEF ExactProofs, Proof
<1>2. i \in Merged /\ prs[i].head = t
  BY DEF HeadedBy
<1> QED
  BY <1>1, <1>2, PullRequests, GitBounds DEF Shows

LEMMA TreeShows ==
  ASSUME GitTypeOK, NEW t, NEW p \in TreeProofs(t)
  PROVE  Shows(p) /\ p.kind = "tree"
<1>1. t \in trunk /\ p = [kind |-> "tree", shown |-> t, pr |-> 0]
  BY DEF TreeProofs, Proof
<1> QED
  BY <1>1, GitBounds DEF Shows, Released, GitTypeOK, Tips

LEMMA DiscoveredShows ==
  ASSUME GitTypeOK, TrunkHasMerged, NEW n, NEW p \in DiscoveredProofs(n)
  PROVE  Shows(p) /\ p.kind = "number"
BY NumberShows DEF DiscoveredProofs

\* Ancestry of a tip that the merged one reaches.
LEMMA AncestorShows ==
  ASSUME GitTypeOK, TrunkHasMerged, NEW t \in 0 .. MaxTip, t # 0, merged >= t
  PROVE  Shows(Proof("ancestor", t, 0))
<1>1. merged \in Nat /\ trunk \subseteq Nat /\ t \in Tips /\ merged # 0
  BY GitBounds DEF GitTypeOK, Tips
<1>2. PICK k \in trunk : k >= merged
  BY <1>1 DEF TrunkHasMerged, Released
<1>3. Released(t)
  BY <1>1, <1>2 DEF Released
<1> QED
  BY <1>1, <1>3, GitBounds DEF Shows, Proof

\* verifyReleaseEvidenceFromMain proves something of a released tip, and an exact proof
\* is of the tip on record.
LEMMA EvidenceShows ==
  ASSUME GitTypeOK, TrunkHasMerged, NEW r \in Record, NEW p \in EvidenceFromMain(r)
  PROVE  Shows(p) /\ (p.kind = "exact" => p.shown = r.tip)
<1>1. CASE p \in PrReachability(r)
  BY <1>1, DiscoveredShows, TreeShows DEF PrReachability
<1>2. CASE p \in DirectReachability(r)
  <2> DEFINE t == IF r.tip # 0 THEN r.tip ELSE pushed
  <2>1. t \in 0 .. MaxTip
    BY DEF Record, GitTypeOK
  <2>2. CASE t # 0 /\ merged >= t /\ p = Proof("ancestor", t, 0)
    BY <2>1, <2>2, AncestorShows DEF Proof
  <2>3. CASE p \in ExactProofs(r.tip)
    BY <2>3, ExactShows
  <2>4. CASE \E n : p \in DiscoveredProofs(n)
    BY <2>4, DiscoveredShows
  <2>5. CASE \E n : p \in TreeProofs(n)
    BY <2>5, TreeShows
  <2> QED
    BY <1>2, <2>2, <2>3, <2>4, <2>5 DEF DirectReachability
<1> QED
  BY <1>1, <1>2 DEF EvidenceFromMain

\* A claim from main is a claim, worth its kind, of the tip of the branch.
LEMMA MainClaimsWorth ==
  ASSUME GitTypeOK, TrunkHasMerged, NEW r \in Record, NEW c \in MainClaims(r)
  PROVE  c \in Claim /\ Worth(c) /\ c # None
<1>1. PICK p \in EvidenceFromMain(r) :
        c = [kind |-> p.kind, shown |-> p.shown, pr |-> p.pr, aim |-> tip, tip |-> r.tip]
  BY DEF MainClaims, Claimed
<1>2. Shows(p) /\ (p.kind = "exact" => p.shown = r.tip)
  BY EvidenceShows
<1>3. tip \in Tips /\ r.tip \in 0 .. MaxTip /\ p.shown \in 0 .. MaxTip
  BY <1>2, GitBounds DEF GitTypeOK, Record, Shows, Tips
<1>4. c \in Claim
  BY <1>1, <1>2, <1>3 DEF Claim, Shows
<1> QED
  BY <1>1, <1>2, <1>4, NoneIsNoFile DEF Worth, Shows

\* A claim of a replay is one too, and rests on an exact proof of a change that names one.
LEMMA ReplayClaimsWorth ==
  ASSUME GitTypeOK, TrunkHasMerged, NEW r \in Record, NEW c \in ReplayClaims(r)
  PROVE  /\ c \in Claim /\ Worth(c) /\ c # None
         /\ c.aim = tip /\ c.kind # "local"
         /\ bundle # None /\ r.exact
<1>1. PICK p \in ExactProofs(r.tip) :
        /\ c = [kind |-> p.kind, shown |-> p.shown, pr |-> p.pr, aim |-> tip, tip |-> r.tip]
        /\ bundle # None /\ r.exact
  BY DEF ReplayClaims, Claimed
<1>2. Shows(p) /\ p.kind = "exact" /\ p.shown = r.tip
  BY ExactShows
<1>3. tip \in Tips /\ r.tip \in 0 .. MaxTip /\ p.shown \in 0 .. MaxTip
  BY <1>2, GitBounds DEF GitTypeOK, Record, Shows, Tips
<1>4. c \in Claim
  BY <1>1, <1>2, <1>3 DEF Claim, Shows
<1> QED
  BY <1>1, <1>2, <1>4, NoneIsNoFile DEF Worth, Shows

\* The trunk grows: what a claim is worth it stays.
LEMMA WorthStays ==
  ASSUME NEW c \in Claim, Worth(c), trunk \subseteq trunk'
  PROVE  Worth(c)'
BY DEF Worth, Released, Claim

-----------------------------------------------------------------------------
\* Records.

LEMMA RecordedFacts ==
  ASSUME NEW r \in Record, NEW c \in Claim,
         NEW phase9 \in {"none", "pending_merge", "failed", "done"}
  PROVE  /\ Recorded(r, c, phase9) \in Record
         /\ Recorded(r, c, phase9).lifecycle = r.lifecycle
         /\ Recorded(r, c, phase9).ready = r.ready
         /\ Recorded(r, c, phase9).release = r.release
         /\ Recorded(r, c, phase9).phase9 = phase9
         /\ Recorded(r, c, phase9).exact => r.exact \/ c.kind = "exact"
BY DEF Recorded, Record, Claim

\* The bundle as the recovery of a claim leaves it is terminal.
LEMMA RecoveredFacts ==
  ASSUME bundle \in Bundle, NEW c \in Claim
  PROVE  /\ Recovered(c) \in Bundle /\ Recovered(c).summary
         /\ Terminal(Recovered(c).rec)
         /\ Recovered(c).rec.ready = bundle.rec.ready
<1>1. bundle.rec \in Record
  BY DEF Bundle
<1> DEFINE r == Recorded(bundle.rec, c, "done")
<1>2. r \in Record /\ r.ready = bundle.rec.ready /\ r.phase9 = "done"
  BY <1>1, RecordedFacts
<1> HIDE DEF r
<1>3. /\ [r EXCEPT !.lifecycle = "archived", !.release = TRUE] \in Record
      /\ Terminal([r EXCEPT !.lifecycle = "archived", !.release = TRUE])
      /\ [r EXCEPT !.lifecycle = "archived", !.release = TRUE].ready = r.ready
  BY <1>2 DEF Record, Terminal
<1> QED
  BY <1>1, <1>2, <1>3 DEF Recovered, Bundle, r

\* A claim that rests on a proof.
LEMMA ClaimedFacts ==
  ASSUME GitTypeOK, NEW aim \in Tips, NEW recorded \in 0 .. MaxTip,
         NEW kind \in {"pushed", "local", "exact", "number", "tree", "ancestor"},
         NEW shown \in 0 .. MaxTip, NEW pr \in 0 .. MaxPr
  PROVE  /\ Claimed(Proof(kind, shown, pr), aim, recorded) \in Claim
         /\ Claimed(Proof(kind, shown, pr), aim, recorded).aim = aim
         /\ Claimed(Proof(kind, shown, pr), aim, recorded).kind = kind
BY DEF Claimed, Proof, Claim

LEMMA TipFacts ==
  ASSUME GitTypeOK PROVE tip \in Tips /\ tip \in 0 .. MaxTip /\ 0 \in 0 .. MaxTip /\ 0 \in 0 .. MaxPr
BY GitBounds DEF GitTypeOK, Tips

\* The claim of a session now rests on another proof.
LEMMA RestsFacts ==
  ASSUME ArchiveTypeOK, NEW s \in Sessions, claim[s] # None,
         NEW p, Rests(s, p),
         p.kind \in {"pushed", "local", "exact", "number", "tree", "ancestor"},
         p.shown \in 0 .. MaxTip, p.pr \in 0 .. MaxPr
  PROVE  /\ claim' \in [Sessions -> Claim \cup {None}]
         /\ claim'[s] \in Claim /\ claim'[s] # None
         /\ claim'[s].kind = p.kind /\ claim'[s].shown = p.shown
         /\ claim'[s].aim = claim[s].aim /\ claim'[s].tip = claim[s].aim
         /\ \A other \in Sessions \ {s} : claim'[other] = claim[other]
<1> DEFINE c == Claimed(p, claim[s].aim, claim[s].aim)
<1>1. claim[s] \in Claim /\ claim \in [Sessions -> Claim \cup {None}]
  BY DEF ArchiveTypeOK
<1>2. claim[s].aim \in Tips /\ claim[s].aim \in 0 .. MaxTip
  BY <1>1, GitBounds DEF Claim, Tips
<1>3. c = [kind |-> p.kind, shown |-> p.shown, pr |-> p.pr, aim |-> claim[s].aim,
           tip |-> claim[s].aim]
  BY DEF Claimed
<1>4. c \in Claim /\ c # None
  BY <1>2, <1>3, NoneIsNoFile DEF Claim
<1>5. claim' = [claim EXCEPT ![s] = c]
  BY DEF Rests
<1> HIDE DEF c
<1> QED
  BY <1>1, <1>3, <1>4, <1>5

\* The change as a call loads it.
LEMMA LoadedFacts ==
  ASSUME active \in Record \cup {None}, bundle \in Bundle \cup {None}, Found
  PROVE  Loaded \in Record /\ Loaded # None
BY NoneIsNoFile DEF Found, Loaded, Bundle

-----------------------------------------------------------------------------
\* Calls and files stay well formed.

\* Apart from the flags, which are formulas.
FilesTyped ==
  /\ active \in Record \cup {None} /\ bundle \in Bundle \cup {None}
  /\ pc \in [Sessions -> Places] /\ mode \in [Sessions -> Modes \cup {None}]
  /\ view \in [Sessions -> Record \cup {None}]
  /\ found \in [Sessions -> BOOLEAN]
  /\ claim \in [Sessions -> Claim \cup {None}]
  /\ calls \in 0 .. MaxCalls
  /\ released \in Claim \cup {None}

LEMMA FilesStep ==
  ASSUME Formed, TrunkHasMerged, [Next]_vars PROVE FilesTyped'
<1> USE CallBound DEF Formed, FilesTyped, ArchiveTypeOK, CallsFormed, InCall, Claiming, Places,
        Modes
<1>1. ASSUME NEW s \in Sessions, NEW m \in {"worktree", "main", "skip"}, Preflight(s, m)
    PROVE FilesTyped'
  <2>1. Loaded \in Record
    BY <1>1, LoadedFacts DEF Preflight, ArchiveAllowed
  <2>2. ReplayClaims(Loaded) \subseteq Claim /\ MainClaims(Loaded) \subseteq Claim
    BY <2>1, MainClaimsWorth, ReplayClaimsWorth
  <2>3. claim' \in [Sessions -> Claim \cup {None}]
    BY <1>1, <2>2 DEF Preflight
  <2>4. pc' \in [Sessions -> Places]
    BY <1>1 DEF Preflight, Goto
  <2>5. mode' \in [Sessions -> Modes \cup {None}]
    BY <1>1 DEF Preflight
  <2> QED
    BY <1>1, <2>1, <2>2, <2>3, <2>4, <2>5 DEF Preflight, Goto, callVars, history, gitVars
<1>2. ASSUME NEW s \in Sessions, ReuseBundle(s) PROVE FilesTyped'
  BY <1>2 DEF ReuseBundle, Goto, callVars, history, gitVars, AfterBundle
<1>3. ASSUME NEW s \in Sessions, WriteBundle(s) PROVE FilesTyped'
  <2>1. bundle' \in Bundle
    BY <1>3 DEF WriteBundle, Bundle
  <2> QED
    BY <1>3, <2>1 DEF WriteBundle, Goto, callVars, history, gitVars, AfterBundle
<1>4. ASSUME NEW s \in Sessions, WriteSummary(s) PROVE FilesTyped'
  <2>1. bundle' \in Bundle \cup {None}
    BY <1>4 DEF WriteSummary, Bundle
  <2>2. AfterBundle(s) \in Places
    BY <1>4 DEF WriteSummary, AfterBundle
  <2> QED
    BY <1>4, <2>1, <2>2 DEF WriteSummary, Goto, callVars, history, gitVars
<1>5. ASSUME NEW s \in Sessions, CommitStep(s) PROVE FilesTyped'
  <2>1. Claimed(Proof("local", 0, 0), tip, tip) \in Claim
    BY TipFacts, ClaimedFacts, GitBounds DEF Tips
  <2> QED
    BY <1>5, <2>1 DEF CommitStep, Goto, callVars, history, gitVars
<1>6. ASSUME NEW s \in Sessions, ShipMerged(s) PROVE FilesTyped'
  <2>1. claim' \in [Sessions -> Claim \cup {None}]
    BY <1>6, ExactShows, RestsFacts DEF ShipMerged, AlreadyMerged, Shows, Tips
  <2> QED
    BY <1>6, <2>1 DEF ShipMerged, Goto, callVars, history, gitVars
<1>7. ASSUME NEW s \in Sessions, ShipPushed(s) PROVE FilesTyped'
  <2>1. claim' \in [Sessions -> Claim \cup {None}]
    BY <1>7, TipFacts, RestsFacts, GitBounds DEF ShipPushed, Proof
  <2> QED
    BY <1>7, <2>1 DEF ShipPushed, Goto, callVars, history, gitVars
<1>8. ASSUME NEW s \in Sessions, ShipLocal(s) PROVE FilesTyped'
  <2>1. claim' \in [Sessions -> Claim \cup {None}]
    BY <1>8, TipFacts, RestsFacts, GitBounds DEF ShipLocal, Proof
  <2> QED
    BY <1>8, <2>1 DEF ShipLocal, Goto, callVars, history, gitVars
<1>9. ASSUME NEW s \in Sessions, HandoffStep(s) PROVE FilesTyped'
  <2>1. Len(prs') \in 0 .. MaxPr
    BY <1>9, HandoffAdvances DEF HandoffStep, Advances, GitTypeOK
  <2>2. claim' \in [Sessions -> Claim \cup {None}]
    BY <1>9, <2>1, TipFacts, RestsFacts DEF HandoffStep, Proof
  <2> QED
    BY <1>9, <2>1, <2>2 DEF HandoffStep, Goto, callVars, history, gitVars
<1>10. ASSUME NEW s \in Sessions, Handed(s) PROVE FilesTyped'
  <2>1. claim' \in [Sessions -> Claim \cup {None}]
    BY <1>10, NumberShows, RestsFacts DEF Handed, Shows, Tips
  <2> QED
    BY <1>10, <2>1 DEF Handed, Goto, callVars, history, gitVars
<1>11. ASSUME NEW s \in Sessions, RecordPending(s) PROVE FilesTyped'
  <2>1. active # None => [active EXCEPT !.exact = view[s].exact] \in Record
    BY <1>11 DEF RecordPending, Record
  <2>2. active' \in Record \cup {None}
    BY <1>11, <2>1, RecordedFacts DEF RecordPending
  <2> QED
    BY <1>11, <2>1, <2>2 DEF RecordPending, Goto, Ends, callVars, history, gitVars
<1>12. ASSUME NEW s \in Sessions, RecordFailed(s) PROVE FilesTyped'
  <2>1. active' \in Record
    BY <1>12 DEF RecordFailed, Record
  <2> QED
    BY <1>12, <2>1 DEF RecordFailed, Goto, Ends, callVars, history, gitVars
<1>13. ASSUME NEW s \in Sessions, ProveFromMain(s) PROVE FilesTyped'
  <2>1. MainClaims(view[s]) \subseteq Claim
    BY <1>13, MainClaimsWorth DEF ProveFromMain
  <2> QED
    BY <1>13, <2>1 DEF ProveFromMain, Goto, callVars, history, gitVars
<1>14. ASSUME NEW s \in Sessions, CompleteGate(s) PROVE FilesTyped'
  <2>1. active' \in Record
    BY <1>14 DEF CompleteGate, Record
  <2> QED
    BY <1>14, <2>1 DEF CompleteGate, Goto, Ends, callVars, history, gitVars
<1>15. ASSUME NEW s \in Sessions, CompleteBundle(s) PROVE FilesTyped'
  <2>1. bundle' \in Bundle
    BY <1>15, RecoveredFacts DEF CompleteBundle
  <2> QED
    BY <1>15, <2>1 DEF CompleteBundle, Goto, Ends, callVars, history, gitVars
<1>16. ASSUME NEW s \in Sessions, Replay(s) PROVE FilesTyped'
  <2>1. bundle' \in Bundle
    BY <1>16, RecoveredFacts DEF Replay
  <2> QED
    BY <1>16, <2>1 DEF Replay, Goto, Ends, callVars, history, gitVars
<1>17. ASSUME NEW s \in Sessions, Transition(s) PROVE FilesTyped'
  <2>1. Recorded(active, claim[s], "done") \in Record
    BY <1>17, RecordedFacts DEF Transition
  <2>2. active' \in Record
    BY <1>17, <2>1 DEF Transition, Record
  <2> QED
    BY <1>17, <2>1, <2>2 DEF Transition, Goto, callVars, history, gitVars
<1>18. ASSUME NEW s \in Sessions, RefreshBundle(s) PROVE FilesTyped'
  <2>1. bundle' \in Bundle
    BY <1>18 DEF RefreshBundle, Bundle
  <2> QED
    BY <1>18, <2>1 DEF RefreshBundle, Goto, callVars, history, gitVars
<1>19. ASSUME NEW s \in Sessions, Cleanup(s) PROVE FilesTyped'
  BY <1>19 DEF Cleanup, Goto, callVars, history, gitVars
<1>20. ASSUME NEW s \in Sessions, RemoveSource(s) PROVE FilesTyped'
  BY <1>20 DEF RemoveSource, Goto, Ends, callVars, history, gitVars
<1>21. ASSUME NEW s \in Sessions, Stop(s) PROVE FilesTyped'
  BY <1>21 DEF Stop, Goto, Ends, callVars, history, gitVars
<1>22. ASSUME NEW s \in Sessions, JudgeReenter(s) PROVE FilesTyped'
  BY <1>22 DEF JudgeReenter, Goto, callVars, history, gitVars
<1>23. ASSUME NEW s \in Sessions, Reenter(s) PROVE FilesTyped'
  <2>1. active' \in Record
    BY <1>23 DEF Reenter, Record
  <2> QED
    BY <1>23, <2>1 DEF Reenter, Goto, Ends, callVars, history, gitVars
<1>24. ASSUME Repository, UNCHANGED archiveVars PROVE FilesTyped'
  BY <1>24 DEF archiveVars, callVars, history, gitVars
<1>25. ASSUME BecomeReady PROVE FilesTyped'
  <2>1. active' \in Record
    BY <1>25 DEF BecomeReady, Record
  <2> QED
    BY <1>25, <2>1 DEF BecomeReady, callVars, history, gitVars
<1>26. ASSUME Purge PROVE FilesTyped'
  BY <1>26 DEF Purge, callVars, history, gitVars
<1>27. ASSUME UNCHANGED vars PROVE FilesTyped'
  BY <1>27 DEF vars, archiveVars, callVars, history, gitVars
<1> QED
  BY <1>1, <1>2, <1>3, <1>4, <1>5, <1>6, <1>7, <1>8, <1>9, <1>10, <1>11, <1>12, <1>13,
     <1>14, <1>15, <1>16, <1>17, <1>18, <1>19, <1>20, <1>21, <1>22, <1>23, <1>24, <1>25,
     <1>26, <1>27
     DEF Next, Call

\* Only finalization and others move the repository.
LEMMA GitStep ==
  ASSUME Formed, TrunkHasMerged, [Next]_vars PROVE Advances
<1> USE DEF Formed, ArchiveTypeOK
<1>1. CASE CommitArtifacts \/ MergeAndPush \/ Handoff
  BY <1>1, FinalizeAdvances
<1>2. CASE Repository
  BY <1>2, RepositoryAdvances
<1>3. CASE UNCHANGED gitVars
  BY <1>3 DEF Advances, gitVars, GitTypeOK, TrunkHasMerged, Merged, Released, Tips
<1>4. ASSUME NEW s \in Sessions, Cleanup(s) PROVE Advances
  <2>1. worktree' \in BOOLEAN
    BY <1>4, Zenon DEF Cleanup, GitTypeOK
  <2> QED
    BY <1>4, <2>1 DEF Cleanup, Advances, GitTypeOK, TrunkHasMerged, Merged, Released, Tips
<1>5. ASSUME NEW s \in Sessions, Call(s)
      PROVE  Cleanup(s) \/ CommitArtifacts \/ MergeAndPush \/ Handoff \/ UNCHANGED gitVars
  BY <1>5 DEF Call, Preflight, ReuseBundle, WriteBundle, WriteSummary, CommitStep, ShipMerged,
       ShipPushed, ShipLocal, HandoffStep, Handed, RecordPending, RecordFailed, ProveFromMain,
       CompleteGate, CompleteBundle, Replay, Transition, RefreshBundle, RemoveSource, Stop,
       JudgeReenter, Reenter
<1> QED
  BY <1>1, <1>2, <1>3, <1>4, <1>5 DEF Next, BecomeReady, Purge, vars

\* The histories are formulas.
LEMMA FlagsStep ==
  ASSUME ArchiveTypeOK, [Next]_vars PROVE {overtaken', rewritten', purged'} \subseteq BOOLEAN
<1>1. {overtaken, rewritten, purged} \subseteq BOOLEAN
  BY DEF ArchiveTypeOK
<1>2. ASSUME NEW s \in Sessions, Call(s)
      PROVE  WriteBundle(s) \/ Reenter(s) \/ UNCHANGED <<overtaken, rewritten, purged>>
  BY <1>2 DEF Call, Preflight, ReuseBundle, WriteSummary, CommitStep, ShipMerged,
       ShipPushed, ShipLocal, HandoffStep, Handed, RecordPending, RecordFailed, ProveFromMain,
       CompleteGate, CompleteBundle, Replay, Transition, RefreshBundle, Cleanup, RemoveSource,
       Stop, JudgeReenter, history
<1>3. ASSUME NEW s \in Sessions, WriteBundle(s) PROVE {overtaken', rewritten', purged'} \subseteq BOOLEAN
  BY <1>1, <1>3, Zenon DEF WriteBundle
<1>4. ASSUME NEW s \in Sessions, Reenter(s) PROVE {overtaken', rewritten', purged'} \subseteq BOOLEAN
  BY <1>1, <1>4, Zenon DEF Reenter
<1>5. CASE UNCHANGED <<overtaken, rewritten, purged>>
  BY <1>1, <1>5
<1>6. ASSUME Purge PROVE {overtaken', rewritten', purged'} \subseteq BOOLEAN
  BY <1>1, <1>6 DEF Purge
<1> QED
  BY <1>2, <1>3, <1>4, <1>5, <1>6 DEF Next, BecomeReady, vars, archiveVars, history

\* What the transition makes of the record.
LEMMA TransitionFacts ==
  ASSUME Formed, NEW s \in Sessions, Transition(s)
  PROVE  /\ active # None /\ active' \in Record /\ active' # None
         /\ active'.lifecycle = "archived" /\ active'.phase9 = "done"
         /\ active'.ready = active.ready
         /\ active.release \/ mode[s] # "skip" \/ pc[s] = "replayed" => active'.release
         /\ active'.release => active.release \/ mode[s] # "skip" \/ pc[s] = "replayed"
<1> DEFINE r == Recorded(active, claim[s], "done")
           completes == mode[s] # "skip" \/ pc[s] = "replayed"
<1>1. active \in Record /\ claim[s] \in Claim /\ active # None
  BY DEF Formed, ArchiveTypeOK, CallsFormed, Claiming, Transition
<1>2. /\ r \in Record /\ r.ready = active.ready /\ r.release = active.release
      /\ r.phase9 = "done"
  BY <1>1, RecordedFacts
<1>3. active' = [r EXCEPT !.lifecycle = "archived", !.release = @ \/ completes]
  BY DEF Transition
<1> HIDE DEF r
<1>4. /\ active' \in Record /\ active'.lifecycle = "archived" /\ active'.ready = r.ready
      /\ active'.phase9 = r.phase9 /\ active'.release = (r.release \/ completes)
  BY <1>2, <1>3 DEF Record
<1> QED
  BY <1>1, <1>2, <1>4, NoneIsNoFile

LEMMA CallsStep ==
  ASSUME Formed, TrunkHasMerged, [Next]_vars PROVE CallsFormed'
<1> USE DEF Formed, ArchiveTypeOK, CallsFormed, InCall, Claiming
<1>1. ASSUME NEW s \in Sessions, NEW m \in {"worktree", "main", "skip"}, Preflight(s, m)
    PROVE CallsFormed'
  <2>1. Loaded \in Record /\ Loaded # None
    BY <1>1, LoadedFacts DEF Preflight, ArchiveAllowed
  <2>2. \A c \in MainClaims(Loaded) \cup ReplayClaims(Loaded) : c # None
    BY <2>1, MainClaimsWorth, ReplayClaimsWorth
  <2>4. pc'[s] = "replay" \/ mode'[s] = "skip" => claim'[s] # None
    BY <1>1, <2>2 DEF Preflight, Goto
  <2>5. /\ view'[s] # None
        /\ pc'[s] \in {"replay", "main", "bundle"}
        /\ pc'[s] = "bundle" => mode'[s] = m
    BY <1>1, <2>1 DEF Preflight, Goto
  <2>6. \A other \in Sessions \ {s} :
           /\ pc'[other] = pc[other] /\ view'[other] = view[other]
           /\ mode'[other] = mode[other] /\ claim'[other] = claim[other]
    BY <1>1 DEF Preflight, Goto
  <2>7. ASSUME NEW u \in Sessions, u # s
        PROVE  /\ InCall(u)' => view'[u] # None
               /\ pc'[u] \in {"bundle", "summary"} => mode'[u] \in {"worktree", "main", "skip"}
               /\ pc'[u] \in {"bundle", "summary"} /\ mode'[u] = "skip" => claim'[u] # None
               /\ pc'[u] \in Claiming => claim'[u] # None
    BY <2>6, <2>7
  <2>8. m \in {"worktree", "main", "skip"}
    BY <1>1
  <2>9. /\ InCall(s)' => view'[s] # None
        /\ pc'[s] \in {"bundle", "summary"} => mode'[s] \in {"worktree", "main", "skip"}
        /\ pc'[s] \in {"bundle", "summary"} /\ mode'[s] = "skip" => claim'[s] # None
        /\ pc'[s] \in Claiming => claim'[s] # None
    BY <2>4, <2>5, <2>8
  <2> HIDE DEF InCall, Claiming
  <2> QED
    BY <2>7, <2>9
<1>2. ASSUME NEW s \in Sessions, ReuseBundle(s) PROVE CallsFormed'
  BY <1>2 DEF ReuseBundle, Goto, callVars, history, gitVars, AfterBundle
<1>3. ASSUME NEW s \in Sessions, WriteBundle(s) PROVE CallsFormed'
  BY <1>3 DEF WriteBundle, Goto, callVars, history, gitVars
<1>4. ASSUME NEW s \in Sessions, WriteSummary(s) PROVE CallsFormed'
  BY <1>4 DEF WriteSummary, Goto, callVars, history, gitVars, AfterBundle
<1>5. ASSUME NEW s \in Sessions, CommitStep(s) PROVE CallsFormed'
  <2>1. Claimed(Proof("local", 0, 0), tip, tip) # None
    BY TipFacts, ClaimedFacts, GitBounds, NoneIsNoFile DEF Tips
  <2> QED
    BY <1>5, <2>1 DEF CommitStep, Goto, callVars, history, gitVars
<1>6. ASSUME NEW s \in Sessions, ShipMerged(s) PROVE CallsFormed'
  <2>1. /\ claim'[s] # None
        /\ \A other \in Sessions \ {s} : claim'[other] = claim[other]
    BY <1>6, ExactShows, RestsFacts DEF ShipMerged, AlreadyMerged, Shows, Tips
  <2> QED
    BY <1>6, <2>1 DEF ShipMerged, Goto, callVars, history, gitVars
<1>7. ASSUME NEW s \in Sessions, ShipPushed(s) PROVE CallsFormed'
  <2>1. /\ claim'[s] # None
        /\ \A other \in Sessions \ {s} : claim'[other] = claim[other]
    BY <1>7, TipFacts, RestsFacts, GitBounds DEF ShipPushed, Proof
  <2> QED
    BY <1>7, <2>1 DEF ShipPushed, Goto, callVars, history, gitVars
<1>8. ASSUME NEW s \in Sessions, ShipLocal(s) PROVE CallsFormed'
  <2>1. /\ claim'[s] # None
        /\ \A other \in Sessions \ {s} : claim'[other] = claim[other]
    BY <1>8, TipFacts, RestsFacts, GitBounds DEF ShipLocal, Proof
  <2> QED
    BY <1>8, <2>1 DEF ShipLocal, Goto, callVars, history, gitVars
<1>9. ASSUME NEW s \in Sessions, HandoffStep(s) PROVE CallsFormed'
  <2>1. Len(prs') \in 0 .. MaxPr
    BY <1>9, HandoffAdvances DEF HandoffStep, Advances, GitTypeOK
  <2>2. /\ claim'[s] # None
        /\ \A other \in Sessions \ {s} : claim'[other] = claim[other]
    BY <1>9, <2>1, TipFacts, RestsFacts DEF HandoffStep, Proof
  <2> QED
    BY <1>9, <2>1, <2>2 DEF HandoffStep, Goto, callVars, history, gitVars
<1>10. ASSUME NEW s \in Sessions, Handed(s) PROVE CallsFormed'
  <2>1. UNCHANGED claim \/ (/\ claim'[s] # None
        /\ \A other \in Sessions \ {s} : claim'[other] = claim[other])
    BY <1>10, NumberShows, RestsFacts DEF Handed, Shows, Tips
  <2> QED
    BY <1>10, <2>1 DEF Handed, Goto, callVars, history, gitVars
<1>11. ASSUME NEW s \in Sessions, RecordPending(s) PROVE CallsFormed'
  BY <1>11 DEF RecordPending, Goto, Ends, callVars, history, gitVars
<1>12. ASSUME NEW s \in Sessions, RecordFailed(s) PROVE CallsFormed'
  BY <1>12 DEF RecordFailed, Goto, Ends, callVars, history, gitVars
<1>13. ASSUME NEW s \in Sessions, ProveFromMain(s) PROVE CallsFormed'
  <2>1. \A c \in MainClaims(view[s]) : c # None
    BY <1>13, MainClaimsWorth DEF ProveFromMain
  <2> QED
    BY <1>13, <2>1 DEF ProveFromMain, Goto, callVars, history, gitVars
<1>14. ASSUME NEW s \in Sessions, CompleteGate(s) PROVE CallsFormed'
  BY <1>14 DEF CompleteGate, Goto, Ends, callVars, history, gitVars
<1>15. ASSUME NEW s \in Sessions, CompleteBundle(s) PROVE CallsFormed'
  BY <1>15 DEF CompleteBundle, Goto, Ends, callVars, history, gitVars
<1>16. ASSUME NEW s \in Sessions, Replay(s) PROVE CallsFormed'
  BY <1>16 DEF Replay, Goto, Ends, callVars, history, gitVars
<1>17. ASSUME NEW s \in Sessions, Transition(s) PROVE CallsFormed'
  <2>1. active' \in Record /\ active' # None
    BY <1>17, TransitionFacts
  <2>2. view'[s] = active' /\ \A other \in Sessions \ {s} : view'[other] = view[other]
    BY <1>17 DEF Transition
  <2>3. pc'[s] \in {"refresh", "cleanup"} /\ (\A other \in Sessions \ {s} : pc'[other] = pc[other])
    BY <1>17 DEF Transition, Goto
  <2>4. UNCHANGED <<mode, claim>> /\ pc[s] \in {"transition", "replayed"}
    BY <1>17 DEF Transition
  <2> QED
    BY <2>1, <2>2, <2>3, <2>4
<1>18. ASSUME NEW s \in Sessions, RefreshBundle(s) PROVE CallsFormed'
  BY <1>18 DEF RefreshBundle, Goto, callVars, history, gitVars
<1>19. ASSUME NEW s \in Sessions, Cleanup(s) PROVE CallsFormed'
  BY <1>19 DEF Cleanup, Goto, callVars, history, gitVars
<1>20. ASSUME NEW s \in Sessions, RemoveSource(s) PROVE CallsFormed'
  BY <1>20 DEF RemoveSource, Goto, Ends, callVars, history, gitVars
<1>21. ASSUME NEW s \in Sessions, Stop(s) PROVE CallsFormed'
  BY <1>21 DEF Stop, Goto, Ends, callVars, history, gitVars
<1>22. ASSUME NEW s \in Sessions, JudgeReenter(s) PROVE CallsFormed'
  BY <1>22 DEF JudgeReenter, Goto, callVars, history, gitVars
<1>23. ASSUME NEW s \in Sessions, Reenter(s) PROVE CallsFormed'
  BY <1>23 DEF Reenter, Goto, Ends, callVars, history, gitVars
<1>24. ASSUME Repository, UNCHANGED archiveVars PROVE CallsFormed'
  BY <1>24 DEF archiveVars, callVars, history, gitVars
<1>25. ASSUME BecomeReady PROVE CallsFormed'
  BY <1>25 DEF BecomeReady, callVars, history, gitVars
<1>26. ASSUME Purge PROVE CallsFormed'
  BY <1>26 DEF Purge, callVars, history, gitVars
<1>27. ASSUME UNCHANGED vars PROVE CallsFormed'
  BY <1>27 DEF vars, archiveVars, callVars, history, gitVars
<1> QED
  BY <1>1, <1>2, <1>3, <1>4, <1>5, <1>6, <1>7, <1>8, <1>9, <1>10, <1>11, <1>12, <1>13,
     <1>14, <1>15, <1>16, <1>17, <1>18, <1>19, <1>20, <1>21, <1>22, <1>23, <1>24, <1>25,
     <1>26, <1>27
     DEF Next, Call

LEMMA FormedStep ==
  ASSUME Formed, TrunkHasMerged, [Next]_vars PROVE Formed'
<1>1. GitTypeOK' /\ FilesTyped' /\ CallsFormed'
  BY GitStep, FilesStep, CallsStep DEF Advances
<1>2. {overtaken', rewritten', purged'} \subseteq BOOLEAN
  BY FlagsStep DEF Formed
<1> QED
  BY <1>1, <1>2 DEF Formed, ArchiveTypeOK, FilesTyped

-----------------------------------------------------------------------------
\* What claims are worth.

\* A claim that is kept stays worth its kind ...
LEMMA WorthPasses ==
  ASSUME Formed, TrunkHasMerged, [Next]_vars, NEW u \in Sessions,
         claim[u] # None, Worth(claim[u]), claim'[u] = claim[u]
  PROVE  Worth(claim[u])'
<1>1. trunk \subseteq trunk' /\ claim[u] \in Claim
  BY GitStep DEF Advances, Formed, ArchiveTypeOK
<1> QED
  BY <1>1 DEF Worth, Released, Claim

\* ... and so do those of the sessions that do nothing.
LEMMA WorthOfOthers ==
  ASSUME Formed, TrunkHasMerged, ClaimsWorth, [Next]_vars, NEW u \in Sessions,
         pc'[u] = pc[u], mode'[u] = mode[u], claim'[u] = claim[u]
  PROVE  ClaimWorth(u)'
<1>1. ClaimWorth(u) /\ tip <= tip' /\ tip \in Int /\ tip' \in Int
  BY GitStep, GitBounds DEF ClaimsWorth, Advances, GitTypeOK, Tips, Formed, ArchiveTypeOK
<1>2. pc[u] = "release" => claim'[u].aim <= tip'
  <2>1. pc[u] = "release" => claim[u].aim \in Int
    BY GitBounds DEF Formed, ArchiveTypeOK, CallsFormed, Claiming, Claim, Tips
  <2> QED
    BY <1>1, <2>1 DEF ClaimWorth
<1>3. Worth(claim[u]) /\ claim[u] # None => Worth(claim[u])'
  BY WorthPasses
<1> QED
  BY <1>1, <1>2, <1>3 DEF ClaimWorth, Formed, CallsFormed, Claiming, Proved

\* Claims are proved by what the repository shows, and pushed ones by the push itself.
LEMMA WorthStep ==
  ASSUME Formed, TrunkHasMerged, ClaimsWorth, [Next]_vars PROVE ClaimsWorth'
<1>1. ASSUME NEW s \in Sessions, NEW m \in {"worktree", "main", "skip"}, Preflight(s, m)
    PROVE ClaimsWorth'
  <2>1. Loaded \in Record /\ Loaded # None
    BY <1>1, LoadedFacts DEF Preflight, ArchiveAllowed, Formed, ArchiveTypeOK
  <2>2. \A c \in MainClaims(Loaded) \cup ReplayClaims(Loaded) : Worth(c) /\ c \in Claim
    BY <2>1, MainClaimsWorth, ReplayClaimsWorth DEF Formed, ArchiveTypeOK
  <2>3. pc'[s] = "replay" \/ mode'[s] = "skip"
          => claim'[s] \in MainClaims(Loaded) \cup ReplayClaims(Loaded)
    BY <1>1 DEF Preflight, Goto, Formed, ArchiveTypeOK
  <2>4. pc'[s] \in {"replay", "main", "bundle"} /\ UNCHANGED trunk
    BY <1>1 DEF Preflight, Goto, gitVars, Formed, ArchiveTypeOK
  <2>5. claim'[s] \in MainClaims(Loaded) \cup ReplayClaims(Loaded) => Worth(claim[s])'
    BY <2>2, <2>4 DEF Worth, Released, Claim
  <2>6. \A u \in Sessions \ {s} :
           pc'[u] = pc[u] /\ mode'[u] = mode[u] /\ claim'[u] = claim[u]
    BY <1>1 DEF Preflight, Goto, Formed, ArchiveTypeOK
  <2>7. ClaimWorth(s)'
    BY <2>3, <2>4, <2>5 DEF ClaimWorth, Proved
  <2> QED
    BY <2>6, <2>7, WorthOfOthers DEF ClaimsWorth
<1>2. ASSUME NEW s \in Sessions, ReuseBundle(s) PROVE ClaimsWorth'
  <2>1. \A u \in Sessions \ {s} :
           pc'[u] = pc[u] /\ mode'[u] = mode[u] /\ claim'[u] = claim[u]
    BY <1>2 DEF ReuseBundle, Goto, Formed, ArchiveTypeOK
  <2>2. ClaimWorth(s)'
    <3>1. pc'[s] \in Proved \/ (pc'[s] = "summary" /\ mode'[s] = "skip") => Worth(claim[s]) /\ claim[s] # None /\ claim'[s] = claim[s]
      BY <1>2 DEF ReuseBundle, Goto, AfterBundle, ClaimsWorth, ClaimWorth, Formed, ArchiveTypeOK, CallsFormed, Proved, Claiming
    <3>2. pc'[s] \in Proved \/ (pc'[s] = "summary" /\ mode'[s] = "skip") => Worth(claim[s])'
      BY <3>1, WorthPasses
    <3> QED
      BY <1>2, <3>2 DEF ReuseBundle, Goto, AfterBundle, ClaimWorth, Proved, Formed, ArchiveTypeOK, CallsFormed
  <2> QED
    BY <2>1, <2>2, WorthOfOthers DEF ClaimsWorth
<1>3. ASSUME NEW s \in Sessions, WriteBundle(s) PROVE ClaimsWorth'
  <2>1. \A u \in Sessions \ {s} :
           pc'[u] = pc[u] /\ mode'[u] = mode[u] /\ claim'[u] = claim[u]
    BY <1>3 DEF WriteBundle, Goto, Formed, ArchiveTypeOK
  <2>2. ClaimWorth(s)'
    <3>1. pc'[s] \in Proved \/ (pc'[s] = "summary" /\ mode'[s] = "skip") => Worth(claim[s]) /\ claim[s] # None /\ claim'[s] = claim[s]
      BY <1>3 DEF WriteBundle, Goto, ClaimsWorth, ClaimWorth, Formed, ArchiveTypeOK, CallsFormed, Proved, Claiming
    <3>2. pc'[s] \in Proved \/ (pc'[s] = "summary" /\ mode'[s] = "skip") => Worth(claim[s])'
      BY <3>1, WorthPasses
    <3> QED
      BY <1>3, <3>2 DEF WriteBundle, Goto, ClaimWorth, Proved, Formed, ArchiveTypeOK, CallsFormed
  <2> QED
    BY <2>1, <2>2, WorthOfOthers DEF ClaimsWorth
<1>4. ASSUME NEW s \in Sessions, WriteSummary(s) PROVE ClaimsWorth'
  <2>1. \A u \in Sessions \ {s} :
           pc'[u] = pc[u] /\ mode'[u] = mode[u] /\ claim'[u] = claim[u]
    BY <1>4 DEF WriteSummary, Goto, Formed, ArchiveTypeOK
  <2>2. ClaimWorth(s)'
    <3>1. pc'[s] \in Proved \/ (pc'[s] = "summary" /\ mode'[s] = "skip") => Worth(claim[s]) /\ claim[s] # None /\ claim'[s] = claim[s]
      BY <1>4 DEF WriteSummary, Goto, AfterBundle, ClaimsWorth, ClaimWorth, Formed, ArchiveTypeOK, CallsFormed, Proved, Claiming
    <3>2. pc'[s] \in Proved \/ (pc'[s] = "summary" /\ mode'[s] = "skip") => Worth(claim[s])'
      BY <3>1, WorthPasses
    <3> QED
      BY <1>4, <3>2 DEF WriteSummary, Goto, AfterBundle, ClaimWorth, Proved, Formed, ArchiveTypeOK, CallsFormed
  <2> QED
    BY <2>1, <2>2, WorthOfOthers DEF ClaimsWorth
<1>5. ASSUME NEW s \in Sessions, CommitStep(s) PROVE ClaimsWorth'
  <2>1. tip' = tip /\ tip \in Int
    BY <1>5, GitBounds DEF CommitStep, CommitArtifacts, Formed, ArchiveTypeOK, GitTypeOK, Tips
  <2>2. claim'[s].aim = tip /\ pc'[s] = "release"
    BY <1>5 DEF CommitStep, Claimed, Goto, Formed, ArchiveTypeOK
  <2>3. \A u \in Sessions \ {s} :
           pc'[u] = pc[u] /\ mode'[u] = mode[u] /\ claim'[u] = claim[u]
    BY <1>5 DEF CommitStep, Goto, Formed, ArchiveTypeOK
  <2>4. ClaimWorth(s)'
    BY <1>5, <2>1, <2>2 DEF ClaimWorth, Proved, Worth, Released
  <2> QED
    BY <2>3, <2>4, WorthOfOthers DEF ClaimsWorth
<1>6. ASSUME NEW s \in Sessions, ShipMerged(s) PROVE ClaimsWorth'
  <2>1. PICK p \in ExactProofs(claim[s].aim) : Rests(s, p)
    BY <1>6 DEF ShipMerged, AlreadyMerged
  <2>2. Shows(p) /\ p.kind = "exact" /\ p.shown = claim[s].aim
    BY ExactShows DEF Formed, ArchiveTypeOK
  <2>3. /\ claim'[s].kind = "exact" /\ claim'[s].shown = claim[s].aim
        /\ claim'[s].aim = claim[s].aim /\ claim'[s].tip = claim[s].aim
        /\ \A u \in Sessions \ {s} : claim'[u] = claim[u]
    BY <1>6, <2>1, <2>2, RestsFacts DEF ShipMerged, Shows, Tips, Formed, ArchiveTypeOK, CallsFormed, Claiming
  <2>4. Released(claim[s].aim) /\ UNCHANGED trunk
    BY <1>6, <2>2 DEF Shows, ShipMerged, gitVars
  <2>5. pc'[s] = "gate"
    BY <1>6 DEF ShipMerged, Goto, Formed, ArchiveTypeOK
  <2>6. \A u \in Sessions \ {s} :
           pc'[u] = pc[u] /\ mode'[u] = mode[u] /\ claim'[u] = claim[u]
    BY <1>6, <2>3 DEF ShipMerged, Goto, Formed, ArchiveTypeOK
  <2>7. ClaimWorth(s)'
    BY <1>6, <2>3, <2>4, <2>5 DEF ClaimWorth, Proved, Worth, Released
  <2> QED
    BY <2>6, <2>7, WorthOfOthers DEF ClaimsWorth
<1>7. ASSUME NEW s \in Sessions, ShipPushed(s) PROVE ClaimsWorth'
  <2>1. /\ claim'[s].kind = "pushed" /\ claim'[s].shown = tip
        /\ claim'[s].aim = claim[s].aim /\ claim'[s].tip = claim[s].aim
        /\ \A u \in Sessions \ {s} : claim'[u] = claim[u]
    BY <1>7, TipFacts, RestsFacts, GitBounds DEF ShipPushed, Proof, Formed, ArchiveTypeOK, CallsFormed, Claiming
  <2>2. tip \in trunk' /\ claim[s].aim <= tip
    BY <1>7 DEF ShipPushed, MergeAndPush, ClaimsWorth, ClaimWorth
  <2>3. tip \in Int /\ claim[s].aim \in Int /\ pc'[s] = "gate"
    BY <1>7, GitBounds DEF ShipPushed, Goto, GitTypeOK, Tips, Claim, Formed, ArchiveTypeOK, CallsFormed, Claiming
  <2>4. \A u \in Sessions \ {s} :
           pc'[u] = pc[u] /\ mode'[u] = mode[u] /\ claim'[u] = claim[u]
    BY <1>7, <2>1 DEF ShipPushed, Goto, Formed, ArchiveTypeOK
  <2>5. ClaimWorth(s)'
    BY <1>7, <2>1, <2>2, <2>3 DEF ClaimWorth, Proved, Worth, Released
  <2> QED
    BY <2>4, <2>5, WorthOfOthers DEF ClaimsWorth
<1>8. ASSUME NEW s \in Sessions, ShipLocal(s) PROVE ClaimsWorth'
  <2>1. /\ claim'[s].kind = "local" /\ claim'[s].shown = 0
        /\ claim'[s].aim = claim[s].aim /\ claim'[s].tip = claim[s].aim
        /\ \A u \in Sessions \ {s} : claim'[u] = claim[u]
    BY <1>8, TipFacts, RestsFacts, GitBounds DEF ShipLocal, Proof, Formed, ArchiveTypeOK, CallsFormed, Claiming
  <2>2. pc'[s] = "gate"
    BY <1>8 DEF ShipLocal, Goto, Formed, ArchiveTypeOK
  <2>3. \A u \in Sessions \ {s} :
           pc'[u] = pc[u] /\ mode'[u] = mode[u] /\ claim'[u] = claim[u]
    BY <1>8, <2>1 DEF ShipLocal, Goto, Formed, ArchiveTypeOK
  <2>4. ClaimWorth(s)'
    BY <1>8, <2>1, <2>2 DEF ClaimWorth, Proved, Worth, Released
  <2> QED
    BY <2>3, <2>4, WorthOfOthers DEF ClaimsWorth
<1>9. ASSUME NEW s \in Sessions, HandoffStep(s) PROVE ClaimsWorth'
  <2>1. Len(prs') \in 0 .. MaxPr
    BY <1>9, HandoffAdvances DEF HandoffStep, Advances, GitTypeOK, Formed, ArchiveTypeOK
  <2>2. /\ claim'[s].kind = "number" /\ claim'[s].shown = 0
        /\ claim'[s].aim = claim[s].aim /\ claim'[s].tip = claim[s].aim
        /\ \A u \in Sessions \ {s} : claim'[u] = claim[u]
    BY <1>9, <2>1, TipFacts, RestsFacts DEF HandoffStep, Proof, Formed, ArchiveTypeOK, CallsFormed, Claiming
  <2>3. \A u \in Sessions \ {s} :
           pc'[u] = pc[u] /\ mode'[u] = mode[u] /\ claim'[u] = claim[u]
    BY <1>9, <2>2 DEF HandoffStep, Goto, Formed, ArchiveTypeOK
  <2>4. ClaimWorth(s)'
    BY <1>9 DEF HandoffStep, Goto, ClaimWorth, Proved, Formed, ArchiveTypeOK
  <2> QED
    BY <2>3, <2>4, WorthOfOthers DEF ClaimsWorth
<1>10. ASSUME NEW s \in Sessions, Handed(s) PROVE ClaimsWorth'
  <2>1. ASSUME NEW p \in NumberProofs(claim[s].pr), Rests(s, p)
        PROVE  /\ Worth(claim[s])'
               /\ \A u \in Sessions \ {s} : claim'[u] = claim[u]
    <3>1. Shows(p) /\ p.kind = "number"
      BY NumberShows DEF Formed, ArchiveTypeOK
    <3>2. /\ claim'[s].kind = "number" /\ claim'[s].shown = p.shown
          /\ \A u \in Sessions \ {s} : claim'[u] = claim[u]
      BY <1>10, <2>1, <3>1, RestsFacts DEF Handed, Shows, Tips, Formed, ArchiveTypeOK, CallsFormed, Claiming
    <3> QED
      BY <1>10, <3>1, <3>2 DEF Handed, gitVars, Worth, Released, Shows
  <2>2. \/ UNCHANGED claim /\ pc'[s] = "pending"
        \/ pc'[s] = "gate" /\ \E p \in NumberProofs(claim[s].pr) : Rests(s, p)
    BY <1>10 DEF Handed, Goto, Formed, ArchiveTypeOK
  <2>3. \A u \in Sessions \ {s} :
           pc'[u] = pc[u] /\ mode'[u] = mode[u] /\ claim'[u] = claim[u]
    BY <1>10, <2>1 DEF Handed, Goto, Formed, ArchiveTypeOK
  <2>4. ClaimWorth(s)'
    BY <2>1, <2>2 DEF ClaimWorth, Proved
  <2> QED
    BY <2>3, <2>4, WorthOfOthers DEF ClaimsWorth
<1>11. ASSUME NEW s \in Sessions, RecordPending(s) PROVE ClaimsWorth'
  <2>1. \A u \in Sessions \ {s} :
           pc'[u] = pc[u] /\ mode'[u] = mode[u] /\ claim'[u] = claim[u]
    BY <1>11 DEF RecordPending, Goto, Ends, Formed, ArchiveTypeOK
  <2>2. ClaimWorth(s)'
    BY <1>11 DEF RecordPending, Goto, Ends, ClaimWorth, Proved, Formed, ArchiveTypeOK
  <2> QED
    BY <2>1, <2>2, WorthOfOthers DEF ClaimsWorth
<1>12. ASSUME NEW s \in Sessions, RecordFailed(s) PROVE ClaimsWorth'
  <2>1. \A u \in Sessions \ {s} :
           pc'[u] = pc[u] /\ mode'[u] = mode[u] /\ claim'[u] = claim[u]
    BY <1>12 DEF RecordFailed, Goto, Ends, Formed, ArchiveTypeOK
  <2>2. ClaimWorth(s)'
    BY <1>12 DEF RecordFailed, Goto, Ends, ClaimWorth, Proved, Formed, ArchiveTypeOK
  <2> QED
    BY <2>1, <2>2, WorthOfOthers DEF ClaimsWorth
<1>13. ASSUME NEW s \in Sessions, ProveFromMain(s) PROVE ClaimsWorth'
  <2>1. \A c \in MainClaims(view[s]) : Worth(c) /\ c \in Claim
    BY <1>13, MainClaimsWorth DEF ProveFromMain, InCall, Formed, ArchiveTypeOK, CallsFormed
  <2>2. claim'[s] \in MainClaims(view[s]) /\ pc'[s] = "gate" /\ UNCHANGED trunk
    BY <1>13 DEF ProveFromMain, Goto, gitVars, Formed, ArchiveTypeOK
  <2>3. \A u \in Sessions \ {s} :
           pc'[u] = pc[u] /\ mode'[u] = mode[u] /\ claim'[u] = claim[u]
    BY <1>13 DEF ProveFromMain, Goto, Formed, ArchiveTypeOK
  <2>4. ClaimWorth(s)'
    BY <1>13, <2>1, <2>2 DEF ClaimWorth, Proved, Worth, Released, Claim
  <2> QED
    BY <2>3, <2>4, WorthOfOthers DEF ClaimsWorth
<1>14. ASSUME NEW s \in Sessions, CompleteGate(s) PROVE ClaimsWorth'
  <2>1. \A u \in Sessions \ {s} :
           pc'[u] = pc[u] /\ mode'[u] = mode[u] /\ claim'[u] = claim[u]
    BY <1>14 DEF CompleteGate, Goto, Ends, Formed, ArchiveTypeOK
  <2>2. ClaimWorth(s)'
    <3>1. pc'[s] \in Proved => Worth(claim[s]) /\ claim[s] # None /\ claim'[s] = claim[s]
      BY <1>14 DEF CompleteGate, Goto, Ends, ClaimsWorth, ClaimWorth, Formed, ArchiveTypeOK, CallsFormed, Proved, Claiming
    <3>2. pc'[s] \in Proved => Worth(claim[s])'
      BY <3>1, WorthPasses
    <3> QED
      BY <1>14, <3>2 DEF CompleteGate, Goto, Ends, ClaimWorth, Proved, Formed, ArchiveTypeOK, CallsFormed
  <2> QED
    BY <2>1, <2>2, WorthOfOthers DEF ClaimsWorth
<1>15. ASSUME NEW s \in Sessions, CompleteBundle(s) PROVE ClaimsWorth'
  <2>1. \A u \in Sessions \ {s} :
           pc'[u] = pc[u] /\ mode'[u] = mode[u] /\ claim'[u] = claim[u]
    BY <1>15 DEF CompleteBundle, Goto, Ends, Formed, ArchiveTypeOK
  <2>2. ClaimWorth(s)'
    BY <1>15 DEF CompleteBundle, Goto, Ends, ClaimWorth, Proved, Formed, ArchiveTypeOK
  <2> QED
    BY <2>1, <2>2, WorthOfOthers DEF ClaimsWorth
<1>16. ASSUME NEW s \in Sessions, Replay(s) PROVE ClaimsWorth'
  <2>1. \A u \in Sessions \ {s} :
           pc'[u] = pc[u] /\ mode'[u] = mode[u] /\ claim'[u] = claim[u]
    BY <1>16 DEF Replay, Goto, Ends, Formed, ArchiveTypeOK
  <2>2. ClaimWorth(s)'
    <3>1. pc'[s] \in Proved => Worth(claim[s]) /\ claim[s] # None /\ claim'[s] = claim[s]
      BY <1>16 DEF Replay, Goto, Ends, ClaimsWorth, ClaimWorth, Formed, ArchiveTypeOK, CallsFormed, Proved, Claiming
    <3>2. pc'[s] \in Proved => Worth(claim[s])'
      BY <3>1, WorthPasses
    <3> QED
      BY <1>16, <3>2 DEF Replay, Goto, Ends, ClaimWorth, Proved, Formed, ArchiveTypeOK, CallsFormed
  <2> QED
    BY <2>1, <2>2, WorthOfOthers DEF ClaimsWorth
<1>17. ASSUME NEW s \in Sessions, Transition(s) PROVE ClaimsWorth'
  <2>1. \A u \in Sessions \ {s} :
           pc'[u] = pc[u] /\ mode'[u] = mode[u] /\ claim'[u] = claim[u]
    BY <1>17 DEF Transition, Goto, Formed, ArchiveTypeOK
  <2>2. ClaimWorth(s)'
    <3>1. pc'[s] \in Proved => Worth(claim[s]) /\ claim[s] # None /\ claim'[s] = claim[s]
      BY <1>17 DEF Transition, Goto, ClaimsWorth, ClaimWorth, Formed, ArchiveTypeOK, CallsFormed, Proved, Claiming
    <3>2. pc'[s] \in Proved => Worth(claim[s])'
      BY <3>1, WorthPasses
    <3> QED
      BY <1>17, <3>2 DEF Transition, Goto, ClaimWorth, Proved, Formed, ArchiveTypeOK, CallsFormed
  <2> QED
    BY <2>1, <2>2, WorthOfOthers DEF ClaimsWorth
<1>18. ASSUME NEW s \in Sessions, RefreshBundle(s) PROVE ClaimsWorth'
  <2>1. \A u \in Sessions \ {s} :
           pc'[u] = pc[u] /\ mode'[u] = mode[u] /\ claim'[u] = claim[u]
    BY <1>18 DEF RefreshBundle, Goto, Formed, ArchiveTypeOK
  <2>2. ClaimWorth(s)'
    <3>1. pc'[s] \in Proved => Worth(claim[s]) /\ claim[s] # None /\ claim'[s] = claim[s]
      BY <1>18 DEF RefreshBundle, Goto, ClaimsWorth, ClaimWorth, Formed, ArchiveTypeOK, CallsFormed, Proved, Claiming
    <3>2. pc'[s] \in Proved => Worth(claim[s])'
      BY <3>1, WorthPasses
    <3> QED
      BY <1>18, <3>2 DEF RefreshBundle, Goto, ClaimWorth, Proved, Formed, ArchiveTypeOK, CallsFormed
  <2> QED
    BY <2>1, <2>2, WorthOfOthers DEF ClaimsWorth
<1>19. ASSUME NEW s \in Sessions, Cleanup(s) PROVE ClaimsWorth'
  <2>1. \A u \in Sessions \ {s} :
           pc'[u] = pc[u] /\ mode'[u] = mode[u] /\ claim'[u] = claim[u]
    BY <1>19 DEF Cleanup, Goto, Formed, ArchiveTypeOK
  <2>2. ClaimWorth(s)'
    <3>1. pc'[s] \in Proved => Worth(claim[s]) /\ claim[s] # None /\ claim'[s] = claim[s]
      BY <1>19 DEF Cleanup, Goto, ClaimsWorth, ClaimWorth, Formed, ArchiveTypeOK, CallsFormed, Proved, Claiming
    <3>2. pc'[s] \in Proved => Worth(claim[s])'
      BY <3>1, WorthPasses
    <3> QED
      BY <1>19, <3>2 DEF Cleanup, Goto, ClaimWorth, Proved, Formed, ArchiveTypeOK, CallsFormed
  <2> QED
    BY <2>1, <2>2, WorthOfOthers DEF ClaimsWorth
<1>20. ASSUME NEW s \in Sessions, RemoveSource(s) PROVE ClaimsWorth'
  <2>1. \A u \in Sessions \ {s} :
           pc'[u] = pc[u] /\ mode'[u] = mode[u] /\ claim'[u] = claim[u]
    BY <1>20 DEF RemoveSource, Goto, Ends, Formed, ArchiveTypeOK
  <2>2. ClaimWorth(s)'
    BY <1>20 DEF RemoveSource, Goto, Ends, ClaimWorth, Proved, Formed, ArchiveTypeOK
  <2> QED
    BY <2>1, <2>2, WorthOfOthers DEF ClaimsWorth
<1>21. ASSUME NEW s \in Sessions, Stop(s) PROVE ClaimsWorth'
  <2>1. \A u \in Sessions \ {s} :
           pc'[u] = pc[u] /\ mode'[u] = mode[u] /\ claim'[u] = claim[u]
    BY <1>21 DEF Stop, Goto, Ends, Formed, ArchiveTypeOK
  <2>2. ClaimWorth(s)'
    BY <1>21 DEF Stop, Goto, Ends, ClaimWorth, Proved, Formed, ArchiveTypeOK
  <2> QED
    BY <2>1, <2>2, WorthOfOthers DEF ClaimsWorth
<1>22. ASSUME NEW s \in Sessions, JudgeReenter(s) PROVE ClaimsWorth'
  <2>1. \A u \in Sessions \ {s} :
           pc'[u] = pc[u] /\ mode'[u] = mode[u] /\ claim'[u] = claim[u]
    BY <1>22 DEF JudgeReenter, Goto, Formed, ArchiveTypeOK
  <2>2. ClaimWorth(s)'
    BY <1>22 DEF JudgeReenter, Goto, ClaimWorth, Proved, Formed, ArchiveTypeOK
  <2> QED
    BY <2>1, <2>2, WorthOfOthers DEF ClaimsWorth
<1>23. ASSUME NEW s \in Sessions, Reenter(s) PROVE ClaimsWorth'
  <2>1. \A u \in Sessions \ {s} :
           pc'[u] = pc[u] /\ mode'[u] = mode[u] /\ claim'[u] = claim[u]
    BY <1>23 DEF Reenter, Goto, Ends, Formed, ArchiveTypeOK
  <2>2. ClaimWorth(s)'
    BY <1>23 DEF Reenter, Goto, Ends, ClaimWorth, Proved, Formed, ArchiveTypeOK
  <2> QED
    BY <2>1, <2>2, WorthOfOthers DEF ClaimsWorth
<1>24. ASSUME Repository, UNCHANGED archiveVars PROVE ClaimsWorth'
  <2>1. \A u \in Sessions : pc'[u] = pc[u] /\ mode'[u] = mode[u] /\ claim'[u] = claim[u]
    BY <1>24 DEF archiveVars, callVars
  <2> QED
    BY <2>1, WorthOfOthers DEF ClaimsWorth
<1>25. ASSUME BecomeReady PROVE ClaimsWorth'
  <2>1. \A u \in Sessions : pc'[u] = pc[u] /\ mode'[u] = mode[u] /\ claim'[u] = claim[u]
    BY <1>25 DEF BecomeReady, callVars
  <2> QED
    BY <2>1, WorthOfOthers DEF ClaimsWorth
<1>26. ASSUME Purge PROVE ClaimsWorth'
  <2>1. \A u \in Sessions : pc'[u] = pc[u] /\ mode'[u] = mode[u] /\ claim'[u] = claim[u]
    BY <1>26 DEF Purge, callVars
  <2> QED
    BY <2>1, WorthOfOthers DEF ClaimsWorth
<1>27. ASSUME UNCHANGED vars PROVE ClaimsWorth'
  <2>1. \A u \in Sessions : pc'[u] = pc[u] /\ mode'[u] = mode[u] /\ claim'[u] = claim[u]
    BY <1>27 DEF vars, archiveVars, callVars
  <2> QED
    BY <2>1, WorthOfOthers DEF ClaimsWorth
<1> QED
  BY <1>1, <1>2, <1>3, <1>4, <1>5, <1>6, <1>7, <1>8, <1>9, <1>10, <1>11, <1>12, <1>13,
     <1>14, <1>15, <1>16, <1>17, <1>18, <1>19, <1>20, <1>21, <1>22, <1>23, <1>24, <1>25,
     <1>26, <1>27
     DEF Next, Call

\* The gate is completed on the claim of a session past finalization ...
LEMMA GateClaims ==
  ASSUME NEW s \in Sessions, Call(s)
  PROVE  UNCHANGED released \/ (released' = claim[s] /\ pc[s] \in Proved)
BY DEF Call, Preflight, ReuseBundle, WriteBundle, WriteSummary, CommitStep, ShipMerged,
       ShipPushed, ShipLocal, HandoffStep, Handed, RecordPending, RecordFailed, ProveFromMain,
       CompleteGate, CompleteBundle, Replay, Transition, RefreshBundle, Cleanup, RemoveSource,
       Stop, JudgeReenter, Reenter, history, Proved

\* ... which is a proved one.
LEMMA ReleasedStep ==
  ASSUME Formed, TrunkHasMerged, ClaimsWorth, ReleasedWorth, [Next]_vars PROVE ReleasedWorth'
<1>1. trunk \subseteq trunk'
  BY GitStep DEF Advances
<1>2. CASE UNCHANGED released
  BY <1>1, <1>2 DEF ReleasedWorth, Worth, Released, Claim, Formed, ArchiveTypeOK
<1>3. ASSUME NEW s \in Sessions, released' = claim[s], pc[s] \in Proved PROVE ReleasedWorth'
  <2>1. Worth(claim[s]) /\ claim[s] \in Claim
    BY <1>3 DEF ClaimsWorth, ClaimWorth, Formed, ArchiveTypeOK, CallsFormed, Claiming, Proved
  <2> QED
    BY <1>1, <1>3, <2>1 DEF ReleasedWorth, Worth, Released, Claim
<1> QED
  BY <1>2, <1>3, GateClaims DEF Next, BecomeReady, Purge, vars, archiveVars, history

-----------------------------------------------------------------------------
\* The record in its order.

LEMMA PendingFacts ==
  ASSUME Formed, NEW s \in Sessions, RecordPending(s), active # None
  PROVE  /\ active' \in Record /\ active' # None
         /\ active'.lifecycle = active.lifecycle /\ active'.ready = active.ready
         /\ active'.release = active.release
         /\ active'.exact => view[s].exact \/ claim[s].kind = "exact"
<1> DEFINE r == [active EXCEPT !.exact = view[s].exact]
<1>1. active \in Record /\ view[s] \in Record /\ claim[s] \in Claim
  BY DEF Formed, ArchiveTypeOK, CallsFormed, InCall, Claiming, RecordPending
<1>2. /\ r \in Record /\ r.lifecycle = active.lifecycle /\ r.ready = active.ready
      /\ r.release = active.release /\ r.exact = view[s].exact
  BY <1>1 DEF Record
<1>3. active' = Recorded(r, claim[s], "pending_merge")
  BY DEF RecordPending
<1> HIDE DEF r
<1>4. /\ active' \in Record
      /\ active'.lifecycle = r.lifecycle /\ active'.ready = r.ready
      /\ active'.release = r.release /\ (active'.exact => r.exact \/ claim[s].kind = "exact")
  BY <1>1, <1>2, <1>3, RecordedFacts, ZenonT(60)
<1>5. active' # None
  BY <1>4, NoneIsNoFile
<1> QED
  BY <1>2, <1>4, <1>5

\* A gate that reads as completed has been completed on a claim.
LEMMA GatesStep ==
  ASSUME Formed, GatesClaimed, [Next]_vars PROVE GatesClaimed'
<1> USE NoneIsNoFile DEF Formed, ArchiveTypeOK, CallsFormed, InCall, Claiming, GatesClaimed
<1>1. ASSUME NEW s \in Sessions, NEW m \in {"worktree", "main", "skip"}, Preflight(s, m)
    PROVE GatesClaimed'
  BY <1>1 DEF Preflight, Goto, callVars, history, gitVars, Found, Loaded, ArchiveAllowed
<1>2. ASSUME NEW s \in Sessions, ReuseBundle(s) PROVE GatesClaimed'
  BY <1>2 DEF ReuseBundle, Goto, callVars, history, gitVars
<1>3. ASSUME NEW s \in Sessions, WriteBundle(s) PROVE GatesClaimed'
  BY <1>3 DEF WriteBundle, Goto, callVars, history, gitVars, TerminalBundle
<1>4. ASSUME NEW s \in Sessions, WriteSummary(s) PROVE GatesClaimed'
  BY <1>4 DEF WriteSummary, Goto, callVars, history, gitVars
<1>5. ASSUME NEW s \in Sessions, CommitStep(s) PROVE GatesClaimed'
  BY <1>5 DEF CommitStep, Goto, callVars, history, gitVars
<1>6. ASSUME NEW s \in Sessions, ShipMerged(s) PROVE GatesClaimed'
  BY <1>6 DEF ShipMerged, Goto, callVars, history, gitVars
<1>7. ASSUME NEW s \in Sessions, ShipPushed(s) PROVE GatesClaimed'
  BY <1>7 DEF ShipPushed, Goto, callVars, history, gitVars
<1>8. ASSUME NEW s \in Sessions, ShipLocal(s) PROVE GatesClaimed'
  BY <1>8 DEF ShipLocal, Goto, callVars, history, gitVars
<1>9. ASSUME NEW s \in Sessions, HandoffStep(s) PROVE GatesClaimed'
  BY <1>9 DEF HandoffStep, Goto, callVars, history, gitVars
<1>10. ASSUME NEW s \in Sessions, Handed(s) PROVE GatesClaimed'
  BY <1>10 DEF Handed, Goto, callVars, history, gitVars
<1>11. ASSUME NEW s \in Sessions, RecordPending(s) PROVE GatesClaimed'
  BY PendingFacts, <1>11 DEF RecordPending, Goto, Ends, callVars, history, gitVars
<1>12. ASSUME NEW s \in Sessions, RecordFailed(s) PROVE GatesClaimed'
  BY <1>12 DEF RecordFailed, Goto, Ends, callVars, history, gitVars
<1>13. ASSUME NEW s \in Sessions, ProveFromMain(s) PROVE GatesClaimed'
  BY <1>13 DEF ProveFromMain, Goto, callVars, history, gitVars
<1>14. ASSUME NEW s \in Sessions, CompleteGate(s) PROVE GatesClaimed'
  BY <1>14 DEF CompleteGate, Goto, Ends, callVars, history, gitVars
<1>15. ASSUME NEW s \in Sessions, CompleteBundle(s) PROVE GatesClaimed'
  BY RecoveredFacts, <1>15 DEF CompleteBundle, Goto, Ends, callVars, history, gitVars
<1>16. ASSUME NEW s \in Sessions, Replay(s) PROVE GatesClaimed'
  BY RecoveredFacts, <1>16 DEF Replay, Goto, Ends, callVars, history, gitVars
<1>17. ASSUME NEW s \in Sessions, Transition(s) PROVE GatesClaimed'
  BY TransitionFacts, <1>17 DEF Transition, Goto, callVars, history, gitVars
<1>18. ASSUME NEW s \in Sessions, RefreshBundle(s) PROVE GatesClaimed'
  BY <1>18 DEF RefreshBundle, Goto, callVars, history, gitVars
<1>19. ASSUME NEW s \in Sessions, Cleanup(s) PROVE GatesClaimed'
  BY <1>19 DEF Cleanup, Goto, callVars, history, gitVars
<1>20. ASSUME NEW s \in Sessions, RemoveSource(s) PROVE GatesClaimed'
  BY <1>20 DEF RemoveSource, Goto, Ends, callVars, history, gitVars
<1>21. ASSUME NEW s \in Sessions, Stop(s) PROVE GatesClaimed'
  BY <1>21 DEF Stop, Goto, Ends, callVars, history, gitVars
<1>22. ASSUME NEW s \in Sessions, JudgeReenter(s) PROVE GatesClaimed'
  BY <1>22 DEF JudgeReenter, Goto, callVars, history, gitVars
<1>23. ASSUME NEW s \in Sessions, Reenter(s) PROVE GatesClaimed'
  BY <1>23 DEF Reenter, Goto, Ends, callVars, history, gitVars
<1>24. ASSUME Repository, UNCHANGED archiveVars PROVE GatesClaimed'
  BY <1>24 DEF archiveVars, callVars, history, gitVars
<1>25. ASSUME BecomeReady PROVE GatesClaimed'
  BY <1>25 DEF BecomeReady, callVars, history, gitVars
<1>26. ASSUME Purge PROVE GatesClaimed'
  BY <1>26 DEF Purge, callVars, history, gitVars
<1>27. ASSUME UNCHANGED vars PROVE GatesClaimed'
  BY <1>27 DEF vars, archiveVars, callVars, history, gitVars
<1> QED
  BY <1>1, <1>2, <1>3, <1>4, <1>5, <1>6, <1>7, <1>8, <1>9, <1>10, <1>11, <1>12, <1>13,
     <1>14, <1>15, <1>16, <1>17, <1>18, <1>19, <1>20, <1>21, <1>22, <1>23, <1>24, <1>25,
     <1>26, <1>27
     DEF Next, Call

\* A call goes on with a ready change until a reentry is committed.
LEMMA ReadyStep ==
  ASSUME Formed, ReadyKept, [Next]_vars PROVE ReadyKept'
<1> USE NoneIsNoFile DEF Formed, ArchiveTypeOK, CallsFormed, InCall, Claiming, ReadyKept
<1>1. ASSUME NEW s \in Sessions, NEW m \in {"worktree", "main", "skip"}, Preflight(s, m)
    PROVE ReadyKept'
  BY <1>1 DEF Preflight, Goto, callVars, history, gitVars, Found, Loaded, ArchiveAllowed
<1>2. ASSUME NEW s \in Sessions, ReuseBundle(s) PROVE ReadyKept'
  BY <1>2 DEF ReuseBundle, Goto, callVars, history, gitVars, AfterBundle
<1>3. ASSUME NEW s \in Sessions, WriteBundle(s) PROVE ReadyKept'
  BY <1>3 DEF WriteBundle, Goto, callVars, history, gitVars
<1>4. ASSUME NEW s \in Sessions, WriteSummary(s) PROVE ReadyKept'
  BY <1>4 DEF WriteSummary, Goto, callVars, history, gitVars, AfterBundle
<1>5. ASSUME NEW s \in Sessions, CommitStep(s) PROVE ReadyKept'
  BY <1>5 DEF CommitStep, Goto, callVars, history, gitVars
<1>6. ASSUME NEW s \in Sessions, ShipMerged(s) PROVE ReadyKept'
  BY <1>6 DEF ShipMerged, Goto, callVars, history, gitVars
<1>7. ASSUME NEW s \in Sessions, ShipPushed(s) PROVE ReadyKept'
  BY <1>7 DEF ShipPushed, Goto, callVars, history, gitVars
<1>8. ASSUME NEW s \in Sessions, ShipLocal(s) PROVE ReadyKept'
  BY <1>8 DEF ShipLocal, Goto, callVars, history, gitVars
<1>9. ASSUME NEW s \in Sessions, HandoffStep(s) PROVE ReadyKept'
  BY <1>9 DEF HandoffStep, Goto, callVars, history, gitVars
<1>10. ASSUME NEW s \in Sessions, Handed(s) PROVE ReadyKept'
  BY <1>10 DEF Handed, Goto, callVars, history, gitVars
<1>11. ASSUME NEW s \in Sessions, RecordPending(s) PROVE ReadyKept'
  BY PendingFacts, <1>11 DEF RecordPending, Goto, Ends, callVars, history, gitVars
<1>12. ASSUME NEW s \in Sessions, RecordFailed(s) PROVE ReadyKept'
  BY <1>12 DEF RecordFailed, Goto, Ends, callVars, history, gitVars
<1>13. ASSUME NEW s \in Sessions, ProveFromMain(s) PROVE ReadyKept'
  BY <1>13 DEF ProveFromMain, Goto, callVars, history, gitVars
<1>14. ASSUME NEW s \in Sessions, CompleteGate(s) PROVE ReadyKept'
  BY <1>14 DEF CompleteGate, Goto, Ends, callVars, history, gitVars
<1>15. ASSUME NEW s \in Sessions, CompleteBundle(s) PROVE ReadyKept'
  BY RecoveredFacts, <1>15 DEF CompleteBundle, Goto, Ends, callVars, history, gitVars
<1>16. ASSUME NEW s \in Sessions, Replay(s) PROVE ReadyKept'
  BY RecoveredFacts, <1>16 DEF Replay, Goto, Ends, callVars, history, gitVars
<1>17. ASSUME NEW s \in Sessions, Transition(s) PROVE ReadyKept'
  BY TransitionFacts, <1>17 DEF Transition, Goto, callVars, history, gitVars
<1>18. ASSUME NEW s \in Sessions, RefreshBundle(s) PROVE ReadyKept'
  BY <1>18 DEF RefreshBundle, Goto, callVars, history, gitVars
<1>19. ASSUME NEW s \in Sessions, Cleanup(s) PROVE ReadyKept'
  BY <1>19 DEF Cleanup, Goto, callVars, history, gitVars
<1>20. ASSUME NEW s \in Sessions, RemoveSource(s) PROVE ReadyKept'
  BY <1>20 DEF RemoveSource, Goto, Ends, callVars, history, gitVars
<1>21. ASSUME NEW s \in Sessions, Stop(s) PROVE ReadyKept'
  BY <1>21 DEF Stop, Goto, Ends, callVars, history, gitVars
<1>22. ASSUME NEW s \in Sessions, JudgeReenter(s) PROVE ReadyKept'
  BY <1>22 DEF JudgeReenter, Goto, callVars, history, gitVars
<1>23. ASSUME NEW s \in Sessions, Reenter(s) PROVE ReadyKept'
  BY <1>23 DEF Reenter, Goto, Ends, callVars, history, gitVars
<1>24. ASSUME Repository, UNCHANGED archiveVars PROVE ReadyKept'
  BY <1>24 DEF archiveVars, callVars, history, gitVars
<1>25. ASSUME BecomeReady PROVE ReadyKept'
  BY <1>25 DEF BecomeReady, callVars, history, gitVars
<1>26. ASSUME Purge PROVE ReadyKept'
  BY <1>26 DEF Purge, callVars, history, gitVars
<1>27. ASSUME UNCHANGED vars PROVE ReadyKept'
  BY <1>27 DEF vars, archiveVars, callVars, history, gitVars
<1> QED
  BY <1>1, <1>2, <1>3, <1>4, <1>5, <1>6, <1>7, <1>8, <1>9, <1>10, <1>11, <1>12, <1>13,
     <1>14, <1>15, <1>16, <1>17, <1>18, <1>19, <1>20, <1>21, <1>22, <1>23, <1>24, <1>25,
     <1>26, <1>27
     DEF Next, Call

\* What is archived stays archived, and only an archived record names an exact proof.
LEMMA OrderStep ==
  ASSUME Formed, HandedByNumber, OrderKept, [Next]_vars PROVE OrderKept'
<1> USE NoneIsNoFile DEF Formed, ArchiveTypeOK, CallsFormed, InCall, Claiming, OrderKept,
        SourceArchived
<1>1. ASSUME NEW s \in Sessions, NEW m \in {"worktree", "main", "skip"}, Preflight(s, m)
    PROVE OrderKept'
  <2>1. Loaded.exact \/ Loaded.lifecycle = "archived" => SourceArchived
    BY <1>1 DEF Preflight, ArchiveAllowed, Found, Loaded
  <2>2. pc'[s] = "replay" => Loaded.exact
    BY <1>1, LoadedFacts DEF Preflight, ArchiveAllowed, ReplayClaims, Goto
  <2>3. /\ view'[s] = Loaded /\ pc'[s] \in {"replay", "main", "bundle"} /\ UNCHANGED active
        /\ \A u \in Sessions \ {s} : view'[u] = view[u] /\ pc'[u] = pc[u]
    BY <1>1 DEF Preflight, Goto
  <2> HIDE DEF SourceArchived
  <2>4. SourceArchived' = SourceArchived
    BY <2>3 DEF SourceArchived
  <2> QED
    BY <2>1, <2>2, <2>3, <2>4
<1>2. ASSUME NEW s \in Sessions, ReuseBundle(s) PROVE OrderKept'
  BY <1>2 DEF ReuseBundle, Goto, callVars, history, gitVars, AfterBundle
<1>3. ASSUME NEW s \in Sessions, WriteBundle(s) PROVE OrderKept'
  BY <1>3 DEF WriteBundle, Goto, callVars, history, gitVars
<1>4. ASSUME NEW s \in Sessions, WriteSummary(s) PROVE OrderKept'
  BY <1>4 DEF WriteSummary, Goto, callVars, history, gitVars, AfterBundle
<1>5. ASSUME NEW s \in Sessions, CommitStep(s) PROVE OrderKept'
  BY <1>5 DEF CommitStep, Goto, callVars, history, gitVars
<1>6. ASSUME NEW s \in Sessions, ShipMerged(s) PROVE OrderKept'
  BY <1>6 DEF ShipMerged, Goto, Rests, callVars, history, gitVars
<1>7. ASSUME NEW s \in Sessions, ShipPushed(s) PROVE OrderKept'
  BY <1>7 DEF ShipPushed, Goto, Rests, callVars, history, gitVars
<1>8. ASSUME NEW s \in Sessions, ShipLocal(s) PROVE OrderKept'
  BY <1>8 DEF ShipLocal, Goto, Rests, callVars, history, gitVars
<1>9. ASSUME NEW s \in Sessions, HandoffStep(s) PROVE OrderKept'
  BY <1>9 DEF HandoffStep, Goto, Rests, callVars, history, gitVars
<1>10. ASSUME NEW s \in Sessions, Handed(s) PROVE OrderKept'
  BY <1>10 DEF Handed, Goto, Rests, callVars, history, gitVars
<1>11. ASSUME NEW s \in Sessions, RecordPending(s) PROVE OrderKept'
  <2>1. claim[s].kind = "number"
    BY <1>11 DEF RecordPending, HandedByNumber
  <2>2. CASE active = None
    BY <1>11, <2>2 DEF RecordPending, Ends, Goto, history
  <2>3. CASE active # None
    <3>1. active'.exact \/ active.lifecycle = "archived" => active'.lifecycle = "archived"
      BY <1>11, <2>1, <2>3, PendingFacts DEF RecordPending
    <3> QED
      BY <1>11, <3>1, <2>3, PendingFacts DEF RecordPending, Ends, Goto, history
  <2> QED
    BY <2>2, <2>3
<1>12. ASSUME NEW s \in Sessions, RecordFailed(s) PROVE OrderKept'
  BY <1>12 DEF RecordFailed, Goto, Ends, callVars, history, gitVars
<1>13. ASSUME NEW s \in Sessions, ProveFromMain(s) PROVE OrderKept'
  BY <1>13 DEF ProveFromMain, Goto, callVars, history, gitVars
<1>14. ASSUME NEW s \in Sessions, CompleteGate(s) PROVE OrderKept'
  BY <1>14 DEF CompleteGate, Goto, Ends, callVars, history, gitVars
<1>15. ASSUME NEW s \in Sessions, CompleteBundle(s) PROVE OrderKept'
  BY RecoveredFacts, <1>15 DEF CompleteBundle, Goto, Ends, callVars, history, gitVars
<1>16. ASSUME NEW s \in Sessions, Replay(s) PROVE OrderKept'
  BY RecoveredFacts, <1>16 DEF Replay, Goto, Ends, callVars, history, gitVars
<1>17. ASSUME NEW s \in Sessions, Transition(s) PROVE OrderKept'
  BY TransitionFacts, <1>17 DEF Transition, Goto, callVars, history, gitVars
<1>18. ASSUME NEW s \in Sessions, RefreshBundle(s) PROVE OrderKept'
  BY <1>18 DEF RefreshBundle, Goto, callVars, history, gitVars
<1>19. ASSUME NEW s \in Sessions, Cleanup(s) PROVE OrderKept'
  BY <1>19 DEF Cleanup, Goto, callVars, history, gitVars
<1>20. ASSUME NEW s \in Sessions, RemoveSource(s) PROVE OrderKept'
  BY <1>20 DEF RemoveSource, Goto, Ends, callVars, history, gitVars
<1>21. ASSUME NEW s \in Sessions, Stop(s) PROVE OrderKept'
  BY <1>21 DEF Stop, Goto, Ends, callVars, history, gitVars
<1>22. ASSUME NEW s \in Sessions, JudgeReenter(s) PROVE OrderKept'
  BY <1>22 DEF JudgeReenter, Goto, callVars, history, gitVars
<1>23. ASSUME NEW s \in Sessions, Reenter(s) PROVE OrderKept'
  BY <1>23 DEF Reenter, Goto, Ends, callVars, history, gitVars
<1>24. ASSUME Repository, UNCHANGED archiveVars PROVE OrderKept'
  BY <1>24 DEF archiveVars, callVars, history, gitVars
<1>25. ASSUME BecomeReady PROVE OrderKept'
  BY <1>25 DEF BecomeReady, callVars, history, gitVars
<1>26. ASSUME Purge PROVE OrderKept'
  BY <1>26 DEF Purge, callVars, history, gitVars
<1>27. ASSUME UNCHANGED vars PROVE OrderKept'
  BY <1>27 DEF vars, archiveVars, callVars, history, gitVars
<1> QED
  BY <1>1, <1>2, <1>3, <1>4, <1>5, <1>6, <1>7, <1>8, <1>9, <1>10, <1>11, <1>12, <1>13,
     <1>14, <1>15, <1>16, <1>17, <1>18, <1>19, <1>20, <1>21, <1>22, <1>23, <1>24, <1>25,
     <1>26, <1>27
     DEF Next, Call

LEMMA NumberStep ==
  ASSUME Formed, HandedByNumber, [Next]_vars PROVE HandedByNumber'
<1> USE DEF Formed, ArchiveTypeOK, HandedByNumber
<1>1. ASSUME NEW s \in Sessions, NEW m \in {"worktree", "main", "skip"}, Preflight(s, m)
    PROVE HandedByNumber'
  BY <1>1 DEF Preflight, Goto, callVars, history, gitVars
<1>2. ASSUME NEW s \in Sessions, ReuseBundle(s) PROVE HandedByNumber'
  BY <1>2 DEF ReuseBundle, Goto, callVars, history, gitVars, AfterBundle, CallsFormed
<1>3. ASSUME NEW s \in Sessions, WriteBundle(s) PROVE HandedByNumber'
  BY <1>3 DEF WriteBundle, Goto, callVars, history, gitVars
<1>4. ASSUME NEW s \in Sessions, WriteSummary(s) PROVE HandedByNumber'
  BY <1>4 DEF WriteSummary, Goto, callVars, history, gitVars, AfterBundle, CallsFormed
<1>5. ASSUME NEW s \in Sessions, CommitStep(s) PROVE HandedByNumber'
  BY <1>5 DEF CommitStep, Goto, callVars, history, gitVars
<1>6. ASSUME NEW s \in Sessions, ShipMerged(s) PROVE HandedByNumber'
  BY <1>6 DEF ShipMerged, Goto, callVars, history, gitVars, Rests
<1>7. ASSUME NEW s \in Sessions, ShipPushed(s) PROVE HandedByNumber'
  BY <1>7 DEF ShipPushed, Goto, callVars, history, gitVars, Rests
<1>8. ASSUME NEW s \in Sessions, ShipLocal(s) PROVE HandedByNumber'
  BY <1>8 DEF ShipLocal, Goto, callVars, history, gitVars, Rests
<1>9. ASSUME NEW s \in Sessions, HandoffStep(s) PROVE HandedByNumber'
  BY <1>9 DEF HandoffStep, Goto, callVars, history, gitVars, Rests, Claimed, Proof
<1>10. ASSUME NEW s \in Sessions, Handed(s) PROVE HandedByNumber'
  BY <1>10 DEF Handed, Goto, callVars, history, gitVars, Rests
<1>11. ASSUME NEW s \in Sessions, RecordPending(s) PROVE HandedByNumber'
  BY <1>11 DEF RecordPending, Goto, Ends, callVars, history, gitVars
<1>12. ASSUME NEW s \in Sessions, RecordFailed(s) PROVE HandedByNumber'
  BY <1>12 DEF RecordFailed, Goto, Ends, callVars, history, gitVars
<1>13. ASSUME NEW s \in Sessions, ProveFromMain(s) PROVE HandedByNumber'
  BY <1>13 DEF ProveFromMain, Goto, callVars, history, gitVars
<1>14. ASSUME NEW s \in Sessions, CompleteGate(s) PROVE HandedByNumber'
  BY <1>14 DEF CompleteGate, Goto, Ends, callVars, history, gitVars
<1>15. ASSUME NEW s \in Sessions, CompleteBundle(s) PROVE HandedByNumber'
  BY <1>15 DEF CompleteBundle, Goto, Ends, callVars, history, gitVars
<1>16. ASSUME NEW s \in Sessions, Replay(s) PROVE HandedByNumber'
  BY <1>16 DEF Replay, Goto, Ends, callVars, history, gitVars
<1>17. ASSUME NEW s \in Sessions, Transition(s) PROVE HandedByNumber'
  BY <1>17 DEF Transition, Goto, callVars, history, gitVars
<1>18. ASSUME NEW s \in Sessions, RefreshBundle(s) PROVE HandedByNumber'
  BY <1>18 DEF RefreshBundle, Goto, callVars, history, gitVars
<1>19. ASSUME NEW s \in Sessions, Cleanup(s) PROVE HandedByNumber'
  BY <1>19 DEF Cleanup, Goto, callVars, history, gitVars
<1>20. ASSUME NEW s \in Sessions, RemoveSource(s) PROVE HandedByNumber'
  BY <1>20 DEF RemoveSource, Goto, Ends, callVars, history, gitVars
<1>21. ASSUME NEW s \in Sessions, Stop(s) PROVE HandedByNumber'
  BY <1>21 DEF Stop, Goto, Ends, callVars, history, gitVars
<1>22. ASSUME NEW s \in Sessions, JudgeReenter(s) PROVE HandedByNumber'
  BY <1>22 DEF JudgeReenter, Goto, callVars, history, gitVars
<1>23. ASSUME NEW s \in Sessions, Reenter(s) PROVE HandedByNumber'
  BY <1>23 DEF Reenter, Goto, Ends, callVars, history, gitVars
<1>24. ASSUME Repository, UNCHANGED archiveVars PROVE HandedByNumber'
  BY <1>24 DEF archiveVars, callVars, history, gitVars
<1>25. ASSUME BecomeReady PROVE HandedByNumber'
  BY <1>25 DEF BecomeReady, callVars, history, gitVars
<1>26. ASSUME Purge PROVE HandedByNumber'
  BY <1>26 DEF Purge, callVars, history, gitVars
<1>27. ASSUME UNCHANGED vars PROVE HandedByNumber'
  BY <1>27 DEF vars, archiveVars, callVars, history, gitVars
<1> QED
  BY <1>1, <1>2, <1>3, <1>4, <1>5, <1>6, <1>7, <1>8, <1>9, <1>10, <1>11, <1>12, <1>13,
     <1>14, <1>15, <1>16, <1>17, <1>18, <1>19, <1>20, <1>21, <1>22, <1>23, <1>24, <1>25,
     <1>26, <1>27
     DEF Next, Call

\* A refresh leaves a good bundle.
LEMMA Refreshed ==
  ASSUME Formed, RefreshIsTerminal, NEW s \in Sessions, RefreshBundle(s) PROVE Safe'
<1>1. /\ bundle' = [rec |-> view[s], summary |-> TRUE] /\ pc[s] = "refresh"
      /\ UNCHANGED <<overtaken, rewritten>>
  BY DEF RefreshBundle, history
<1>2. view[s] \in Record
  BY <1>1 DEF Formed, ArchiveTypeOK, CallsFormed, InCall
<1>3. [rec |-> view[s], summary |-> TRUE] \in Bundle
  BY <1>2 DEF Bundle
<1>4. bundle' \in Bundle /\ bundle' # None
  BY <1>1, <1>3, NoneIsNoFile
<1> QED
  BY <1>1, <1>4 DEF RefreshIsTerminal, Safe, GoodBundle, TerminalBundle, Terminal

\* A good bundle stays one until it is purged.
LEMMA SafeStays ==
  ASSUME Formed, RefreshIsTerminal, [Next]_vars, Safe PROVE Safe'
<1> USE DEF Formed, ArchiveTypeOK, Safe, GoodBundle, TerminalBundle, Terminal
<1>1. ASSUME UNCHANGED <<bundle, rewritten, purged>>, overtaken => overtaken' PROVE Safe'
  BY <1>1
<1>2. ASSUME NEW s \in Sessions, WriteBundle(s) PROVE Safe'
  <2>1. /\ bundle' = [rec |-> view[s], summary |-> bundle # None /\ bundle.summary]
        /\ rewritten' = (rewritten \/ (bundle # None /\ bundle.rec.lifecycle = "archived"))
        /\ UNCHANGED <<overtaken, purged>> /\ view[s] # None /\ view[s] \in Record
    BY <1>2 DEF WriteBundle, CallsFormed, InCall
  <2>2. CASE purged
    BY <2>1, <2>2
  <2>3. CASE GoodBundle
    <3>1. rewritten'
      BY <2>1, <2>3
    <3>2. bundle' \in Bundle /\ bundle'.summary
      BY <2>1, <2>3 DEF Bundle
    <3> QED
      BY <3>1, <3>2, NoneIsNoFile
  <2> QED
    BY <2>2, <2>3
<1>3. ASSUME NEW s \in Sessions, WriteSummary(s) PROVE Safe'
  <2>1. UNCHANGED <<rewritten, overtaken, purged>>
    BY <1>3 DEF WriteSummary, history
  <2>2. CASE GoodBundle
    <3>1. bundle \in Bundle /\ bundle' = [bundle EXCEPT !.summary = TRUE]
      BY <1>3, <2>2 DEF WriteSummary
    <3>2. bundle' \in Bundle /\ bundle'.summary /\ bundle'.rec = bundle.rec
      BY <3>1 DEF Bundle
    <3> QED
      BY <2>1, <2>2, <3>2, NoneIsNoFile
  <2> QED
    BY <2>1, <2>2
<1>4. ASSUME NEW s \in Sessions, CompleteBundle(s) \/ Replay(s) PROVE Safe'
  <2>1. UNCHANGED <<rewritten, overtaken, purged>>
    BY <1>4 DEF CompleteBundle, Replay
  <2>2. CASE GoodBundle
    <3>1. bundle \in Bundle /\ claim[s] \in Claim /\ bundle' \in {bundle, Recovered(claim[s])}
      BY <1>4, <2>2 DEF CompleteBundle, Replay, CallsFormed, Claiming
    <3> QED
      BY <2>1, <2>2, <3>1, RecoveredFacts, NoneIsNoFile
  <2> QED
    BY <2>1, <2>2
<1>5. ASSUME NEW s \in Sessions, RefreshBundle(s) PROVE Safe'
  BY <1>5, Refreshed
<1>6. ASSUME Purge PROVE Safe'
  BY <1>6 DEF Purge
<1>7. ASSUME NEW s \in Sessions, Reenter(s) PROVE Safe'
  BY <1>1, <1>7 DEF Reenter
<1>8. ASSUME NEW s \in Sessions, Call(s)
      PROVE  \/ WriteBundle(s) \/ WriteSummary(s) \/ CompleteBundle(s) \/ Replay(s)
             \/ RefreshBundle(s) \/ Reenter(s)
             \/ UNCHANGED <<bundle, rewritten, purged, overtaken>>
  BY <1>8 DEF Call, Preflight, ReuseBundle, CommitStep, ShipMerged, ShipPushed, ShipLocal,
       HandoffStep, Handed, RecordPending, RecordFailed, ProveFromMain, CompleteGate, Transition,
       Cleanup, RemoveSource, Stop, JudgeReenter, history
<1> QED
  BY <1>1, <1>2, <1>3, <1>4, <1>5, <1>6, <1>7, <1>8
     DEF Next, BecomeReady, vars, archiveVars, history

\* A replay leaves a good bundle as well.
LEMMA Replayed ==
  ASSUME Formed, BundleKept, NEW s \in Sessions, Replay(s) PROVE Safe'
<1>1. /\ bundle \in Bundle /\ claim[s] \in Claim /\ bundle # None
      /\ UNCHANGED <<overtaken, rewritten, purged>>
  BY DEF Formed, ArchiveTypeOK, CallsFormed, Claiming, Replay
<1>2. CASE Terminal(bundle.rec)
  <2>1. bundle' = bundle
    BY <1>2 DEF Replay
  <2> QED
    BY <1>1, <1>2, <2>1 DEF Safe, GoodBundle, TerminalBundle, BundleKept, Terminal
<1>3. CASE ~Terminal(bundle.rec)
  <2>1. bundle' = Recovered(claim[s])
    BY <1>3 DEF Replay
  <2>2. bundle' \in Bundle /\ bundle'.summary /\ Terminal(bundle'.rec)
    BY <1>1, <2>1, RecoveredFacts
  <2> QED
    BY <2>2, NoneIsNoFile DEF Safe, GoodBundle, TerminalBundle, Terminal
<1> QED
  BY <1>2, <1>3

\* The source is removed by a session that has refreshed the bundle, or replayed it.
LEMMA KeptStep ==
  ASSUME Formed, RefreshIsTerminal, BundleKept, SourceKept, [Next]_vars PROVE SourceKept'
<1> USE DEF Formed, ArchiveTypeOK, SourceKept
<1>1. Safe => Safe'
  BY SafeStays
<1>2. CASE Safe
  BY <1>1, <1>2
<1>3. CASE ~Safe
  <2>1. active # None /\ \A s \in Sessions : pc[s] \notin {"replayed", "cleanup", "remove"}
    BY <1>3
  <2>2. active' # None \/ Purge
    <3>1. ASSUME NEW s \in Sessions, Call(s) PROVE active' # None
      <4>1. RecordPending(s) => active' # None
        BY <2>1, PendingFacts
      <4>2. Transition(s) => active' # None
        BY <2>1, TransitionFacts
      <4>3. RecordFailed(s) \/ CompleteGate(s) \/ Reenter(s) => active' # None
        <5>1. RecordFailed(s) \/ CompleteGate(s) \/ Reenter(s) => active' \in Record
          BY <2>1 DEF RecordFailed, CompleteGate, Reenter, Record, CallsFormed, InCall
        <5> QED
          BY <5>1, NoneIsNoFile
      <4>4. RemoveSource(s) => FALSE
        BY <2>1 DEF RemoveSource
      <4>5. \/ RecordPending(s) \/ Transition(s) \/ RecordFailed(s) \/ CompleteGate(s) \/ Reenter(s)
            \/ RemoveSource(s) \/ UNCHANGED active
        BY <3>1 DEF Call, Preflight, ReuseBundle, WriteBundle, WriteSummary, CommitStep, ShipMerged,
             ShipPushed, ShipLocal, HandoffStep, Handed, ProveFromMain, CompleteBundle, Replay,
             RefreshBundle, Cleanup, Stop, JudgeReenter
      <4> QED
        BY <2>1, <4>1, <4>2, <4>3, <4>4, <4>5
    <3>2. BecomeReady => active' # None
      <4>1. BecomeReady => active' \in Record
        BY DEF BecomeReady, Record
      <4> QED
        BY <4>1, NoneIsNoFile
    <3> QED
      BY <2>1, <3>1, <3>2 DEF Next, vars, archiveVars
  <2>3. ASSUME NEW s \in Sessions, pc'[s] \in {"replayed", "cleanup", "remove"}
        PROVE  Safe'
    <3>1. PICK t \in Sessions : pc'[s] = pc[s] \/ RefreshBundle(t) \/ Replay(t)
      <4>1. ASSUME NEW t \in Sessions, Call(t), ~RefreshBundle(t), ~Replay(t), pc'[s] # pc[s]
            PROVE  FALSE
        BY <2>1, <2>3, <4>1, ZenonT(60) DEF Call, Preflight, ReuseBundle, WriteBundle, WriteSummary, CommitStep,
           ShipMerged, ShipPushed, ShipLocal, HandoffStep, Handed, RecordPending, RecordFailed,
           ProveFromMain, CompleteGate, CompleteBundle, Transition, Cleanup, RemoveSource,
           Stop, JudgeReenter, Reenter, Goto, Ends, AfterBundle, CallsFormed
      <4> QED
        BY <4>1 DEF Next, BecomeReady, Purge, vars, archiveVars, callVars
    <3> QED
      BY <2>1, <2>3, <3>1, Refreshed, Replayed
  <2>4. Purge => Safe'
    BY DEF Purge, Safe
  <2> QED
    BY <2>2, <2>3, <2>4
<1> QED
  BY <1>2, <1>3

\* A bundle comes before the archived record, and a terminal one is whole.
LEMMA BundleStep ==
  ASSUME Formed, OrderKept, BundleKept, [Next]_vars PROVE BundleKept'
<1> USE NoneIsNoFile DEF Formed, ArchiveTypeOK, CallsFormed, InCall, Claiming, BundleKept,
        SourceArchived, TerminalBundle, Terminal
<1>1. ASSUME NEW s \in Sessions, NEW m \in {"worktree", "main", "skip"}, Preflight(s, m)
    PROVE BundleKept'
  <2>1. pc'[s] = "replay" => bundle # None
    <3>1. Loaded \in Record
      BY <1>1, LoadedFacts DEF Preflight, ArchiveAllowed
    <3> QED
      BY <1>1, <3>1 DEF Preflight, Goto, ReplayClaims
  <2>2. pc'[s] = "main" => bundle # None
    BY <1>1 DEF Preflight, Goto
  <2>3. /\ pc'[s] \in {"replay", "main", "bundle"} /\ view'[s] = Loaded
        /\ found'[s] = (bundle # None) /\ UNCHANGED <<active, bundle>>
        /\ \A u \in Sessions \ {s} :
             pc'[u] = pc[u] /\ view'[u] = view[u] /\ found'[u] = found[u]
    BY <1>1 DEF Preflight, Goto
  <2>4. bundle = None => active # None /\ Loaded = active /\ active.lifecycle = "active"
    BY <1>1 DEF Preflight, ArchiveAllowed, Found, Loaded, Record
  <2> QED
    BY <2>1, <2>2, <2>3, <2>4
<1>2. ASSUME NEW s \in Sessions, ReuseBundle(s) PROVE BundleKept'
  BY <1>2 DEF ReuseBundle, Goto, Ends, callVars, history, gitVars, AfterBundle, Bundle, Record
<1>3. ASSUME NEW s \in Sessions, WriteBundle(s) PROVE BundleKept'
  BY <1>3 DEF WriteBundle, Goto, Ends, callVars, history, gitVars, Bundle, Record
<1>4. ASSUME NEW s \in Sessions, WriteSummary(s) PROVE BundleKept'
  BY <1>4 DEF WriteSummary, Goto, Ends, callVars, history, gitVars, AfterBundle, Bundle, Record
<1>5. ASSUME NEW s \in Sessions, CommitStep(s) PROVE BundleKept'
  BY <1>5 DEF CommitStep, Goto, Ends, callVars, history, gitVars
<1>6. ASSUME NEW s \in Sessions, ShipMerged(s) PROVE BundleKept'
  BY <1>6 DEF ShipMerged, Goto, Ends, callVars, history, gitVars
<1>7. ASSUME NEW s \in Sessions, ShipPushed(s) PROVE BundleKept'
  BY <1>7 DEF ShipPushed, Goto, Ends, callVars, history, gitVars
<1>8. ASSUME NEW s \in Sessions, ShipLocal(s) PROVE BundleKept'
  BY <1>8 DEF ShipLocal, Goto, Ends, callVars, history, gitVars
<1>9. ASSUME NEW s \in Sessions, HandoffStep(s) PROVE BundleKept'
  BY <1>9 DEF HandoffStep, Goto, Ends, callVars, history, gitVars
<1>10. ASSUME NEW s \in Sessions, Handed(s) PROVE BundleKept'
  BY <1>10 DEF Handed, Goto, Ends, callVars, history, gitVars
<1>11. ASSUME NEW s \in Sessions, RecordPending(s) PROVE BundleKept'
  BY PendingFacts, <1>11 DEF RecordPending, Goto, Ends, callVars, history, gitVars
<1>12. ASSUME NEW s \in Sessions, RecordFailed(s) PROVE BundleKept'
  BY <1>12 DEF RecordFailed, Goto, Ends, callVars, history, gitVars, Bundle, Record
<1>13. ASSUME NEW s \in Sessions, ProveFromMain(s) PROVE BundleKept'
  BY <1>13 DEF ProveFromMain, Goto, Ends, callVars, history, gitVars
<1>14. ASSUME NEW s \in Sessions, CompleteGate(s) PROVE BundleKept'
  BY <1>14 DEF CompleteGate, Goto, Ends, callVars, history, gitVars, Bundle, Record
<1>15. ASSUME NEW s \in Sessions, CompleteBundle(s) PROVE BundleKept'
  BY RecoveredFacts, <1>15 DEF CompleteBundle, Goto, Ends, callVars, history, gitVars, Bundle, Record
<1>16. ASSUME NEW s \in Sessions, Replay(s) PROVE BundleKept'
  BY RecoveredFacts, <1>16 DEF Replay, Goto, Ends, callVars, history, gitVars, Bundle, Record
<1>17. ASSUME NEW s \in Sessions, Transition(s) PROVE BundleKept'
  BY TransitionFacts, <1>17 DEF Transition, Goto, Ends, callVars, history, gitVars
<1>18. ASSUME NEW s \in Sessions, RefreshBundle(s) PROVE BundleKept'
  <2>1. bundle' = [rec |-> view[s], summary |-> TRUE] /\ view[s] \in Record
    BY <1>18 DEF RefreshBundle
  <2>2. bundle' \in Bundle /\ bundle'.summary /\ bundle' # None
    <3>1. [rec |-> view[s], summary |-> TRUE] \in Bundle
      BY <2>1 DEF Bundle
    <3> QED
      BY <2>1, <3>1
  <2>3. pc'[s] = "cleanup" /\ UNCHANGED <<active, view, found>>
        /\ \A u \in Sessions \ {s} : pc'[u] = pc[u]
    BY <1>18 DEF RefreshBundle, Goto
  <2> QED
    BY <2>2, <2>3
<1>19. ASSUME NEW s \in Sessions, Cleanup(s) PROVE BundleKept'
  BY <1>19 DEF Cleanup, Goto, Ends, callVars, history, gitVars
<1>20. ASSUME NEW s \in Sessions, RemoveSource(s) PROVE BundleKept'
  BY <1>20 DEF RemoveSource, Goto, Ends, callVars, history, gitVars
<1>21. ASSUME NEW s \in Sessions, Stop(s) PROVE BundleKept'
  BY <1>21 DEF Stop, Goto, Ends, callVars, history, gitVars
<1>22. ASSUME NEW s \in Sessions, JudgeReenter(s) PROVE BundleKept'
  BY <1>22 DEF JudgeReenter, Goto, Ends, callVars, history, gitVars
<1>23. ASSUME NEW s \in Sessions, Reenter(s) PROVE BundleKept'
  BY <1>23 DEF Reenter, Goto, Ends, callVars, history, gitVars, Bundle, Record
<1>24. ASSUME Repository, UNCHANGED archiveVars PROVE BundleKept'
  BY <1>24 DEF archiveVars, callVars, history, gitVars
<1>25. ASSUME BecomeReady PROVE BundleKept'
  BY <1>25 DEF BecomeReady, callVars, history, gitVars, Record
<1>26. ASSUME Purge PROVE BundleKept'
  BY <1>26 DEF Purge, callVars, history, gitVars
<1>27. ASSUME UNCHANGED vars PROVE BundleKept'
  BY <1>27 DEF vars, archiveVars, callVars, history, gitVars
<1> QED
  BY <1>1, <1>2, <1>3, <1>4, <1>5, <1>6, <1>7, <1>8, <1>9, <1>10, <1>11, <1>12, <1>13,
     <1>14, <1>15, <1>16, <1>17, <1>18, <1>19, <1>20, <1>21, <1>22, <1>23, <1>24, <1>25,
     <1>26, <1>27
     DEF Next, Call

LEMMA TerminalStep ==
  ASSUME Formed, RefreshIsTerminal, [Next]_vars PROVE RefreshIsTerminal'
<1> USE NoneIsNoFile DEF Formed, ArchiveTypeOK, CallsFormed, InCall, Claiming, RefreshIsTerminal
<1>1. ASSUME NEW s \in Sessions, NEW m \in {"worktree", "main", "skip"}, Preflight(s, m)
    PROVE RefreshIsTerminal'
  BY <1>1 DEF Preflight, Goto, callVars, history, gitVars, Found, Loaded, ArchiveAllowed
<1>2. ASSUME NEW s \in Sessions, ReuseBundle(s) PROVE RefreshIsTerminal'
  BY <1>2 DEF ReuseBundle, Goto, callVars, history, gitVars, AfterBundle
<1>3. ASSUME NEW s \in Sessions, WriteBundle(s) PROVE RefreshIsTerminal'
  BY <1>3 DEF WriteBundle, Goto, callVars, history, gitVars
<1>4. ASSUME NEW s \in Sessions, WriteSummary(s) PROVE RefreshIsTerminal'
  BY <1>4 DEF WriteSummary, Goto, callVars, history, gitVars, AfterBundle
<1>5. ASSUME NEW s \in Sessions, CommitStep(s) PROVE RefreshIsTerminal'
  BY <1>5 DEF CommitStep, Goto, callVars, history, gitVars
<1>6. ASSUME NEW s \in Sessions, ShipMerged(s) PROVE RefreshIsTerminal'
  BY <1>6 DEF ShipMerged, Goto, callVars, history, gitVars
<1>7. ASSUME NEW s \in Sessions, ShipPushed(s) PROVE RefreshIsTerminal'
  BY <1>7 DEF ShipPushed, Goto, callVars, history, gitVars
<1>8. ASSUME NEW s \in Sessions, ShipLocal(s) PROVE RefreshIsTerminal'
  BY <1>8 DEF ShipLocal, Goto, callVars, history, gitVars
<1>9. ASSUME NEW s \in Sessions, HandoffStep(s) PROVE RefreshIsTerminal'
  BY <1>9 DEF HandoffStep, Goto, callVars, history, gitVars
<1>10. ASSUME NEW s \in Sessions, Handed(s) PROVE RefreshIsTerminal'
  BY <1>10 DEF Handed, Goto, callVars, history, gitVars
<1>11. ASSUME NEW s \in Sessions, RecordPending(s) PROVE RefreshIsTerminal'
  BY PendingFacts, <1>11 DEF RecordPending, Goto, Ends, callVars, history, gitVars
<1>12. ASSUME NEW s \in Sessions, RecordFailed(s) PROVE RefreshIsTerminal'
  BY <1>12 DEF RecordFailed, Goto, Ends, callVars, history, gitVars
<1>13. ASSUME NEW s \in Sessions, ProveFromMain(s) PROVE RefreshIsTerminal'
  BY <1>13 DEF ProveFromMain, Goto, callVars, history, gitVars
<1>14. ASSUME NEW s \in Sessions, CompleteGate(s) PROVE RefreshIsTerminal'
  BY <1>14 DEF CompleteGate, Goto, Ends, callVars, history, gitVars
<1>15. ASSUME NEW s \in Sessions, CompleteBundle(s) PROVE RefreshIsTerminal'
  BY RecoveredFacts, <1>15 DEF CompleteBundle, Goto, Ends, callVars, history, gitVars
<1>16. ASSUME NEW s \in Sessions, Replay(s) PROVE RefreshIsTerminal'
  BY RecoveredFacts, <1>16 DEF Replay, Goto, Ends, callVars, history, gitVars
<1>17. ASSUME NEW s \in Sessions, Transition(s) PROVE RefreshIsTerminal'
  BY TransitionFacts, <1>17 DEF Transition, Goto, callVars, history, gitVars
<1>18. ASSUME NEW s \in Sessions, RefreshBundle(s) PROVE RefreshIsTerminal'
  BY <1>18 DEF RefreshBundle, Goto, callVars, history, gitVars
<1>19. ASSUME NEW s \in Sessions, Cleanup(s) PROVE RefreshIsTerminal'
  BY <1>19 DEF Cleanup, Goto, callVars, history, gitVars
<1>20. ASSUME NEW s \in Sessions, RemoveSource(s) PROVE RefreshIsTerminal'
  BY <1>20 DEF RemoveSource, Goto, Ends, callVars, history, gitVars
<1>21. ASSUME NEW s \in Sessions, Stop(s) PROVE RefreshIsTerminal'
  BY <1>21 DEF Stop, Goto, Ends, callVars, history, gitVars
<1>22. ASSUME NEW s \in Sessions, JudgeReenter(s) PROVE RefreshIsTerminal'
  BY <1>22 DEF JudgeReenter, Goto, callVars, history, gitVars
<1>23. ASSUME NEW s \in Sessions, Reenter(s) PROVE RefreshIsTerminal'
  BY <1>23 DEF Reenter, Goto, Ends, callVars, history, gitVars
<1>24. ASSUME Repository, UNCHANGED archiveVars PROVE RefreshIsTerminal'
  BY <1>24 DEF archiveVars, callVars, history, gitVars
<1>25. ASSUME BecomeReady PROVE RefreshIsTerminal'
  BY <1>25 DEF BecomeReady, callVars, history, gitVars
<1>26. ASSUME Purge PROVE RefreshIsTerminal'
  BY <1>26 DEF Purge, callVars, history, gitVars
<1>27. ASSUME UNCHANGED vars PROVE RefreshIsTerminal'
  BY <1>27 DEF vars, archiveVars, callVars, history, gitVars
<1> QED
  BY <1>1, <1>2, <1>3, <1>4, <1>5, <1>6, <1>7, <1>8, <1>9, <1>10, <1>11, <1>12, <1>13,
     <1>14, <1>15, <1>16, <1>17, <1>18, <1>19, <1>20, <1>21, <1>22, <1>23, <1>24, <1>25,
     <1>26, <1>27
     DEF Next, Call

-----------------------------------------------------------------------------
\* Nothing archived, nothing claimed.
LEMMA InitIsArchiveInv == Init => ArchiveInv
<1> SUFFICES ASSUME Init PROVE ArchiveInv
  OBVIOUS
<1> USE NoneIsNoFile, GitBounds, CallBound DEF Init
<1>1. active \in Record /\ active # None
  <2>1. 0 \in 0 .. MaxPr /\ 0 \in 0 .. MaxTip
    OBVIOUS
  <2>2. NewRecord \in Record
    BY <2>1 DEF NewRecord, Record
  <2> QED
    BY <2>2
<1>2. GitTypeOK /\ TrunkHasMerged
  <2>1. prs \in Seq(PullRequest) /\ Len(prs) = 0 /\ prs = <<>>
    BY DEF GitInit
  <2>2. Merged = {}
    BY <2>1 DEF Merged
  <2>3. artifacts \in BOOLEAN /\ worktree \in BOOLEAN /\ route \in Routes
    BY DEF GitInit
  <2>4. /\ tip \in Tips /\ pushed \in 0 .. MaxTip /\ trunk \subseteq Tips
        /\ merged \in 0 .. MaxTip /\ local \in 0 .. MaxTip /\ Len(prs) <= MaxPr /\ merged = 0
    BY <2>1 DEF GitInit, Tips
  <2> QED
    BY <2>1, <2>2, <2>3, <2>4 DEF GitTypeOK, TrunkHasMerged
<1>3. ArchiveTypeOK
  <2>1. {overtaken, rewritten, purged} \subseteq BOOLEAN /\ found \in [Sessions -> BOOLEAN]
    BY Zenon
  <2>2. /\ bundle \in Bundle \cup {None} /\ pc \in [Sessions -> Places]
        /\ mode \in [Sessions -> Modes \cup {None}] /\ view \in [Sessions -> Record \cup {None}]
        /\ claim \in [Sessions -> Claim \cup {None}] /\ calls \in 0 .. MaxCalls
        /\ released \in Claim \cup {None}
    BY DEF Places
  <2> QED
    BY <1>1, <1>2, <2>1, <2>2 DEF ArchiveTypeOK
<1>4. Formed /\ ClaimsWorth /\ GatesClaimed /\ ReleasedWorth
  BY <1>3 DEF Formed, CallsFormed, InCall, Claiming, ClaimsWorth, ClaimWorth, Proved, GatesClaimed,
     ReleasedWorth, NewRecord
<1>5. /\ ReadyKept /\ OrderKept /\ HandedByNumber /\ SourceKept /\ RefreshIsTerminal
      /\ BundleKept
  BY <1>1 DEF InCall, ReadyKept, OrderKept, HandedByNumber, SourceKept, RefreshIsTerminal, NewRecord,
     BundleKept, TerminalBundle
<1> QED
  BY <1>2, <1>4, <1>5 DEF ArchiveInv

\* The invariant the theorems rest on.
LEMMA ArchiveInvariant == Spec => []ArchiveInv
<1>1. ArchiveInv /\ [Next]_vars => ArchiveInv'
  BY FormedStep, GitStep, WorthStep, ReleasedStep, GatesStep, ReadyStep, OrderStep, NumberStep,
     KeptStep, BundleStep, TerminalStep DEF ArchiveInv, Advances
<1> QED
  BY <1>1, InitIsArchiveInv, PTL DEF Spec

\* determinus_change_archive keeps the repository, the files and its calls well formed.
THEOREM ArchiveTyping == Spec => []ArchiveTypeOK
<1>1. ArchiveInv => ArchiveTypeOK
  BY DEF ArchiveInv, Formed
<1> QED
  BY <1>1, ArchiveInvariant, PTL

\* A session past finalization, and a completed release gate, rest on a claim that is worth
\* what its kind says, whatever is pushed, merged or closed in between.
THEOREM ClaimsAreWorthTheirKind == Spec => []ReleasedUnlessStaleProof
<1>1. ArchiveInv => ReleasedUnlessStaleProof
  BY DEF ArchiveInv, Formed, CallsFormed, Claiming, ClaimsWorth, ClaimWorth, Proved, GatesClaimed,
     ReleasedWorth, TerminalBundle, Terminal, ReleasedUnlessStaleProof
<1> QED
  BY <1>1, ArchiveInvariant, PTL

\* As long as a change is not purged, its source or a bundle that stands for it is there.
THEOREM ChangeIsNeverLost == Spec => []SourceKeptUntilTerminal
<1>1. ArchiveInv => SourceKeptUntilTerminal
  BY DEF ArchiveInv, SourceKept, Safe, GoodBundle, SourceKeptUntilTerminal
<1> QED
  BY <1>1, ArchiveInvariant, PTL

\* A change is archived with its gates and tasks done, unless a reentry comes between.
THEOREM ArchivedIsAccepted == Spec => []AcceptedUnlessOvertaken
<1>1. ArchiveInv => AcceptedUnlessOvertaken
  BY DEF ArchiveInv, ReadyKept, TerminalBundle, AcceptedUnlessOvertaken
<1> QED
  BY <1>1, ArchiveInvariant, PTL

\* Who writes a bundle: the write of a call that found none, the recovery, a refresh.
LEMMA BundleWriters ==
  ASSUME Next
  PROVE  \/ UNCHANGED bundle \/ Purge
         \/ \E s \in Sessions :
              WriteBundle(s) \/ WriteSummary(s) \/ CompleteBundle(s) \/ Replay(s) \/ RefreshBundle(s)
<1>1. ASSUME NEW s \in Sessions, Call(s)
      PROVE  \/ WriteBundle(s) \/ WriteSummary(s) \/ CompleteBundle(s) \/ Replay(s)
             \/ RefreshBundle(s) \/ UNCHANGED bundle
  BY <1>1 DEF Call, Preflight, ReuseBundle, CommitStep, ShipMerged, ShipPushed, ShipLocal,
     HandoffStep, Handed, RecordPending, RecordFailed, ProveFromMain, CompleteGate, Transition,
     Cleanup, RemoveSource, Stop, JudgeReenter, Reenter
<1> QED
  BY <1>1 DEF Next, BecomeReady, archiveVars

\* Who writes the record, as far as its lifecycle goes.
LEMMA LifecycleStep ==
  ASSUME Formed, Next, active # None, active' # None
  PROVE  /\ active.lifecycle = "archived" => active'.lifecycle = "archived"
<1>1. ASSUME NEW s \in Sessions, RecordPending(s) PROVE active'.lifecycle = active.lifecycle
  BY <1>1, PendingFacts
<1>2. ASSUME NEW s \in Sessions, Transition(s) PROVE active'.lifecycle = "archived"
  BY <1>2, TransitionFacts
<1>3. ASSUME NEW s \in Sessions, RecordFailed(s) \/ CompleteGate(s) \/ Reenter(s)
      PROVE  active'.lifecycle = active.lifecycle
  BY <1>3 DEF RecordFailed, CompleteGate, Reenter, Formed, ArchiveTypeOK, Record
<1>4. BecomeReady => active'.lifecycle = active.lifecycle
  BY DEF BecomeReady, Formed, ArchiveTypeOK, Record
<1>5. ASSUME NEW s \in Sessions, Call(s)
      PROVE  \/ RecordPending(s) \/ Transition(s) \/ RecordFailed(s) \/ CompleteGate(s) \/ Reenter(s)
             \/ active' \in {active, None}
  BY <1>5 DEF Call, Preflight, ReuseBundle, WriteBundle, WriteSummary, CommitStep, ShipMerged,
     ShipPushed, ShipLocal, HandoffStep, Handed, ProveFromMain, CompleteBundle, Replay,
     RefreshBundle, Cleanup, RemoveSource, Stop, JudgeReenter
<1> QED
  BY <1>1, <1>2, <1>3, <1>4, <1>5 DEF Next, Purge, archiveVars

\* A terminal bundle is set back only by a purge, by a session that had found none, or by
\* one that skips phase 9 and that a reentry has overtaken.
THEOREM TerminalBundlesStay == Spec => TerminalStays
<1> DEFINE Stays ==
      /\ (TerminalBundle /\ ~TerminalBundle')
           => \/ bundle' = None /\ purged'
              \/ \E s \in Sessions : pc[s] = "bundle" /\ ~found[s]
              \/ overtaken /\ \E s \in Sessions : pc[s] = "refresh" /\ mode[s] = "skip"
      /\ (active # None /\ active.lifecycle = "archived" /\ active' # None)
           => active'.lifecycle = "archived"
<1>1. ArchiveInv /\ [Next]_vars => [Stays]_vars
  <2> SUFFICES ASSUME ArchiveInv, Next PROVE Stays
    OBVIOUS
  <2> USE DEF ArchiveInv, Formed, ArchiveTypeOK, TerminalBundle, Terminal
  <2>1. ASSUME NEW s \in Sessions, WriteBundle(s) PROVE pc[s] = "bundle" /\ ~found[s]
    BY <2>1 DEF WriteBundle
  <2>2. ASSUME NEW s \in Sessions, WriteSummary(s), TerminalBundle PROVE TerminalBundle'
    <3>1. bundle \in Bundle /\ bundle' = [bundle EXCEPT !.summary = TRUE]
      BY <2>2 DEF WriteSummary
    <3>2. bundle' \in Bundle /\ bundle'.rec = bundle.rec
      BY <3>1 DEF Bundle
    <3> QED
      BY <2>2, <3>2, NoneIsNoFile
  <2>3. ASSUME NEW s \in Sessions, CompleteBundle(s) \/ Replay(s), TerminalBundle
        PROVE  TerminalBundle'
    <3>1. bundle \in Bundle /\ claim[s] \in Claim /\ bundle' \in {bundle, Recovered(claim[s])}
      BY <2>3 DEF CompleteBundle, Replay, CallsFormed, Claiming
    <3> QED
      BY <2>3, <3>1, RecoveredFacts, NoneIsNoFile
  <2>4. ASSUME NEW s \in Sessions, RefreshBundle(s)
        PROVE  TerminalBundle' \/ (overtaken /\ pc[s] = "refresh" /\ mode[s] = "skip")
    <3>1. view[s] \in Record /\ pc[s] = "refresh"
      BY <2>4 DEF RefreshBundle, CallsFormed, InCall
    <3>2. [rec |-> view[s], summary |-> TRUE] \in Bundle
      BY <3>1 DEF Bundle
    <3>3. bundle' # None /\ bundle'.rec = view[s]
      BY <2>4, <3>2, NoneIsNoFile DEF RefreshBundle
    <3> QED
      BY <3>1, <3>3 DEF RefreshIsTerminal
  <2>5. Purge => bundle' = None /\ purged'
    BY DEF Purge
  <2>6. UNCHANGED bundle => TerminalBundle' = TerminalBundle
    OBVIOUS
  <2>7. /\ (TerminalBundle /\ ~TerminalBundle')
             => \/ bundle' = None /\ purged'
                \/ \E s \in Sessions : pc[s] = "bundle" /\ ~found[s]
                \/ overtaken /\ \E s \in Sessions : pc[s] = "refresh" /\ mode[s] = "skip"
    <3> HIDE DEF TerminalBundle
    <3> QED
      BY <2>1, <2>2, <2>3, <2>4, <2>5, <2>6, BundleWriters
  <2> QED
    BY <2>7, LifecycleStep
<1> QED
  BY <1>1, ArchiveInvariant, PTL DEF Spec, TerminalStays

\* The bundle is made terminal, and the source removed, only from an archived record.
THEOREM ArchivingIsOrdered == Spec => ArchivedInOrder
<1> DEFINE Ordered ==
      /\ (~TerminalBundle /\ TerminalBundle' /\ active # None)
           => active.lifecycle = "archived"
      /\ (active # None /\ active' = None /\ ~purged')
           => active.lifecycle = "archived"
<1>1. ArchiveInv /\ [Next]_vars => [Ordered]_vars
  <2> SUFFICES ASSUME ArchiveInv, Next, active # None PROVE Ordered
    BY DEF vars, archiveVars
  <2> USE DEF ArchiveInv, Formed, ArchiveTypeOK, TerminalBundle, Terminal
  <2>1. ASSUME NEW s \in Sessions, WriteBundle(s), TerminalBundle'
        PROVE  active.lifecycle = "archived"
    <3>1. bundle'.rec = view[s] /\ view[s] # None
      BY <2>1 DEF WriteBundle, CallsFormed, InCall
    <3> QED
      BY <2>1, <3>1 DEF OrderKept, SourceArchived
  <2>2. ASSUME NEW s \in Sessions, WriteSummary(s), TerminalBundle' PROVE TerminalBundle
    <3>1. bundle \in Bundle /\ bundle' = [bundle EXCEPT !.summary = TRUE]
      BY <2>2 DEF WriteSummary
    <3>2. bundle'.rec = bundle.rec
      BY <3>1 DEF Bundle
    <3> QED
      BY <2>2, <3>1, <3>2, NoneIsNoFile
  <2>3. ASSUME NEW s \in Sessions, CompleteBundle(s) PROVE FALSE
    BY <2>3 DEF CompleteBundle
  <2>4. ASSUME NEW s \in Sessions, Replay(s) \/ RefreshBundle(s)
        PROVE  active.lifecycle = "archived"
    BY <2>4 DEF Replay, RefreshBundle, OrderKept, SourceArchived
  <2>5. Purge => ~TerminalBundle' /\ purged'
    BY DEF Purge
  <2>6. (~TerminalBundle /\ TerminalBundle') => active.lifecycle = "archived"
    <3> HIDE DEF TerminalBundle
    <3>1. UNCHANGED bundle => TerminalBundle' = TerminalBundle
      BY DEF TerminalBundle
    <3> QED
      BY <2>1, <2>2, <2>3, <2>4, <2>5, <3>1, BundleWriters
  <2>7. (active' = None /\ ~purged') => active.lifecycle = "archived"
    <3>1. ASSUME NEW s \in Sessions, RemoveSource(s) PROVE active.lifecycle = "archived"
      BY <3>1 DEF RemoveSource, OrderKept, SourceArchived
    <3>2. ASSUME NEW s \in Sessions, Call(s), ~RemoveSource(s) PROVE active' # None
      <4>1. RecordFailed(s) \/ CompleteGate(s) \/ Reenter(s) => active' \in Record
        BY DEF RecordFailed, CompleteGate, Reenter, Record, CallsFormed, InCall
      <4>2. \/ RecordPending(s) \/ Transition(s) \/ RecordFailed(s) \/ CompleteGate(s) \/ Reenter(s)
            \/ UNCHANGED active
        BY <3>2 DEF Call, Preflight, ReuseBundle, WriteBundle, WriteSummary, CommitStep, ShipMerged,
           ShipPushed, ShipLocal, HandoffStep, Handed, ProveFromMain, CompleteBundle, Replay,
           RefreshBundle, Cleanup, Stop, JudgeReenter
      <4> QED
        BY <4>1, <4>2, PendingFacts, TransitionFacts, NoneIsNoFile
    <3>3. BecomeReady => active' # None
      <4>1. BecomeReady => active' \in Record
        BY DEF BecomeReady, Record
      <4> QED
        BY <4>1, NoneIsNoFile
    <3> QED
      BY <3>1, <3>2, <3>3, <2>5 DEF Next, archiveVars
  <2> QED
    BY <2>6, <2>7
<1> QED
  BY <1>1, ArchiveInvariant, PTL DEF Spec, ArchivedInOrder

-----------------------------------------------------------------------------
\* What it takes for a released change not to be on origin.

\* A session holds its claim to be proved.
Holds(s) == pc[s] \in Proved \/ (pc[s] \in {"bundle", "summary"} /\ mode[s] = "skip")

\* A claim is about a tip the branch has reached, and a proved one is not a local merge.
Sound(c) == c.aim <= tip /\ c.kind # "local"
SoundClaims ==
  /\ \A s \in Sessions : claim[s] # None => claim[s].aim <= tip /\ (Holds(s) => Sound(claim[s]))
  /\ released # None => Sound(released)

\* A claim from main is of the tip of today, and never a local one.
LEMMA MainClaimsSound ==
  ASSUME GitTypeOK, TrunkHasMerged, NEW r \in Record, NEW c \in MainClaims(r)
  PROVE  c.aim = tip /\ c.kind # "local"
<1>1. PICK p \in EvidenceFromMain(r) :
        c = [kind |-> p.kind, shown |-> p.shown, pr |-> p.pr, aim |-> tip, tip |-> r.tip]
  BY DEF MainClaims, Claimed
<1> QED
  BY <1>1, EvidenceShows DEF Shows

\* How the claim of the calling session changes: it is kept, dropped, proved from main
\* or for a replay, begun with the commit of the artifacts, or rested on another proof.
ClaimMoves(s) ==
  \/ claim'[s] = claim[s] /\ (Holds(s)' => Holds(s))
  \/ claim'[s] = None
  \/ tip' = tip /\ \E r \in Record : claim'[s] \in MainClaims(r) \cup ReplayClaims(r)
  \/ tip' = tip /\ claim'[s].aim = tip /\ ~Holds(s)'
  \/ /\ claim[s] # None
     /\ tip' = tip /\ claim'[s].aim = claim[s].aim
     /\ claim'[s].kind = "local" => local >= tip

LEMMA ClaimStep ==
  ASSUME Formed, TrunkHasMerged, NEW s \in Sessions, Call(s)
  PROVE  /\ ClaimMoves(s)
         /\ \A u \in Sessions \ {s} : pc'[u] = pc[u] /\ mode'[u] = mode[u] /\ claim'[u] = claim[u]
<1> DEFINE Others ==
      \A u \in Sessions \ {s} : pc'[u] = pc[u] /\ mode'[u] = mode[u] /\ claim'[u] = claim[u]
<1> USE DEF Formed, ArchiveTypeOK
<1>1. ASSUME NEW m \in {"worktree", "main", "skip"}, Preflight(s, m)
      PROVE  ClaimMoves(s) /\ Others
  <2>1. Loaded \in Record
    BY <1>1, LoadedFacts DEF Preflight, ArchiveAllowed
  <2>2. claim'[s] \in MainClaims(Loaded) \cup ReplayClaims(Loaded) \/ claim'[s] = None
    BY <1>1 DEF Preflight
  <2> QED
    BY <1>1, <2>1, <2>2 DEF Preflight, ClaimMoves, Goto, gitVars
<1>2. CASE ReuseBundle(s) \/ WriteBundle(s) \/ WriteSummary(s)
  BY <1>2 DEF ReuseBundle, WriteBundle, WriteSummary, AfterBundle, Goto, ClaimMoves, Holds, Proved,
     CallsFormed
<1>3. CASE CommitStep(s)
  BY <1>3 DEF CommitStep, CommitArtifacts, Claimed, Goto, ClaimMoves, Holds, Proved
<1>4. ASSUME NEW p, Rests(s, p), pc[s] \in {"release", "armed"}, UNCHANGED <<tip, mode>>,
             p.kind \in {"pushed", "local", "exact", "number", "tree", "ancestor"},
             p.shown \in 0 .. MaxTip, p.pr \in 0 .. MaxPr, p.kind = "local" => local >= tip,
             NEW place, Goto(s, place)
      PROVE  ClaimMoves(s) /\ Others
  <2>1. claim[s] # None
    BY <1>4 DEF CallsFormed, Claiming
  <2> QED
    BY <1>4, <2>1, RestsFacts DEF ClaimMoves, Goto
<1>5. CASE ShipMerged(s)
  <2>1. PICK p \in ExactProofs(claim[s].aim) : Rests(s, p)
    BY <1>5 DEF ShipMerged, AlreadyMerged
  <2>2. Shows(p)
    BY ExactShows
  <2> QED
    BY <1>4, <1>5, <2>1, <2>2, GitBounds DEF ShipMerged, gitVars, Shows, Tips
<1>6. CASE ShipPushed(s)
  <2>1. tip \in 0 .. MaxTip /\ 0 \in 0 .. MaxPr
    BY TipFacts
  <2> QED
    BY <1>4, <1>6, <2>1 DEF ShipPushed, MergeAndPush, Proof
<1>7. CASE ShipLocal(s)
  <2>1. 0 \in 0 .. MaxTip /\ 0 \in 0 .. MaxPr
    BY TipFacts
  <2> QED
    BY <1>4, <1>7, <2>1 DEF ShipLocal, NothingToMerge, gitVars, Proof
<1>8. CASE HandoffStep(s)
  <2>1. Len(prs') \in 0 .. MaxPr /\ 0 \in 0 .. MaxTip
    BY <1>8, TipFacts, HandoffAdvances DEF HandoffStep, Advances, GitTypeOK
  <2> QED
    BY <1>4, <1>8, <2>1 DEF HandoffStep, Handoff, Proof
<1>9. CASE Handed(s)
  <2>1. ASSUME NEW p \in NumberProofs(claim[s].pr), Rests(s, p), Goto(s, "gate")
        PROVE  ClaimMoves(s) /\ Others
    <3>1. Shows(p)
      BY NumberShows
    <3> QED
      BY <1>4, <1>9, <2>1, <3>1, GitBounds DEF Handed, gitVars, Shows, Tips
  <2>2. CASE Goto(s, "pending") /\ UNCHANGED claim
    BY <1>9, <2>2 DEF Handed, Goto, ClaimMoves, Holds, Proved
  <2> QED
    BY <1>9, <2>1, <2>2 DEF Handed
<1>10. CASE Ends(s)
  BY <1>10 DEF Ends, Goto, ClaimMoves
<1>11. CASE ProveFromMain(s)
  <2>1. view[s] \in Record
    BY <1>11 DEF ProveFromMain, CallsFormed, InCall
  <2> QED
    BY <1>11, <2>1 DEF ProveFromMain, Goto, ClaimMoves, gitVars
<1>12. CASE /\ pc[s] \in Proved /\ UNCHANGED <<mode, claim>>
            /\ \E place \in Places : Goto(s, place)
  BY <1>12 DEF Goto, ClaimMoves, Holds
<1>13. CASE JudgeReenter(s)
  BY <1>13 DEF JudgeReenter, Goto, ClaimMoves, Holds, Proved
<1>14. CASE CompleteGate(s) \/ Replay(s) \/ Transition(s) \/ RefreshBundle(s) \/ Cleanup(s)
  BY <1>10, <1>12, <1>14 DEF CompleteGate, Replay, Transition, RefreshBundle, Cleanup, Proved, Places
<1>15. CASE RecordPending(s) \/ RecordFailed(s) \/ CompleteBundle(s) \/ RemoveSource(s) \/ Stop(s)
              \/ Reenter(s)
  BY <1>10, <1>15 DEF RecordPending, RecordFailed, CompleteBundle, RemoveSource, Stop, Reenter
<1> QED
  BY <1>1, <1>2, <1>3, <1>5, <1>6, <1>7, <1>8, <1>9, <1>11, <1>13, <1>14, <1>15 DEF Call

\* Only an unpushed merge into the local default branch lets a claim be local.
LEMMA SoundClaimsKept ==
  ASSUME Formed, TrunkHasMerged, SoundClaims, local = 0, [Next]_vars PROVE SoundClaims'
<1> USE DEF Formed, ArchiveTypeOK
<1>1. tip <= tip' /\ tip \in Int /\ tip' \in Int /\ tip >= 1
  BY GitStep, GitBounds DEF Advances, GitTypeOK, Tips
<1>2. \A c \in Claim : c.aim \in Int
  BY GitBounds DEF Claim, Tips
<1>3. ASSUME NEW u \in Sessions, claim'[u] # None
      PROVE  claim'[u].aim <= tip' /\ (Holds(u)' => Sound(claim[u])')
  <2>1. CASE claim'[u] = claim[u] /\ (Holds(u)' => Holds(u))
    <3>1. claim[u] \in Claim /\ claim[u].aim <= tip
      BY <1>3, <2>1 DEF SoundClaims
    <3> QED
      BY <1>1, <1>2, <1>3, <2>1, <3>1 DEF SoundClaims, Sound
  <2>2. CASE ClaimMoves(u)
    <3>1. ASSUME tip' = tip, NEW r \in Record,
                 claim'[u] \in MainClaims(r) \cup ReplayClaims(r)
          PROVE  claim'[u].aim <= tip' /\ Sound(claim[u])'
      BY <1>1, <3>1, MainClaimsSound, ReplayClaimsWorth DEF Sound
    <3>2. CASE tip' = tip /\ claim'[u].aim = tip /\ ~Holds(u)'
      BY <1>1, <3>2
    <3>3. CASE /\ claim[u] # None
               /\ tip' = tip /\ claim'[u].aim = claim[u].aim
               /\ claim'[u].kind = "local" => local >= tip
      BY <1>1, <3>3 DEF SoundClaims, Sound
    <3> QED
      BY <1>3, <2>1, <2>2, <3>1, <3>2, <3>3 DEF ClaimMoves
  <2>3. CASE pc'[u] = pc[u] /\ mode'[u] = mode[u] /\ claim'[u] = claim[u]
    BY <2>1, <2>3 DEF Holds
  <2> QED
    BY <2>2, <2>3, ClaimStep DEF Next, BecomeReady, Purge, vars, archiveVars, callVars
<1>4. released' # None => Sound(released)'
  <2>1. \/ UNCHANGED released
        \/ \E s \in Sessions : released' = claim[s] /\ pc[s] \in Proved
    <3>1. ASSUME NEW s \in Sessions, Call(s)
          PROVE  UNCHANGED released \/ (released' = claim[s] /\ pc[s] \in Proved)
      BY <3>1, GateClaims
    <3> QED
      BY <3>1 DEF Next, BecomeReady, Purge, vars, archiveVars, history
  <2>2. released' # None => released' \in Claim /\ Sound(released')
    BY <2>1 DEF SoundClaims, Holds, CallsFormed, Claiming, Proved
  <2> QED
    BY <1>1, <1>2, <2>2 DEF Sound
<1> QED
  BY <1>3, <1>4 DEF SoundClaims

\* Nobody merges the branch into the local default branch without a push, and nobody
\* commits to the branch when work of it is on the trunk.
Unmoved == local = 0 /\ \A k \in trunk : tip <= k

\* What the remediation texts promise holds wherever neither happens: a release gate is
\* completed only when the branch it was asked to release is on origin.  These two are
\* therefore all it takes for ShippedIsReleased to be violated.
THEOREM ShippedUnlessMoved == Spec /\ []Unmoved => []ShippedIsReleased
<1>1. Init => SoundClaims
  BY DEF Init, SoundClaims, Holds, Proved
<1>2. ArchiveInv /\ Unmoved /\ SoundClaims /\ [Next]_vars => SoundClaims'
  BY SoundClaimsKept DEF ArchiveInv, Unmoved
<1>3. ArchiveInv /\ Unmoved /\ SoundClaims => ShippedIsReleased
  <2> SUFFICES ASSUME ArchiveInv, Unmoved, SoundClaims, released # None
               PROVE  Released(released.aim)
    BY DEF ShippedIsReleased
  <2>1. released \in Claim /\ Worth(released) /\ released.kind # "local" /\ released.aim <= tip
    BY DEF ArchiveInv, Formed, ArchiveTypeOK, ReleasedWorth, SoundClaims, Sound
  <2>2. released.aim \in Int /\ tip \in Int /\ trunk \subseteq Int
    BY <2>1, GitBounds DEF ArchiveInv, Formed, ArchiveTypeOK, GitTypeOK, Tips, Claim
  <2>3. CASE released.kind = "pushed"
    BY <2>1, <2>3 DEF Worth
  <2>4. CASE released.kind # "pushed"
    <3>1. \E k \in trunk : TRUE
      BY <2>1, <2>4 DEF Worth, Released, Claim
    <3> QED
      BY <2>1, <2>2, <3>1 DEF Unmoved, Released
  <2> QED
    BY <2>3, <2>4
<1> QED
  BY <1>1, <1>2, <1>3, ArchiveInvariant, PTL DEF Spec

-----------------------------------------------------------------------------
\* One session at a time: what only a second one can do.

OneSession == \A s, u \in Sessions : s = u

\* What the session has judged is still so: the change it reenters is active and has no
\* bundle, and the bundle it had not found is not there.
JudgedStillSo ==
  /\ ~overtaken /\ ~rewritten
  /\ \A s \in Sessions :
       /\ pc[s] = "reenter" => active # None /\ active.lifecycle = "active" /\ bundle = None
       /\ pc[s] = "bundle" /\ ~found[s] => bundle = None

LEMMA JudgedStays ==
  ASSUME OneSession, ArchiveInv, JudgedStillSo, [Next]_vars PROVE JudgedStillSo'
<1> USE DEF ArchiveInv, Formed, ArchiveTypeOK
<1>1. ASSUME NEW s \in Sessions, Call(s) PROVE JudgedStillSo'
  <2>1. ~overtaken'
    <3>1. CASE Reenter(s)
      <4>1. active.lifecycle # "archived"
        BY <3>1 DEF Reenter, JudgedStillSo
      <4>2. \A other \in Sessions : pc[other] = "reenter"
        BY <3>1 DEF Reenter, OneSession
      <4> QED
        BY <3>1, <4>1, <4>2, Zenon DEF Reenter, JudgedStillSo
    <3>2. CASE UNCHANGED overtaken
      BY <3>2 DEF JudgedStillSo
    <3>3. Reenter(s) \/ UNCHANGED overtaken
      BY <1>1 DEF Call, Preflight, ReuseBundle, WriteBundle, WriteSummary, CommitStep, ShipMerged,
         ShipPushed, ShipLocal, HandoffStep, Handed, RecordPending, RecordFailed, ProveFromMain,
         CompleteGate, CompleteBundle, Replay, Transition, RefreshBundle, Cleanup, RemoveSource,
         Stop, JudgeReenter, history
    <3> QED
      BY <3>1, <3>2, <3>3
  <2>2. ~rewritten'
    <3>1. CASE WriteBundle(s)
      <4>1. bundle = None /\ ~rewritten
        BY <3>1 DEF WriteBundle, JudgedStillSo
      <4> QED
        BY <3>1, <4>1, Zenon DEF WriteBundle
    <3>2. CASE UNCHANGED rewritten
      BY <3>2 DEF JudgedStillSo
    <3>3. WriteBundle(s) \/ UNCHANGED rewritten
      BY <1>1 DEF Call, Preflight, ReuseBundle, WriteSummary, CommitStep, ShipMerged, ShipPushed,
         ShipLocal, HandoffStep, Handed, RecordPending, RecordFailed, ProveFromMain, CompleteGate,
         CompleteBundle, Replay, Transition, RefreshBundle, Cleanup, RemoveSource, Stop,
         JudgeReenter, Reenter, history
    <3> QED
      BY <3>1, <3>2, <3>3
  <2>3. /\ pc'[s] = "reenter" => JudgeReenter(s)
        /\ pc'[s] = "bundle" => \E m \in {"worktree", "main", "skip"} : Preflight(s, m)
    <3>1. CASE ReuseBundle(s) \/ WriteSummary(s)
      BY <3>1 DEF ReuseBundle, WriteSummary, AfterBundle, CallsFormed, Goto
    <3>2. CASE WriteBundle(s) \/ CommitStep(s) \/ ShipMerged(s) \/ ShipPushed(s) \/ ShipLocal(s)
                 \/ HandoffStep(s) \/ Handed(s) \/ ProveFromMain(s) \/ Transition(s)
                 \/ RefreshBundle(s) \/ Cleanup(s)
      BY <3>2 DEF WriteBundle, CommitStep, ShipMerged, ShipPushed, ShipLocal, HandoffStep, Handed,
         ProveFromMain, Transition, RefreshBundle, Cleanup, Goto
    <3>3. CASE CompleteGate(s) \/ Replay(s)
      BY <3>3 DEF CompleteGate, Replay, Goto, Ends
    <3>4. CASE RecordPending(s) \/ RecordFailed(s) \/ CompleteBundle(s) \/ RemoveSource(s)
                 \/ Stop(s) \/ Reenter(s)
      BY <3>4 DEF RecordPending, RecordFailed, CompleteBundle, RemoveSource, Stop, Reenter, Goto, Ends
    <3>5. ASSUME NEW m \in {"worktree", "main", "skip"}, Preflight(s, m) PROVE pc'[s] # "reenter"
      BY <3>5 DEF Preflight, Goto
    <3>6. JudgeReenter(s) => pc'[s] = "reenter"
      BY DEF JudgeReenter, Goto
    <3> QED
      BY <1>1, <3>1, <3>2, <3>3, <3>4, <3>5, <3>6 DEF Call
  <2>4. pc'[s] = "reenter" => active' # None /\ active'.lifecycle = "active" /\ bundle' = None
    BY <2>3 DEF JudgeReenter, ReadsArchived, Record
  <2>5. pc'[s] = "bundle" /\ ~found'[s] => bundle' = None
    BY <2>3 DEF Preflight
  <2> QED
    BY <2>1, <2>2, <2>4, <2>5 DEF JudgedStillSo, OneSession
<1>2. CASE BecomeReady
  <2>1. active' \in Record /\ active'.lifecycle = active.lifecycle
    BY <1>2 DEF BecomeReady, Record
  <2> QED
    BY <1>2, <2>1, NoneIsNoFile DEF BecomeReady, JudgedStillSo, callVars, history
<1>3. CASE Purge
  BY <1>3 DEF Purge, Purgeable, ReadsArchived, JudgedStillSo, callVars
<1>4. CASE UNCHANGED archiveVars
  BY <1>4 DEF archiveVars, callVars, history, JudgedStillSo
<1> QED
  BY <1>1, <1>2, <1>3, <1>4 DEF Next, vars

\* A session alone always finds what it judged: nothing of an archive is undone but by a
\* purge, and a change that has lost its source has a terminal bundle, archived with its
\* gates and tasks done.  Every exception of SourceKeptUntilTerminal,
\* AcceptedUnlessOvertaken and TerminalStays but the purge is the work of a second session.
THEOREM ArchivedAlone ==
  ASSUME OneSession
  PROVE  Spec => /\ [](\/ purged \/ active # None
                       \/ TerminalBundle /\ bundle.summary /\ bundle.rec.ready)
                 /\ [][TerminalBundle => TerminalBundle' \/ (bundle' = None /\ purged')]_vars
<1> DEFINE Kept == \/ purged \/ active # None
                   \/ TerminalBundle /\ bundle.summary /\ bundle.rec.ready
           Stays == TerminalBundle => TerminalBundle' \/ (bundle' = None /\ purged')
           Excepted ==
             /\ (TerminalBundle /\ ~TerminalBundle')
                  => \/ bundle' = None /\ purged'
                     \/ \E s \in Sessions : pc[s] = "bundle" /\ ~found[s]
                     \/ overtaken /\ \E s \in Sessions : pc[s] = "refresh" /\ mode[s] = "skip"
             /\ (active # None /\ active.lifecycle = "archived" /\ active' # None)
                  => active'.lifecycle = "archived"
<1>1. Init => JudgedStillSo
  BY DEF Init, JudgedStillSo
<1>2. ArchiveInv /\ JudgedStillSo /\ [Next]_vars => JudgedStillSo'
  BY JudgedStays
<1>3. ArchiveInv /\ JudgedStillSo => Kept
  BY DEF ArchiveInv, JudgedStillSo, SourceKept, Safe, GoodBundle, ReadyKept, TerminalBundle
<1>4. JudgedStillSo /\ [Excepted]_vars => [Stays]_vars
  BY DEF JudgedStillSo, TerminalBundle
<1>5. Spec => [][Excepted]_vars
  BY TerminalBundlesStay DEF TerminalStays
<1>6. Spec => []JudgedStillSo
  BY <1>1, <1>2, ArchiveInvariant, PTL DEF Spec
<1>7. Spec => []Kept
  BY <1>3, <1>6, ArchiveInvariant, PTL
<1>8. Spec => [][Stays]_vars
  <2> HIDE DEF Stays, Excepted
  <2> QED
    BY <1>4, <1>5, <1>6, PTL
<1> QED
  BY <1>7, <1>8
=============================================================================
