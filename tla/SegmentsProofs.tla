---------------------------- MODULE SegmentsProofs ----------------------------
(***************************************************************************)
(* How segments come to be shown.  The git segment, in any repository,     *)
(* under any options, and whatever is done with git before: what it says   *)
(* of HEAD, the operation in progress and the changes is so.  A block, of  *)
(* any segments, with any timeouts: it shows them in the order of the      *)
(* list, each by its type's answer and as if they executed in that order,  *)
(* and its drawing never waits for nothing.  The toggles, for any sessions, names  *)
(* and calls: a user's last word stands, and a live session has what the   *)
(* config gained except after one of the named overlaps.                   *)
(***************************************************************************)
EXTENDS GitSegment, BlockRender, SegmentToggles, FiniteSetTheorems, WellFoundedInduction,
        TLAPS

-----------------------------------------------------------------------------
(* The git segment.                                                        *)

(* A head that a work tree has.                                            *)
IsHead(head) == head.kind \in {"branch", "detached"}

(* The repository that git keeps.  It has commits where HEAD is detached   *)
(* or an operation stopped, and those need a work tree.  A merge has a     *)
(* message; a rebase knows where it began and is on no branch.             *)
RepoFields == DOMAIN repo =
    {"layout", "unborn", "reftable", "head", "back", "tagged", "op", "of", "step", "more",
     "committed", "changes", "upstream", "ahead", "behind", "remote", "worktrees"}

Kept ==
    /\ RepoFields
    /\ repo.unborn \in BOOLEAN /\ repo.reftable \in BOOLEAN /\ repo.tagged \in BOOLEAN
    /\ repo.more \in BOOLEAN /\ repo.committed \in BOOLEAN
    /\ IsHead(repo.head)
    /\ repo.op \in {"none", "merge", "rebase", "apply", "pick", "revert"}
    /\ repo.op \in {"rebase", "apply"} => IsHead(repo.back)
    /\ repo.op = "merge" => repo.of \in {"branch", "tag", "commit", "other words"}
    /\ repo.op \in {"pick", "revert"} => repo.of \in {"commit", "merge commit"}
    /\ repo.unborn => repo.op = "none" /\ repo.head.kind = "branch"
    /\ repo.layout = "bare" => repo.op = "none" /\ repo.head.kind = "branch"

(* What git status has to tell.                                            *)
Listed ==
    /\ IsFiniteSet(DOMAIN repo.changes)
    /\ \A f \in DOMAIN repo.changes :
          repo.changes[f].x \in Codes /\ repo.changes[f].y \in Codes
    /\ repo.upstream \in {"none", "gone", "live"}
    /\ repo.ahead \in Nat /\ repo.behind \in Nat

(* What an execution shows has the fields of the segment's writer.         *)
Fields == {"enabled", "isBare", "isWorkTree", "head", "ref", "detached", "merge", "cherryPick",
           "revert", "rebase", "working", "staging", "upstream", "gone", "ahead", "behind",
           "branchStatus", "pushRemote", "icon", "worktreeCount"}

(* What it told g of the changes and of the upstream: no conflict is told  *)
(* apart, for g knows of no merge or rebase yet.                           *)
InWorkTree == [f \in DOMAIN repo.changes |-> repo.changes[f].y]
InIndex == [f \in DOMAIN repo.changes |->
               IF repo.changes[f].y = "?" THEN "." ELSE repo.changes[f].x]

Lists(g) ==
    /\ DOMAIN g = Fields
    /\ g.working = Counts(InWorkTree) /\ g.staging = Counts(InIndex)
    /\ g.upstream = (IF repo.upstream = "none" THEN NoRemote ELSE "origin")
    /\ g.gone <=> repo.upstream /= "live"
    /\ g.ahead = (IF repo.upstream = "live" THEN repo.ahead ELSE 0)
    /\ g.behind = (IF repo.upstream = "live" THEN repo.behind ELSE 0)

(* What the first half of an execution has read, if no command ran since.  *)
FirstRead ==
    /\ DOMAIN git = Fields
    /\ git.isBare = IsBare
    /\ git.head = Says("none", "none", NoHead) /\ git.rebase = NoRebase
    /\ ~git.detached /\ ~git.merge /\ ~git.cherryPick /\ ~git.revert
    /\ ~IsBare /\ FetchesStatus /\ WorkTree =>
          git.ref = IF repo.head.kind = "branch" THEN repo.head
                    ELSE [kind |-> "detached", name |-> <<>>]
    /\ ~IsBare /\ FetchesStatus /\ WorkTree => Lists(git)

Stages ==
    /\ reading \in {"idle", "status", "done"}
    /\ reading = "status" /\ quiet => FirstRead

Truthful == Kept /\ Listed /\ Stages /\ HeadTellsTheState /\ StatusTellsTheChanges

-----------------------------------------------------------------------------
LEMMA TruthfulInit == GitInit => Truthful
  <1> SUFFICES ASSUME GitInit PROVE Truthful
    OBVIOUS
  <1>1. Kept
    BY DEF GitInit, Kept, RepoFields, IsHead
  <1>2. Stages /\ HeadTellsTheState /\ StatusTellsTheChanges
    BY DEF GitInit, Stages, HeadTellsTheState, StatusTellsTheChanges, Undisturbed
  <1>3. Listed
    <2>1. IsFiniteSet(DOMAIN repo.changes) /\ DOMAIN repo.changes = {}
      BY FS_EmptySet DEF GitInit
    <2> QED
      BY <2>1 DEF Listed, GitInit
  <1> QED
    BY <1>1, <1>2, <1>3 DEF Truthful

-----------------------------------------------------------------------------
(* A command: the repository it leaves is one that git keeps, and what was *)
(* read before it is not claimed of it.                                    *)
LEMMA CommandUndisturbs ==
  ASSUME NEW changed, Truthful, Runs(changed), Kept', Listed'
  PROVE  Truthful'
  BY DEF Runs, Truthful, Stages, HeadTellsTheState, StatusTellsTheChanges, Undisturbed

LEMMA KeptByCommand ==
  ASSUME Kept,
         Switch \/ Change \/ Commit \/ Tag \/ Remote \/ StopMerge \/ StopRebase \/ StopPick
         \/ NextStep \/ CommitInTheMiddle \/ EndOperation
  PROVE  Kept'
  <1> USE DEF Kept, RepoFields, IsHead, Runs, Resting, WorkTree
  <1>1. CASE Switch
    <2>1. PICK head \in {[kind |-> "branch", name |-> b] : b \in Branches}
                          \cup {[kind |-> "detached", name |-> <<>>]} :
                 Runs([repo EXCEPT !.head = head, !.tagged = FALSE])
      BY <1>1, Zenon DEF Switch
    <2>2. (\E b : head = [kind |-> "branch", name |-> b])
            \/ head = [kind |-> "detached", name |-> <<>>]
      BY <2>1
    <2>3. CASE \E b : head = [kind |-> "branch", name |-> b]
      <3>1. PICK b : head = [kind |-> "branch", name |-> b]
        BY <2>3
      <3> QED
        BY <1>1, <2>1, <3>1 DEF Switch
    <2>4. CASE head = [kind |-> "detached", name |-> <<>>]
      BY <1>1, <2>1, <2>4 DEF Switch
    <2> QED
      BY <2>2, <2>3, <2>4
  <1>2. CASE Change
    BY <1>2 DEF Change
  <1>3. CASE Commit
    BY <1>3 DEF Commit
  <1>4. CASE Tag
    BY <1>4 DEF Tag
  <1>5. CASE Remote
    BY <1>5 DEF Remote
  <1>6. CASE StopMerge
    <2>1. PICK of \in {"branch", "tag", "commit", "other words"} :
                 Stop([repo EXCEPT !.op = "merge", !.of = of])
      BY <1>6 DEF StopMerge
    <2> QED
      BY <2>1 DEF Stop
  <1>7. CASE StopRebase
    BY <1>7 DEF StopRebase, Stop
  <1>8. CASE StopPick
    <2>1. PICK op \in {"pick", "revert"}, of \in {"commit", "merge commit"}, more \in BOOLEAN :
                 Stop([repo EXCEPT !.op = op, !.of = of, !.more = more, !.committed = FALSE])
      BY <1>8 DEF StopPick
    <2> QED
      BY <2>1 DEF Stop
  <1>9. CASE NextStep
    BY <1>9 DEF NextStep
  <1>10. CASE CommitInTheMiddle
    BY <1>10 DEF CommitInTheMiddle
  <1>11. CASE EndOperation
    BY <1>11 DEF EndOperation
  <1> QED
    BY <1>1, <1>2, <1>3, <1>4, <1>5, <1>6, <1>7, <1>8, <1>9, <1>10, <1>11

LEMMA ListedByCommand ==
  ASSUME Kept, Listed,
         Switch \/ Change \/ Commit \/ Tag \/ Remote \/ StopMerge \/ StopRebase \/ StopPick
         \/ NextStep \/ CommitInTheMiddle \/ EndOperation
  PROVE  Listed'
  <1> DEFINE Fine(codes) ==
          /\ IsFiniteSet(DOMAIN codes)
          /\ \A f \in DOMAIN codes : codes[f].x \in Codes /\ codes[f].y \in Codes
  <1>0. \A n \in 0 .. 1 : n \in Nat
    OBVIOUS
  <1>1. Fine([f \in {} |-> NoHead])
    BY FS_EmptySet
  <1>2. Fine([f \in Files |-> [x |-> "A", y |-> "A"]])
    BY GitAssumption DEF Codes
  <1>3. Fine(repo.changes)
    BY DEF Listed
  <1>4. ASSUME NEW changed \in SUBSET Files, NEW codes \in [changed -> Changes]
        PROVE  Fine(codes)
    <2>1. IsFiniteSet(changed)
      BY GitAssumption, FS_Subset
    <2> QED
      BY <2>1, GitAssumption
  <1>5. ASSUME NEW changed, Runs(changed), Fine(changed.changes),
               changed.upstream \in {"none", "gone", "live"},
               changed.ahead \in Nat, changed.behind \in Nat
        PROVE  Listed'
    BY <1>5 DEF Runs, Listed
  <1> HIDE DEF Fine
  <1> USE DEF Kept, RepoFields, Listed
  <1>6. CASE Switch
    <2>1. PICK head : Runs([repo EXCEPT !.head = head, !.tagged = FALSE])
      BY <1>6, Zenon DEF Switch
    <2> QED
      BY <1>3, <1>5, <2>1
  <1>7. CASE Change
    <2>1. PICK changed \in SUBSET Files : \E codes \in [changed -> Changes] :
                 Runs([repo EXCEPT !.changes = codes])
      BY <1>7, Zenon DEF Change
    <2>2. PICK codes \in [changed -> Changes] : Runs([repo EXCEPT !.changes = codes])
      BY <2>1
    <2>3. Fine(codes)
      BY <1>4, <2>1, <2>2
    <2> QED
      BY <1>5, <2>2, <2>3
  <1>8. CASE Commit
    BY <1>1, <1>5, <1>8 DEF Commit
  <1>9. CASE Tag
    BY <1>3, <1>5, <1>9 DEF Tag
  <1>10. CASE Remote
    <2>1. PICK u, m, n : /\ u \in {"none", "gone", "live"} /\ m \in 0 .. 1 /\ n \in 0 .. 1
                         /\ Runs([repo EXCEPT !.upstream = u, !.ahead = m, !.behind = n])
      BY <1>10, Zenon DEF Remote
    <2>2. m \in Nat /\ n \in Nat
      BY <1>0, <2>1, Zenon
    <2> DEFINE changed == [repo EXCEPT !.upstream = u, !.ahead = m, !.behind = n]
    <2>3. /\ changed.changes = repo.changes /\ changed.upstream = u
          /\ changed.ahead = m /\ changed.behind = n
      OBVIOUS
    <2> HIDE DEF changed
    <2> QED
      BY <1>3, <1>5, <2>1, <2>2, <2>3 DEF changed
  <1>11. ASSUME NEW changed, Stop(changed), DOMAIN changed = DOMAIN repo,
                changed.upstream = repo.upstream, changed.ahead = repo.ahead,
                changed.behind = repo.behind
         PROVE  Listed'
    BY <1>2, <1>5, <1>11 DEF Stop
  <1>12. CASE StopMerge
    <2>1. PICK of : Stop([repo EXCEPT !.op = "merge", !.of = of])
      BY <1>12, Zenon DEF StopMerge
    <2> QED
      BY <1>11, <2>1
  <1>13. CASE StopRebase
    <2>1. PICK op : Stop([repo EXCEPT !.op = op, !.of = "branch", !.step = 1, !.back = repo.head,
                                      !.tagged = FALSE,
                                      !.head = [kind |-> "detached", name |-> <<>>]])
      BY <1>13, Zenon DEF StopRebase
    <2> QED
      BY <1>11, <2>1
  <1>14. CASE StopPick
    <2>1. PICK op, of, more :
                 Stop([repo EXCEPT !.op = op, !.of = of, !.more = more, !.committed = FALSE])
      BY <1>14, Zenon DEF StopPick
    <2> QED
      BY <1>11, <2>1
  <1>15. CASE NextStep
    BY <1>3, <1>5, <1>15 DEF NextStep
  <1>16. CASE CommitInTheMiddle
    BY <1>1, <1>5, <1>16 DEF CommitInTheMiddle
  <1>17. CASE EndOperation
    BY <1>1, <1>5, <1>17 DEF EndOperation
  <1> QED
    BY <1>6, <1>7, <1>8, <1>9, <1>10, <1>12, <1>13, <1>14, <1>15, <1>16, <1>17

-----------------------------------------------------------------------------
LEMMA KeptIfUnchanged == ASSUME Kept, Listed, UNCHANGED repo PROVE Kept' /\ Listed'
  <1>1. Kept'
    BY DEF Kept, RepoFields, IsHead
  <1>2. Listed'
    BY DEF Listed
  <1> QED
    BY <1>1, <1>2

LEMMA StatusReads == ASSUME Truthful, BeginEnabled PROVE Truthful'
  <1>1. UNCHANGED <<repo, options>> /\ Kept' /\ Listed'
    <2>1. UNCHANGED <<repo, options>>
      BY Zenon DEF BeginEnabled
    <2> QED
      BY <2>1, KeptIfUnchanged DEF Truthful
  <1>2. FirstRead'
    <2> DEFINE writer == [NewGit EXCEPT !.enabled = TRUE, !.isBare = IsBare,
                            !.isWorkTree = repo.layout \in {"linked", "linkedModule"}]
    <2>1. /\ DOMAIN writer = Fields /\ writer.isBare = IsBare
          /\ writer.head = Says("none", "none", NoHead) /\ writer.rebase = NoRebase
          /\ ~writer.detached /\ ~writer.merge /\ ~writer.cherryPick /\ ~writer.revert
      BY DEF NewGit, Fields
    <2>2. git' = IF ~IsBare /\ FetchesStatus THEN SetStatus(writer) ELSE writer
      BY DEF BeginEnabled
    <2>3. FetchesStatus' = FetchesStatus /\ IsBare' = IsBare /\ WorkTree' = WorkTree
      BY <1>1 DEF FetchesStatus, IsBare, WorkTree
    <2> HIDE DEF writer
    <2>4. WorkingCodes(writer) = InWorkTree /\ StagingCodes(writer) = InIndex
      <3>1. \A change : ~Conflict(writer, change)
        BY <2>1 DEF Conflict, NoRebase
      <3> QED
        BY <3>1 DEF WorkingCodes, StagingCodes, InWorkTree, InIndex, WorkingCode, StagingCode
    <2>5. /\ DOMAIN git' = Fields /\ git'.isBare = IsBare
          /\ git'.head = Says("none", "none", NoHead) /\ git'.rebase = NoRebase
          /\ ~git'.detached /\ ~git'.merge /\ ~git'.cherryPick /\ ~git'.revert
      BY <2>1, <2>2 DEF SetStatus, Fields
    <2>6. ~IsBare /\ FetchesStatus /\ WorkTree =>
             git'.ref = IF repo.head.kind = "branch" THEN repo.head
                        ELSE [kind |-> "detached", name |-> <<>>]
      BY <2>1, <2>2 DEF SetStatus, Fields, WorkTree
    <2>7. ~IsBare /\ FetchesStatus /\ WorkTree => Lists(git')
      BY <2>1, <2>2, <2>4 DEF SetStatus, Fields, WorkTree, Lists
    <2>8. Lists(git') => Lists(git)'
      BY <1>1 DEF Lists, InWorkTree, InIndex
    <2> QED
      BY <1>1, <2>3, <2>5, <2>6, <2>7, <2>8 DEF FirstRead
  <1>3. Stages' /\ HeadTellsTheState' /\ StatusTellsTheChanges'
    BY <1>2 DEF BeginEnabled, Truthful, Stages, HeadTellsTheState, StatusTellsTheChanges,
       Undisturbed
  <1> QED
    BY <1>1, <1>3 DEF Truthful

-----------------------------------------------------------------------------
(* The counters of git status add up to the files that differ, but for a   *)
(* change of type: every code but that one has a counter of its own.       *)
LEMMA CountsAddUp ==
  ASSUME NEW codes, IsFiniteSet(DOMAIN codes),
         \A f \in DOMAIN codes : codes[f] \in Codes
  PROVE  Total(Counts(codes)) = Differing(codes)
  <1> DEFINE Of(side) == {f \in DOMAIN codes : CounterOf(codes[f]) = side}
  <1>1. \A side : IsFiniteSet(Of(side)) /\ Cardinality(Of(side)) \in Nat
    BY FS_Subset, FS_CardinalityType
  <1>2. ASSUME NEW S, NEW T, IsFiniteSet(S), IsFiniteSet(T), S \cap T = {}
        PROVE  IsFiniteSet(S \cup T) /\ Cardinality(S \cup T) = Cardinality(S) + Cardinality(T)
    <2>1. Cardinality(S \cap T) = 0 /\ Cardinality(S) \in Nat /\ Cardinality(T) \in Nat
      BY <1>2, FS_EmptySet, FS_CardinalityType
    <2>2. /\ IsFiniteSet(S \cup T)
          /\ Cardinality(S \cup T) = Cardinality(S) + Cardinality(T) - Cardinality(S \cap T)
      BY <1>2, FS_Union, Zenon
    <2> QED
      BY <2>1, <2>2
  <1> DEFINE two == Of("Deleted") \cup Of("Added")
             three == two \cup Of("Untracked")
             four == three \cup Of("Unmerged")
             five == four \cup Of("Modified")
  <1>3. /\ Of("Deleted") \cap Of("Added") = {} /\ two \cap Of("Untracked") = {}
        /\ three \cap Of("Unmerged") = {} /\ four \cap Of("Modified") = {}
    OBVIOUS
  <1>4. five = {f \in DOMAIN codes : codes[f] \notin {".", "T"}}
    BY DEF Codes, CounterOf
  <1>5. Total(Counts(codes)) =
          Cardinality(Of("Deleted")) + Cardinality(Of("Added")) + Cardinality(Of("Untracked"))
            + Cardinality(Of("Unmerged")) + Cardinality(Of("Modified"))
    BY DEF Total, Counts, Sides
  <1> HIDE DEF Of
  <1>6. IsFiniteSet(two)
          /\ Cardinality(two) = Cardinality(Of("Deleted")) + Cardinality(Of("Added"))
    BY <1>1, <1>2, <1>3
  <1>7. IsFiniteSet(three) /\ Cardinality(three) = Cardinality(two) + Cardinality(Of("Untracked"))
    <2> HIDE DEF two
    <2> QED
      BY <1>1, <1>2, <1>3, <1>6
  <1>8. IsFiniteSet(four) /\ Cardinality(four) = Cardinality(three) + Cardinality(Of("Unmerged"))
    <2> HIDE DEF three
    <2> QED
      BY <1>1, <1>2, <1>3, <1>7
  <1>9. Cardinality(five) = Cardinality(four) + Cardinality(Of("Modified"))
    <2> HIDE DEF four
    <2> QED
      BY <1>1, <1>2, <1>3, <1>8
  <1> HIDE DEF two, three, four, five
  <1> QED
    BY <1>1, <1>4, <1>5, <1>6, <1>7, <1>8, <1>9 DEF Differing

-----------------------------------------------------------------------------
(* What an execution that shows g says, when it should say op.             *)
Tells(g, op) ==
    /\ DOMAIN g = Fields
    /\ repo.head.kind = "branch" => g.head.at = Shown(repo.head) /\ ~g.detached
    /\ repo.head.kind = "detached" =>
          g.detached /\ g.head.at.kind = (IF repo.tagged THEN "tag" ELSE "commit")
    /\ g.head.op = op
    /\ g.rebase.on <=> op \in {"rebase", "apply"}
    /\ g.rebase.on => g.rebase.step = repo.step
    /\ g.cherryPick <=> op = "pick"
    /\ g.revert <=> op = "revert"

(* The files it looks for are those of the work tree's own operation.      *)
LEMMA OwnFiles ==
  ASSUME ReadsOwnFiles
  PROVE  /\ MainDir(repo.layout) = StateDir(repo.layout)
         /\ MainDir(repo.layout) /= "root"
         /\ HasGitFile("rebase-merge") <=> repo.op = "rebase"
         /\ HasGitFile("rebase-apply") <=> repo.op = "apply"
         /\ HasGitFile("MERGE_MSG") <=>
               repo.op \notin {"none", "apply"} /\ ~(Picks /\ repo.committed)
         /\ HasGitFile("CHERRY_PICK_HEAD") <=> repo.op = "pick" /\ ~repo.committed
         /\ HasGitFile("REVERT_HEAD") <=> repo.op = "revert" /\ ~repo.committed
         /\ HasGitFile("sequencer/todo") <=> Picks /\ (repo.more \/ repo.committed)
  <1>1. MainDir(repo.layout) = StateDir(repo.layout) /\ MainDir(repo.layout) /= "root"
    BY DEF ReadsOwnFiles, MainDir, StateDir
  <1> QED
    BY <1>1 DEF HasGitFile, OperationFiles

(* setHEADStatus, of what git status told.                                 *)
LEMMA LocatedTold ==
  ASSUME Kept, FirstRead, WorkTree, ~IsBare, FetchesStatus
  PROVE  Tells(Located(git), "none")
  <1>1. CASE repo.head.kind = "branch"
    BY <1>1 DEF Tells, FirstRead, Located, Says, Fields, NoRebase
  <1>2. CASE repo.head.kind = "detached"
    <2>1. ~repo.unborn
      BY <1>2 DEF Kept
    <2>2. git.ref.kind = "detached"
      BY <1>2 DEF FirstRead
    <2> QED
      BY <1>2, <2>1, <2>2 DEF Tells, FirstRead, Located, ResolveDetachedHEAD, Says, Fields, NoRebase
  <1> QED
    BY <1>1, <1>2 DEF Kept, IsHead

LEMMA OperationTold ==
  ASSUME Kept, FirstRead, ReadsOwnFiles, WorkTree, ~IsBare, FetchesStatus
  PROVE  Tells(SetHEADStatus(git), Tellable)
  <1> DEFINE located == Located(git)
             tip == located.head.at
             merging == [located EXCEPT !.merge = HasGitFile("MERGE_MSG")]
             Rebasing(op, of) ==
                 [located EXCEPT !.rebase = [on |-> TRUE, step |-> repo.step],
                                 !.head = Says(op, of, tip)]
             Picking == [merging EXCEPT !.cherryPick = TRUE, !.head = Says("pick", "commit", tip)]
             Reverting == [merging EXCEPT !.revert = TRUE, !.head = Says("revert", "commit", tip)]
             Merging == [merging EXCEPT !.head = Says("merge", MergeMessage, tip)]
  <1>1. Tells(located, "none")
    BY LocatedTold
  <1>2. SetHEADStatus(git) =
          IF HasGitFile("rebase-merge") THEN Rebasing("rebase", repo.of)
          ELSE IF HasGitFile("rebase-apply") THEN Rebasing("apply", "none")
          ELSE IF HasGitFile("MERGE_MSG") /\ MergeMessage \in {"branch", "tag", "commit"}
          THEN Merging
          ELSE IF HasGitFile("CHERRY_PICK_HEAD") THEN Picking
          ELSE IF HasGitFile("REVERT_HEAD") THEN Reverting
          ELSE IF HasGitFile("sequencer/todo")
          THEN IF repo.op = "pick" THEN Picking ELSE Reverting
          ELSE merging
    BY DEF SetHEADStatus
  <1> HIDE DEF located
  <1>3. \A of : Tells(Rebasing("rebase", of), "rebase") /\ Tells(Rebasing("apply", of), "apply")
    BY <1>1 DEF Tells, Fields, Says
  <1>4. /\ Tells(Merging, "merge") /\ Tells(Picking, "pick")
        /\ Tells(Reverting, "revert") /\ Tells(merging, "none")
    BY <1>1 DEF Tells, Fields, Says
  <1> HIDE DEF merging, Rebasing, Picking, Reverting, Merging
  <1>5. CASE repo.op \in {"none", "rebase", "apply"}
    BY <1>2, <1>3, <1>4, <1>5, OwnFiles DEF Tellable, Picks
  <1>6. CASE repo.op = "merge"
    BY <1>2, <1>4, <1>6, OwnFiles DEF Tellable, Picks, MergeMessage, Kept
  <1>7. CASE Picks
    BY <1>2, <1>4, <1>7, OwnFiles DEF Tellable, Picks, MergeMessage, Kept
  <1> QED
    BY <1>5, <1>6, <1>7 DEF Kept, Picks

(* updateHEADReference, when the status is not fetched.                    *)
LEMMA ReferenceTold ==
  ASSUME Kept, FirstRead, ReadsOwnFiles
  PROVE  Tells(UpdateHEADReference(git), "none")
  <1> DEFINE headFile == HeadFile(MainDir(repo.layout))
             ofHead == IF headFile.kind = "invalid" THEN repo.head ELSE headFile
  <1>1. ofHead = repo.head
    BY OwnFiles DEF HeadFile, Kept, IsHead
  <1> HIDE DEF ofHead
  <1>2. UpdateHEADReference(git) =
          IF ofHead.kind = "branch"
          THEN [git EXCEPT !.detached = FALSE, !.ref = ofHead,
                           !.head = Says("none", "none", Shown(ofHead))]
          ELSE ResolveDetachedHEAD([git EXCEPT !.detached = TRUE])
    BY DEF UpdateHEADReference, ofHead
  <1>3. CASE repo.head.kind = "branch"
    BY <1>1, <1>2, <1>3 DEF Tells, FirstRead, Says, Fields, NoRebase
  <1>4. CASE repo.head.kind = "detached"
    <2>1. ~repo.unborn
      BY <1>4 DEF Kept
    <2> QED
      BY <1>1, <1>2, <1>4, <2>1
      DEF Tells, FirstRead, ResolveDetachedHEAD, Says, Fields, NoRebase
  <1> QED
    BY <1>3, <1>4 DEF Kept, IsHead

(* getBareRepoInfo, of a repository whose HEAD is in its HEAD file.        *)
LEMMA BareTold ==
  ASSUME Kept, FirstRead, repo.layout = "bare", ~repo.reftable
  PROVE  Tells(GetBareRepoInfo(git), "none")
  <1>1. HeadFile(MainDir(repo.layout)) = repo.head /\ repo.head.kind = "branch"
    BY DEF HeadFile, MainDir, StateDir, Kept
  <1> QED
    BY <1>1 DEF Tells, GetBareRepoInfo, FirstRead, Says, Fields, NoRebase

(* What follows setHEADStatus, and what the template asks for, leaves what *)
(* was told alone.                                                         *)
LEMMA RestTellsTheSame ==
  ASSUME NEW g, NEW op, NEW icon, NEW count, Tells(g, op)
  PROVE  /\ Tells(SetPushStatus(SetBranchStatus(g)), op)
         /\ Tells([g EXCEPT !.icon = icon, !.worktreeCount = count], op)
  <1>1. Tells(SetBranchStatus(g), op)
    BY DEF Tells, SetBranchStatus, Fields
  <1>2. ASSUME NEW h, Tells(h, op) PROVE Tells(SetPushStatus(h), op)
    BY <1>2 DEF Tells, SetPushStatus, Fields
  <1> QED
    BY <1>1, <1>2 DEF Tells, Fields

-----------------------------------------------------------------------------
(* The rest of an execution keeps what git status told, and the branch's   *)
(* status follows from it.                                                 *)
ShowsList(g) ==
    /\ Lists(g)
    /\ g.branchStatus = "identical" <=>
          repo.upstream = "live" /\ repo.ahead = 0 /\ repo.behind = 0
    /\ g.branchStatus = "gone" <=> repo.upstream /= "live"

LEMMA OperationListsTheSame ==
  ASSUME NEW g, Lists(g) PROVE Lists(SetHEADStatus(g))
  <1>1. Lists(Located(g))
    BY DEF Lists, Located, ResolveDetachedHEAD, Fields
  <1> DEFINE located == Located(g)
             tip == located.head.at
             merging == [located EXCEPT !.merge = HasGitFile("MERGE_MSG")]
             Rebasing(op, of) ==
                 [located EXCEPT !.rebase = [on |-> TRUE, step |-> repo.step],
                                 !.head = Says(op, of, tip)]
             Picking == [merging EXCEPT !.cherryPick = TRUE, !.head = Says("pick", "commit", tip)]
             Reverting == [merging EXCEPT !.revert = TRUE, !.head = Says("revert", "commit", tip)]
             Merging == [merging EXCEPT !.head = Says("merge", MergeMessage, tip)]
  <1>2. SetHEADStatus(g) \in
          {Rebasing("rebase", repo.of), Rebasing("apply", "none"), Merging, Picking, Reverting,
           merging}
    BY DEF SetHEADStatus
  <1> HIDE DEF located
  <1>3. \A op, of : Lists(Rebasing(op, of))
    BY <1>1 DEF Lists, Fields, located
  <1>4. Lists(merging) /\ Lists(Merging) /\ Lists(Picking) /\ Lists(Reverting)
    BY <1>1 DEF Lists, Fields, located
  <1> HIDE DEF merging, Rebasing, Picking, Reverting, Merging
  <1> QED
    BY <1>2, <1>3, <1>4

LEMMA RestShowsList ==
  ASSUME Listed, NEW g, NEW icon, NEW count, Lists(g)
  PROVE  ShowsList([SetPushStatus(SetBranchStatus(g))
                       EXCEPT !.icon = icon, !.worktreeCount = count])
  <1>1. ShowsList(SetBranchStatus(g))
    <2>1. Lists(SetBranchStatus(g)) /\ SetBranchStatus(g).branchStatus = BranchStatus(g)
      BY DEF Lists, SetBranchStatus, Fields
    <2>2. CASE repo.upstream = "live"
      BY <2>1, <2>2 DEF ShowsList, Lists, BranchStatus, Listed, NoRemote
    <2>3. CASE repo.upstream /= "live"
      BY <2>1, <2>3 DEF ShowsList, Lists, BranchStatus, Listed, NoRemote
    <2> QED
      BY <2>2, <2>3
  <1>2. ASSUME NEW h, ShowsList(h)
        PROVE  ShowsList(SetPushStatus(h))
    BY <1>2 DEF ShowsList, Lists, SetPushStatus, Fields
  <1>3. ASSUME NEW h, ShowsList(h)
        PROVE  ShowsList([h EXCEPT !.icon = icon, !.worktreeCount = count])
    BY <1>3 DEF ShowsList, Lists, Fields
  <1> QED
    BY <1>1, <1>2, <1>3

(* The counters that it shows add up.                                      *)
LEMMA ListAddsUp ==
  ASSUME Listed, NEW g, Lists(g)
  PROVE  /\ Total(g.working) = Differing(InWorkTree)
         /\ Total(g.staging) = Differing(InIndex)
  <1>1. /\ IsFiniteSet(DOMAIN InWorkTree) /\ IsFiniteSet(DOMAIN InIndex)
        /\ \A f \in DOMAIN InWorkTree : InWorkTree[f] \in Codes
        /\ \A f \in DOMAIN InIndex : InIndex[f] \in Codes
    BY DEF Listed, InWorkTree, InIndex, Codes
  <1> QED
    BY <1>1, CountsAddUp DEF Lists

-----------------------------------------------------------------------------
LEMMA EndTells == ASSUME Truthful, EndEnabled PROVE Truthful'
  <1> DEFINE told == IF git.isBare THEN GetBareRepoInfo(git)
                     ELSE IF FetchesStatus
                     THEN SetPushStatus(SetBranchStatus(SetHEADStatus(git)))
                     ELSE UpdateHEADReference(git)
             op == IF FetchesStatus /\ WorkTree THEN Tellable ELSE "none"
  <1>1. UNCHANGED <<repo, options, quiet>> /\ Kept' /\ Listed'
    <2>1. UNCHANGED <<repo, options, quiet>>
      BY Zenon DEF EndEnabled
    <2> QED
      BY <2>1, KeptIfUnchanged DEF Truthful
  <1>2. PICK icon : git' = [told EXCEPT !.icon = icon, !.worktreeCount = WorktreeCount]
    BY Zenon DEF EndEnabled
  <1>3. Kept /\ Listed /\ (quiet => FirstRead) /\ (FirstRead => git.isBare = IsBare)
    BY DEF Truthful, Stages, EndEnabled, FirstRead
  <1> HIDE DEF told
  <1>4. HeadTellsTheState'
    <2> SUFFICES ASSUME quiet, ReadsOwnFiles, WorkTree \/ (IsBare /\ ~repo.reftable)
                 PROVE  Tells(git', op)
      <3>1. Tells(git', op) => HeadTellsTheState'
        BY <1>1 DEF Tells, HeadTellsTheState, Shown, Tellable, Picks, FetchesStatus, WorkTree
      <3> QED
        BY <1>1, <3>1 DEF HeadTellsTheState, Undisturbed, ReadsOwnFiles, WorkTree, IsBare
    <2>1. Tells(told, op)
      <3>1. CASE IsBare
        BY <1>3, <3>1, BareTold DEF told, IsBare, WorkTree
      <3>2. CASE ~IsBare /\ FetchesStatus
        BY <1>3, <3>2, OperationTold, RestTellsTheSame DEF told
      <3>3. CASE ~IsBare /\ ~FetchesStatus
        BY <1>3, <3>3, ReferenceTold DEF told
      <3> QED
        BY <3>1, <3>2, <3>3
    <2> QED
      BY <1>2, <2>1, RestTellsTheSame
  <1>5. StatusTellsTheChanges'
    <2> SUFFICES ASSUME quiet, FetchesStatus, WorkTree
                 PROVE  ShowsList(git')
      <3>1. ShowsList(git') => /\ Total(git'.working) = Differing(InWorkTree)
                               /\ Total(git'.staging) = Differing(InIndex)
        BY <1>3, ListAddsUp DEF ShowsList
      <3>2. ShowsList(git') => StatusTellsTheChanges'
        BY <1>1, <3>1 DEF ShowsList, StatusTellsTheChanges, InWorkTree, InIndex
      <3> QED
        BY <1>1, <3>2 DEF StatusTellsTheChanges, Undisturbed, FetchesStatus, WorkTree
    <2>1. ~IsBare
      BY DEF IsBare, WorkTree
    <2>2. Lists(SetHEADStatus(git))
      BY <1>3, <2>1, OperationListsTheSame DEF FirstRead
    <2>3. told = SetPushStatus(SetBranchStatus(SetHEADStatus(git)))
      BY <1>3, <2>1 DEF told
    <2> QED
      BY <1>2, <1>3, <2>2, <2>3, RestShowsList
  <1>6. Stages'
    BY DEF EndEnabled, Stages
  <1> QED
    BY <1>1, <1>4, <1>5, <1>6 DEF Truthful

-----------------------------------------------------------------------------
LEMMA TruthfulStep == Truthful /\ [GitNext]_gitVars => Truthful'
  <1> SUFFICES ASSUME Truthful, [GitNext]_gitVars PROVE Truthful'
    OBVIOUS
  <1>1. CASE BeginEnabled
    BY <1>1, StatusReads
  <1>2. CASE EndEnabled
    BY <1>2, EndTells
  <1>3. CASE Switch \/ Change \/ Commit \/ Tag \/ Remote \/ StopMerge \/ StopRebase
             \/ StopPick \/ NextStep \/ CommitInTheMiddle \/ EndOperation
    <2>1. \E changed : Runs(changed)
      <3>1. CASE Switch \/ Change \/ Commit \/ Tag \/ Remote
        BY <3>1, Zenon DEF Switch, Change, Commit, Tag, Remote
      <3>2. CASE StopMerge \/ StopRebase \/ StopPick
        BY <3>2, Zenon DEF StopMerge, StopRebase, StopPick, Stop
      <3>3. CASE NextStep \/ CommitInTheMiddle \/ EndOperation
        BY <3>3, Zenon DEF NextStep, CommitInTheMiddle, EndOperation
      <3> QED
        BY <1>3, <3>1, <3>2, <3>3
    <2>2. Kept' /\ Listed'
      BY <1>3, KeptByCommand, ListedByCommand DEF Truthful
    <2> QED
      BY <2>1, <2>2, CommandUndisturbs
  <1>4. CASE UNCHANGED gitVars
    <2>1. Kept' /\ Listed'
      <3>1. Kept'
        BY <1>4 DEF gitVars, Truthful, Kept, RepoFields, IsHead
      <3>2. Listed'
        BY <1>4 DEF gitVars, Truthful, Listed
      <3> QED
        BY <3>1, <3>2
    <2>2. Stages'
      BY <1>4 DEF gitVars, Truthful, Stages, FirstRead, IsBare, WorkTree, FetchesStatus, Lists,
         InWorkTree, InIndex
    <2>3. HeadTellsTheState'
      BY <1>4 DEF gitVars, Truthful, HeadTellsTheState, Undisturbed, ReadsOwnFiles, WorkTree, IsBare,
         FetchesStatus, Shown, Tellable, Picks
    <2>4. StatusTellsTheChanges'
      BY <1>4 DEF gitVars, Truthful, StatusTellsTheChanges, Undisturbed, FetchesStatus, WorkTree
    <2> QED
      BY <2>1, <2>2, <2>3, <2>4 DEF Truthful
  <1> QED
    BY <1>1, <1>2, <1>3, <1>4 DEF GitNext

(* An execution of the git segment that no command disturbed says where    *)
(* HEAD is and which operation is in progress, in every layout whose files *)
(* it reads, counts every changed file once in the index and once in the   *)
(* work tree, and tells of the upstream (git.go, Enabled): whatever was    *)
(* done with git before, and read before it was done.                      *)
THEOREM RepositoryIsTold == GitSpec => []SegmentTellsTheRepository
  <1>1. Truthful => SegmentTellsTheRepository
    BY DEF Truthful, SegmentTellsTheRepository
  <1> QED
    BY <1>1, TruthfulInit, TruthfulStep, PTL DEF GitSpec

-----------------------------------------------------------------------------
(* A block.                                                                *)

(* The requests: lines of segments of known types; a tooltip has one.      *)
IsRequest(r, S) ==
    /\ r.tip \in BOOLEAN /\ r.blocks \in Seq(Seq(S))
    /\ r.tip => Len(r.blocks) = 1
RendersOf(S) == /\ \A s \in S : s.type \in Types
                /\ \A r \in Renders : IsRequest(r, S)

(* Where the drawing is: the block its workers were started for, or the    *)
(* tooltips it asks before it starts any.                                  *)
Place(S) ==
    /\ IsRequest(render, S)
    /\ segments \in Seq(S)
    /\ block \in 1..(Len(render.blocks) + 1) /\ current \in 1..(Len(segments) + 1)
    /\ asked \in Nat \ {0}
    /\ ~render.tip => segments = IF block = 1 THEN <<>> ELSE render.blocks[block - 1]
    /\ render.tip /\ block > 1 => asked > Len(render.blocks[1])
    /\ block = 1 => current = 1 /\ received = {} /\ out = <<>> /\ shown = <<>>

(* The workers: a result is in the channel or received, once.              *)
Workers ==
    /\ block > 1 => /\ DOMAIN at = DOMAIN segments /\ DOMAIN on = DOMAIN segments
                    /\ DOMAIN filled = DOMAIN segments
    /\ block > 1 => \A i \in DOMAIN segments : at[i] \in {"started", "gets", "sent"}
    /\ out \in Seq(DOMAIN segments) /\ received \subseteq DOMAIN segments
    /\ \A k, l \in DOMAIN out : out[k] = out[l] => k = l
    /\ \A k \in DOMAIN out : out[k] \notin received /\ at[out[k]] = "sent"
    /\ \A i \in received : at[i] = "sent"
    /\ block > 1 => \A i \in DOMAIN segments :
                       at[i] = "sent" => i \in received \/ \E k \in DOMAIN out : out[k] = i
    /\ \A i \in DOMAIN segments : i < current => i \in received

(* The providers: who asked, and what a worker took of the answer.         *)
Answered(segment) == segment.cached \/ provider[segment.type].state \in {"loaded", "gave up"}

Providers ==
    /\ DOMAIN provider = Types /\ DOMAIN job = Types
    /\ \A t \in Types :
          /\ provider[t] = [state |-> provider[t].state, source |-> provider[t].source]
          /\ provider[t].state \in {NoOne, "made", "loading", "loaded", "gave up"}
          /\ provider[t].state = "loading" => job[t] \in {"executes", "registers", "ended"}
          /\ provider[t].state # NoOne => FirstAnswers(t)

Answers ==
    block > 1 => \A i \in DOMAIN segments :
        /\ at[i] \in {"started", "gets"} => on[i] = render.tip /\ filled[i] = FALSE
        /\ at[i] = "gets" => ~segments[i].cached /\ provider[segments[i].type].state # NoOne
        /\ at[i] = "sent" => /\ Answered(segments[i])
                             /\ (on[i] <=> Enabled0(segments[i])) /\ (filled[i] <=> HasData(segments[i]))

(* What was drawn.                                                         *)
Decided(b, i) ==
    LET segment == BlockAt(b)[i] IN
    \E visible \in SUBSET segment.refs :
        Shows(b, i) <=> Drawn(segment, Enabled0(segment), HasData(segment), visible).shows

Ordered ==
    /\ shown \in Seq(Nat \X Nat)
    /\ \A k \in DOMAIN shown : \E b, i : shown[k] = <<b, i>> /\ IsPast(b, i)
    /\ \A k, l \in DOMAIN shown : k < l => Precedes(shown[k], shown[l])

Past ==
    /\ Ordered
    /\ \A b \in 1..(block - 1) : \A i \in DOMAIN BlockAt(b) :
          IsPast(b, i) => Answered(BlockAt(b)[i]) /\ Decided(b, i)

BlockInv(S) == Place(S) /\ Workers /\ Providers /\ Answers /\ Past

-----------------------------------------------------------------------------
LEMMA BlockInvInit ==
  ASSUME NEW S, RendersOf(S), BlockInit
  PROVE  BlockInv(S)
  <1>1. IsRequest(render, S)
    BY DEF RendersOf, BlockInit
  <1>2. segments \in Seq(S) /\ Len(segments) = 0 /\ Len(render.blocks) \in Nat
    BY <1>1 DEF BlockInit, IsRequest
  <1>3. Place(S)
    BY <1>1, <1>2 DEF BlockInit, Place
  <1>4. Workers /\ Answers
    BY <1>2 DEF BlockInit, Workers, Answers
  <1>5. Providers
    BY DEF BlockInit, Providers, NoProvider, NoOne
  <1>6. Past
    BY DEF BlockInit, Past, Ordered
  <1> QED
    BY <1>3, <1>4, <1>5, <1>6 DEF BlockInv

(* What the steps of workers and providers leave alone.                    *)
LEMMA PlaceKept ==
  ASSUME NEW S, Place(S), UNCHANGED <<render, segments, block, current, asked>>,
         block > 1 \/ UNCHANGED <<received, out, shown>>
  PROVE  Place(S)'
  BY DEF Place, IsRequest

(* When a block is drawn, its channel is empty.                            *)
LEMMA DrawnMeansReceived ==
  ASSUME NEW S, Place(S), Workers, current > Len(segments)
  PROVE  out = <<>> /\ DOMAIN segments \subseteq received
  <1>1. \A i \in DOMAIN segments : i < current
    BY DEF Place
  <1>2. DOMAIN segments \subseteq received
    BY <1>1 DEF Workers
  <1>3. ASSUME out # <<>> PROVE FALSE
    <2>1. 1 \in DOMAIN out /\ out[1] \in DOMAIN segments
      BY <1>3 DEF Workers
    <2> QED
      BY <1>2, <2>1 DEF Workers
  <1> QED
    BY <1>2, <1>3

LEMMA PlaceStep == ASSUME NEW S, Place(S), Workers, BlockNext PROVE Place(S)'
  <1>1. CASE TooltipExecute
    <2>1. render.tip /\ block = 1 /\ current = 1
      BY <1>1 DEF TooltipExecute, Place, IsRequest
    <2>2. render.blocks[1][asked] \in S
      BY <1>1, <2>1 DEF TooltipExecute, Place, IsRequest
    <2>3. segments' \in Seq(S)
      BY <1>1, <2>2 DEF TooltipExecute, Place
    <2> QED
      BY <1>1, <2>1, <2>3 DEF TooltipExecute, Place, IsRequest
  <1>2. CASE StartBlock
    <2>1. segments' \in Seq(S)
      BY <1>2 DEF StartBlock, Place, IsRequest
    <2>2. block' \in 1..(Len(render.blocks) + 1) /\ block' > 1 /\ block' = block + 1
      BY <1>2 DEF StartBlock, Place, IsRequest
    <2> QED
      BY <1>2, <2>1, <2>2 DEF StartBlock, Place, IsRequest
  <1>3. CASE Receive
    <2>1. block > 1
      BY <1>3 DEF Receive, Place
    <2> QED
      BY <1>3, <2>1, PlaceKept DEF Receive
  <1>4. CASE DrawNext
    <2>1. block > 1
      BY <1>4 DEF DrawNext, CanRenderSegment, Place
    <2>2. current' \in 1..(Len(segments) + 1)
      BY <1>4 DEF DrawNext, Place
    <2> QED
      BY <1>4, <2>1, <2>2 DEF DrawNext, Place, IsRequest
  <1>5. CASE Running /\ \E i \in DOMAIN segments : HitCache(i) \/ GetProvider(i) \/ TakeAnswer(i)
    BY <1>5, PlaceKept DEF Running, Place, HitCache, GetProvider, TakeAnswer, mainVars
  <1>6. CASE \E t \in Types : Load(t) \/ ExecuteJob(t) \/ Register(t) \/ Finish(t) \/ Expire(t)
    BY <1>6, PlaceKept DEF Load, ExecuteJob, Register, Finish, Expire, mainVars
  <1> QED
    BY <1>1, <1>2, <1>3, <1>4, <1>5, <1>6 DEF BlockNext

-----------------------------------------------------------------------------
LEMMA SendKeepsWorkers ==
  ASSUME NEW S, Place(S), Workers, block > 1, NEW i \in DOMAIN segments,
         at[i] # "sent", Send(i), UNCHANGED <<segments, block, received, current>>,
         DOMAIN on' = DOMAIN on, DOMAIN filled' = DOMAIN filled
  PROVE  Workers'
  <1>1. out' \in Seq(DOMAIN segments) /\ Len(out') = Len(out) + 1 /\ out'[Len(out) + 1] = i
        /\ \A k \in DOMAIN out : out'[k] = out[k]
    BY DEF Send, Workers
  <1>2. DOMAIN out = 1..Len(out) /\ Len(out) \in Nat /\ DOMAIN out' = 1..(Len(out) + 1)
    BY <1>1 DEF Workers
  <1>3. /\ DOMAIN at' = DOMAIN at /\ at'[i] = "sent"
        /\ \A j \in DOMAIN segments : j # i => at'[j] = at[j]
    BY DEF Send, Workers
  <1>4. \A k \in DOMAIN out : out[k] # i
    BY DEF Workers
  <1>5. i \notin received
    BY DEF Workers
  <1>6. \A k, l \in DOMAIN out' : out'[k] = out'[l] => k = l
    BY <1>1, <1>2, <1>4 DEF Workers
  <1>7. \A k \in DOMAIN out' : out'[k] \notin received /\ at'[out'[k]] = "sent"
    <2> SUFFICES ASSUME NEW k \in DOMAIN out' PROVE out'[k] \notin received /\ at'[out'[k]] = "sent"
      OBVIOUS
    <2>1. CASE k \in DOMAIN out
      <3>1. out'[k] = out[k] /\ out[k] \in DOMAIN segments
        BY <1>1, <2>1 DEF Workers
      <3> QED
        BY <1>3, <2>1, <3>1 DEF Workers
    <2>2. CASE k = Len(out) + 1
      BY <1>1, <1>3, <1>5, <2>2
    <2> QED
      BY <1>2, <2>1, <2>2
  <1>8. ASSUME NEW j \in DOMAIN segments, at'[j] = "sent"
        PROVE  j \in received \/ \E k \in DOMAIN out' : out'[k] = j
    BY <1>1, <1>2, <1>3, <1>8 DEF Workers
  <1>9. \A j \in received : at'[j] = "sent"
    BY <1>3, <1>5 DEF Workers
  <1>10. \A j \in DOMAIN segments : at'[j] \in {"started", "gets", "sent"}
    BY <1>3 DEF Workers
  <1> QED
    BY <1>1, <1>3, <1>6, <1>7, <1>8, <1>9, <1>10 DEF Workers

LEMMA WorkersKept ==
  ASSUME Workers, UNCHANGED <<at, on, filled, segments, block, out, received, current>>
  PROVE  Workers'
  BY DEF Workers

LEMMA WorkersStep == ASSUME NEW S, Place(S), Workers, Answers, BlockNext PROVE Workers'
  <1>1. CASE TooltipExecute
    <2>1. block = 1 /\ current = 1 /\ out = <<>> /\ received = {}
      BY <1>1 DEF TooltipExecute, Place, IsRequest
    <2> QED
      BY <1>1, <2>1 DEF TooltipExecute, Workers, Place
  <1>2. CASE StartBlock
    <2>1. out = <<>>
      BY <1>2, DrawnMeansReceived DEF StartBlock, Place
    <2>2. out' = <<>> /\ received' = {} /\ current' = 1
      BY <1>2, <2>1 DEF StartBlock
    <2>3. /\ DOMAIN at' = DOMAIN segments' /\ DOMAIN on' = DOMAIN segments'
          /\ DOMAIN filled' = DOMAIN segments' /\ \A i \in DOMAIN segments' : at'[i] = "started"
      BY <1>2 DEF StartBlock
    <2>4. \A i \in DOMAIN segments' : ~(i < 1)
      <3>1. segments' \in Seq(S)
        BY <1>2 DEF StartBlock, Place, IsRequest
      <3> QED
        BY <3>1
    <2> QED
      BY <2>2, <2>3, <2>4 DEF Workers
  <1>3. CASE Receive
    <2> DEFINE taken == Head(out)
    <2>1. /\ DOMAIN out = 1..Len(out) /\ Len(out) \in Nat \ {0} /\ taken = out[1]
          /\ out' \in Seq(DOMAIN segments) /\ DOMAIN out' = 1..(Len(out) - 1)
          /\ \A k \in DOMAIN out' : out'[k] = out[k + 1]
      BY <1>3 DEF Receive, Workers
    <2>2. taken \in DOMAIN segments /\ at[taken] = "sent"
      BY <2>1 DEF Workers
    <2>3. \A k \in DOMAIN out' : k + 1 \in DOMAIN out /\ k + 1 # 1
      BY <2>1
    <2>4. \A k \in DOMAIN out' : out'[k] # taken
      BY <2>1, <2>3 DEF Workers
    <2>5. \A k, l \in DOMAIN out' : out'[k] = out'[l] => k = l
      BY <2>1, <2>3 DEF Workers
    <2>6. received' = received \cup {taken} /\ UNCHANGED <<at, on, filled, segments, block, current>>
      BY <1>3 DEF Receive
    <2>7. ASSUME NEW i \in DOMAIN segments, at[i] = "sent", block > 1
          PROVE  i \in received' \/ \E k \in DOMAIN out' : out'[k] = i
      <3>1. CASE i \in received
        BY <2>6, <3>1
      <3>2. CASE i \notin received
        <4>1. PICK k \in DOMAIN out : out[k] = i
          BY <2>7, <3>2 DEF Workers
        <4>2. CASE k = 1
          BY <2>1, <2>6, <4>1, <4>2
        <4>3. CASE k # 1
          <5>1. k - 1 \in DOMAIN out' /\ (k - 1) + 1 = k
            BY <2>1, <4>1, <4>3
          <5> QED
            BY <2>1, <4>1, <5>1
        <4> QED
          BY <4>2, <4>3
      <3> QED
        BY <3>1, <3>2
    <2>8. \A k \in DOMAIN out' : out'[k] \notin received' /\ at[out'[k]] = "sent"
      BY <2>1, <2>3, <2>4, <2>6 DEF Workers
    <2> QED
      BY <2>1, <2>2, <2>5, <2>6, <2>7, <2>8 DEF Workers
  <1>4. CASE DrawNext
    <2>1. UNCHANGED <<at, on, filled, segments, block, out, received>> /\ current' = current + 1
          /\ current \in received /\ current \in Nat
      BY <1>4 DEF DrawNext, CanRenderSegment, Place
    <2>2. \A i \in DOMAIN segments : i < current + 1 => i < current \/ i = current
      BY <2>1 DEF Place
    <2> QED
      BY <2>1, <2>2 DEF Workers
  <1>5. ASSUME Running, NEW i \in DOMAIN segments, HitCache(i) PROVE Workers'
    BY <1>5, SendKeepsWorkers DEF HitCache, Running
  <1>6. ASSUME Running, NEW i \in DOMAIN segments, GetProvider(i) PROVE Workers'
    <2>1. at' = [at EXCEPT ![i] = "gets"] /\ at[i] # "sent"
          /\ UNCHANGED <<on, filled, segments, block, out, received, current>>
      BY <1>6 DEF GetProvider, mainVars
    <2>2. \A j \in DOMAIN segments : (at'[j] = "sent" <=> at[j] = "sent")
                                   /\ at'[j] \in {"started", "gets", "sent"}
      BY <1>6, <2>1 DEF Workers, Running
    <2>3. \A k \in DOMAIN out : out[k] \in DOMAIN segments
      BY DEF Workers
    <2> QED
      BY <1>6, <2>1, <2>2, <2>3 DEF Workers, Running
  <1>7. ASSUME Running, NEW i \in DOMAIN segments, TakeAnswer(i) PROVE Workers'
    BY <1>7, SendKeepsWorkers DEF TakeAnswer, Running
  <1>8. CASE \E t \in Types : Load(t) \/ ExecuteJob(t) \/ Register(t) \/ Finish(t) \/ Expire(t)
    BY <1>8, WorkersKept DEF Load, ExecuteJob, Register, Finish, Expire, mainVars
  <1> QED
    BY <1>1, <1>2, <1>3, <1>4, <1>5, <1>6, <1>7, <1>8 DEF BlockNext

-----------------------------------------------------------------------------
(* What is drawn of a block does not change.                               *)
LEMMA BlocksStand ==
  ASSUME NEW S, Place(S), BlockNext
  PROVE  /\ block' >= block /\ block' \in Nat /\ block \in Nat
         /\ \A b \in 1..(block - 1) : BlockAt(b)' = BlockAt(b)
         /\ UNCHANGED render
         /\ block > 1 => segments = BlockAt(block - 1) /\ block - 1 \in 1..(block - 1)
         /\ \A b \in 1..(block - 1) : BlockAt(b) \in Seq(S)
  <1>1. block' >= block /\ block' \in Nat /\ block \in Nat /\ UNCHANGED render
    <2>0. block \in Nat
      BY DEF Place, IsRequest
    <2>1. block' = block \/ block' = block + 1
      BY DEF BlockNext, TooltipExecute, StartBlock, Receive, DrawNext, HitCache, GetProvider,
             TakeAnswer, Load, ExecuteJob, Register, Finish, Expire, mainVars
    <2>2. UNCHANGED render
      BY DEF BlockNext, TooltipExecute, StartBlock, Receive, DrawNext, HitCache, GetProvider,
             TakeAnswer, Load, ExecuteJob, Register, Finish, Expire, mainVars
    <2> QED
      BY <2>0, <2>1, <2>2
  <1>2. render.tip /\ block > 1 => UNCHANGED segments
    <2>1. render.tip /\ block > 1 => ~TooltipExecute
      BY DEF TooltipExecute, Place, IsRequest
    <2>2. StartBlock /\ render.tip => UNCHANGED segments
      BY DEF StartBlock
    <2> QED
      BY <2>1, <2>2 DEF BlockNext, Receive, DrawNext, HitCache, GetProvider,
             TakeAnswer, Load, ExecuteJob, Register, Finish, Expire, mainVars
  <1>3. block > 1 => segments = BlockAt(block - 1) /\ block - 1 \in 1..(block - 1)
    BY DEF Place, BlockAt
  <1>4. \A b \in 1..(block - 1) : BlockAt(b)' = BlockAt(b)
    BY <1>1, <1>2 DEF BlockAt
  <1>5. \A b \in 1..(block - 1) : BlockAt(b) \in Seq(S)
    BY <1>1 DEF BlockAt, Place, IsRequest
  <1> QED
    BY <1>1, <1>3, <1>4, <1>5

(* The states of a provider: only its type's first caller and its own      *)
(* execution change it, and an answer is final.                            *)
Answering == {"loaded", "gave up"}

Made(t) ==
    /\ provider[t].state = NoOne /\ provider'[t].state = "made" /\ block > 1
    /\ provider'[t].source = SourceOf(t, segments) /\ UNCHANGED <<segments, block>>
    /\ \E i \in DOMAIN segments : segments[i].type = t /\ ~segments[i].cached

ProviderStep(t) ==
    \/ provider'[t].state = provider[t].state /\ provider'[t].source = provider[t].source
    \/ Made(t)
    \/ /\ provider[t].state \notin Answering \cup {NoOne}
       /\ provider'[t].source = provider[t].source
       /\ provider'[t].state \in {"loading"} \cup Answering
       /\ provider'[t].state = "loading" => job'[t] = "executes"

LEMMA ProviderSteps ==
  ASSUME NEW S, Place(S), Providers, Answers, BlockNext, NEW t \in Types
  PROVE  /\ DOMAIN provider' = Types
         /\ provider'[t] = [state |-> provider'[t].state, source |-> provider'[t].source]
         /\ ProviderStep(t)
  <1> DEFINE Goal == /\ DOMAIN provider' = Types
                     /\ provider'[t] = [state |-> provider'[t].state, source |-> provider'[t].source]
                     /\ ProviderStep(t)
  <1>1. CASE UNCHANGED provider
    BY <1>1 DEF ProviderStep, Providers
  <1>2. DOMAIN provider = Types /\ provider[t] = [state |-> provider[t].state, source |-> provider[t].source]
    BY DEF Providers
  <1>3. ASSUME NEW u \in Types, NEW state, provider' = [provider EXCEPT ![u].state = state]
        PROVE  /\ DOMAIN provider' = Types
               /\ t = u => /\ provider'[t] = [state |-> state, source |-> provider[t].source]
                           /\ provider'[t].state = state
                           /\ provider'[t].source = provider[t].source
               /\ t # u => provider'[t] = provider[t]
    <2>1. t # u => provider'[t] = provider[t]
      BY <1>2, <1>3, Zenon
    <2>2. t = u => provider'[t] = [provider[t] EXCEPT !.state = state]
      BY <1>2, <1>3, Zenon
    <2> DEFINE source == provider[t].source
    <2>3. provider[t] = [state |-> provider[t].state, source |-> source]
      BY <1>2
    <2> HIDE DEF source
    <2>4. t = u => provider'[t] = [[state |-> provider[t].state, source |-> source] EXCEPT !.state = state]
      BY <2>2, <2>3, Zenon
    <2>5. t = u => provider'[t] = [state |-> state, source |-> source]
      BY <2>4
    <2>6. t = u => provider'[t].state = state /\ provider'[t].source = source
      BY <2>5
    <2>7. DOMAIN provider' = Types
      BY <1>2, <1>3, Zenon
    <2> QED
      BY <2>1, <2>5, <2>6, <2>7 DEF source
  <1>4. ASSUME NEW i \in DOMAIN segments, GetProvider(i), block > 1 PROVE Goal
    <2> DEFINE u == segments[i].type
    <2>1. CASE provider[u].state # NoOne
      BY <1>1, <1>4, <2>1 DEF GetProvider, ProviderStep
    <2>2. CASE provider[u].state = NoOne
      <3>1. provider' = [provider EXCEPT ![u] = [state |-> "made", source |-> SourceOf(u, segments)]]
            /\ UNCHANGED <<segments, block>> /\ ~segments[i].cached
        BY <1>4, <2>2 DEF GetProvider, mainVars
      <3> QED
        BY <1>2, <1>4, <2>2, <3>1 DEF ProviderStep, Made
    <2> QED
      BY <2>1, <2>2
  <1>5. ASSUME NEW u \in Types, Load(u) PROVE Goal
    <2>1. provider' = [provider EXCEPT ![u].state = "loading"] /\ provider[u].state = "made"
          /\ job'[u] = "executes"
      BY <1>5, Zenon DEF Load, Providers
    <2>2. CASE t = u
      <3>1. /\ provider'[t] = [state |-> "loading", source |-> provider[t].source]
            /\ DOMAIN provider' = Types
        BY <1>3, <2>1, <2>2
      <3>2. provider'[t].state = "loading" /\ provider'[t].source = provider[t].source
        BY <3>1
      <3>3. ProviderStep(t)
        BY <2>1, <2>2, <3>2 DEF Answering, NoOne, ProviderStep
      <3> QED
        BY <3>1, <3>2, <3>3
    <2>3. CASE t # u
      BY <1>2, <1>3, <2>1, <2>3 DEF ProviderStep
    <2> QED
      BY <2>2, <2>3
  <1>6. ASSUME NEW u \in Types, Finish(u) PROVE Goal
    <2>1. provider' = [provider EXCEPT ![u].state = "loaded"] /\ provider[u].state = "loading"
      BY <1>6, Zenon DEF Finish
    <2>2. CASE t = u
      <3>1. /\ provider'[t] = [state |-> "loaded", source |-> provider[t].source]
            /\ DOMAIN provider' = Types
        BY <1>3, <2>1, <2>2
      <3>2. provider'[t].state = "loaded" /\ provider'[t].source = provider[t].source
        BY <3>1
      <3>3. ProviderStep(t)
        BY <2>1, <2>2, <3>2 DEF Answering, NoOne, ProviderStep
      <3> QED
        BY <3>1, <3>2, <3>3
    <2>3. CASE t # u
      BY <1>2, <1>3, <2>1, <2>3 DEF ProviderStep
    <2> QED
      BY <2>2, <2>3
  <1>7. ASSUME NEW u \in Types, Expire(u) PROVE Goal
    <2>1. provider' = [provider EXCEPT ![u].state = "gave up"] /\ provider[u].state = "loading"
      BY <1>7, Zenon DEF Expire
    <2>2. CASE t = u
      <3>1. /\ provider'[t] = [state |-> "gave up", source |-> provider[t].source]
            /\ DOMAIN provider' = Types
        BY <1>3, <2>1, <2>2
      <3>2. provider'[t].state = "gave up" /\ provider'[t].source = provider[t].source
        BY <1>3, <2>1, <2>2
      <3>3. ProviderStep(t)
        BY <2>1, <2>2, <3>2 DEF Answering, NoOne, ProviderStep
      <3> QED
        BY <3>1, <3>2, <3>3
    <2>3. CASE t # u
      BY <1>2, <1>3, <2>1, <2>3 DEF ProviderStep
    <2> QED
      BY <2>2, <2>3
  <1>8. \/ UNCHANGED provider
        \/ block > 1 /\ \E i \in DOMAIN segments : GetProvider(i)
        \/ \E u \in Types : Load(u) \/ Finish(u) \/ Expire(u)
    BY DEF BlockNext, TooltipExecute, StartBlock, Receive, DrawNext, HitCache, Running,
           TakeAnswer, ExecuteJob, Register, mainVars
  <1> QED
    BY <1>1, <1>4, <1>5, <1>6, <1>7, <1>8

(* What an answered segment shows is settled.                              *)
LEMMA AnswersStand ==
  ASSUME NEW S, Place(S), Providers, Answers, BlockNext, NEW segment, segment.type \in Types,
         Answered(segment)
  PROVE  /\ Answered(segment)'
         /\ Enabled0(segment)' <=> Enabled0(segment)
         /\ HasData(segment)' <=> HasData(segment)
  <1>1. UNCHANGED <<render, tool>>
    BY DEF BlockNext, TooltipExecute, StartBlock, Receive, DrawNext, HitCache, GetProvider,
           TakeAnswer, Load, ExecuteJob, Register, Finish, Expire, mainVars
  <1>2. CASE segment.cached
    BY <1>1, <1>2 DEF Answered, Enabled0, HasData
  <1>3. CASE ~segment.cached
    <2>1. provider[segment.type].state \in Answering
      BY <1>3 DEF Answered, Answering
    <2>2. /\ provider'[segment.type].state = provider[segment.type].state
          /\ provider'[segment.type].source = provider[segment.type].source
      BY <2>1, ProviderSteps DEF Answering, NoOne, ProviderStep, Made
    <2> QED
      BY <1>1, <2>1, <2>2 DEF Answered, Answering, Enabled0, Enables, HasData
  <1> QED
    BY <1>2, <1>3

-----------------------------------------------------------------------------
(* The first of its type stands for it.                                    *)
LEMMA FirstStays ==
  ASSUME NEW S, Place(S), BlockNext, NEW t \in Types, FirstAnswers(t),
         provider'[t].source = provider[t].source
  PROVE  FirstAnswers(t)'
  <1>1. PICK b \in 1..(block - 1) :
               /\ provider[t].source = SourceOf(t, BlockAt(b))
               /\ Asks(b, t) /\ \A c \in 1..(b - 1) : ~Asks(c, t)
    BY DEF FirstAnswers
  <1>2. b \in 1..(block' - 1) /\ b \in Nat /\ \A c \in 1..(b - 1) : c \in 1..(block - 1)
    BY BlocksStand
  <1>3. \A c \in 1..b : c \in 1..(block - 1) /\ (Asks(c, t)' <=> Asks(c, t))
    BY <1>2, BlocksStand DEF Asks
  <1>4. Asks(b, t)' /\ \A c \in 1..(b - 1) : ~(Asks(c, t)')
    BY <1>1, <1>2, <1>3
  <1>5. provider'[t].source = SourceOf(t, BlockAt(b)')
    BY <1>1, BlocksStand
  <1>6. provider'[t].source = SourceOf(t, BlockAt(b))'
    BY <1>5 DEF SourceOf
  <1> QED
    BY <1>2, <1>4, <1>6 DEF FirstAnswers

LEMMA FirstAsks ==
  ASSUME NEW S, RendersOf(S), Place(S), Past, BlockNext, NEW t \in Types, block > 1,
         provider[t].state = NoOne, UNCHANGED <<segments, block>>,
         provider'[t].source = SourceOf(t, segments),
         \E i \in DOMAIN segments : segments[i].type = t /\ ~segments[i].cached
  PROVE  FirstAnswers(t)'
  <1>1. block - 1 \in 1..(block' - 1) /\ segments = BlockAt(block - 1) /\ block \in Nat
        /\ BlockAt(block - 1)' = BlockAt(block - 1) /\ UNCHANGED <<block, render>>
    BY BlocksStand
  <1>2. Asks(block - 1, t)'
    BY <1>1 DEF Asks
  <1>3. ASSUME NEW c \in 1..(block - 1 - 1) PROVE ~Asks(c, t)
    <2>1. c \in 1..(block - 1) /\ c # block - 1
      BY <1>1
    <2>2. ASSUME NEW i \in DOMAIN BlockAt(c), BlockAt(c)[i].type = t, ~BlockAt(c)[i].cached PROVE FALSE
      <3>1. IsPast(c, i)
        BY <2>1 DEF IsPast
      <3>2. Answered(BlockAt(c)[i])
        BY <2>1, <3>1 DEF Past
      <3> QED
        BY <2>2, <3>2 DEF Answered, NoOne
    <2> QED
      BY <2>2 DEF Asks
  <1>4. \A c \in 1..(block - 1 - 1) : ~(Asks(c, t)')
    <2> TAKE c \in 1..(block - 1 - 1)
    <2>1. c \in 1..(block - 1)
      BY <1>1
    <2>2. BlockAt(c)' = BlockAt(c)
      BY <2>1, BlocksStand
    <2> QED
      BY <1>3, <2>2 DEF Asks
  <1>5. provider'[t].source = SourceOf(t, BlockAt(block - 1))'
    <2>1. provider'[t].source = SourceOf(t, BlockAt(block - 1)')
      BY <1>1
    <2> QED
      BY <1>1, <2>1 DEF SourceOf
  <1> QED
    BY <1>1, <1>2, <1>4, <1>5 DEF FirstAnswers

LEMMA ProvidersStep ==
  ASSUME NEW S, RendersOf(S), Place(S), Providers, Answers, Past, BlockNext
  PROVE  Providers'
  <1>1. \A t \in Types : /\ DOMAIN provider' = Types
                         /\ provider'[t] = [state |-> provider'[t].state, source |-> provider'[t].source]
                         /\ ProviderStep(t)
    BY ProviderSteps
  <1>2. ASSUME NEW t \in Types
        PROVE  /\ provider'[t].state \in {NoOne, "made", "loading", "loaded", "gave up"}
               /\ provider'[t].state # NoOne => FirstAnswers(t)'
    <2>1. CASE Made(t)
      <3>1. FirstAnswers(t)'
        BY <2>1, FirstAsks DEF Made
      <3> QED
        BY <2>1, <3>1 DEF Made
    <2>2. CASE ~Made(t)
      <3>1. provider'[t].source = provider[t].source
            /\ (provider'[t].state # NoOne => provider[t].state # NoOne)
            /\ provider'[t].state \in {provider[t].state, "loading", "loaded", "gave up"}
        BY <1>1, <2>2 DEF ProviderStep, Answering
      <3>2. provider[t].state \in {NoOne, "made", "loading", "loaded", "gave up"}
            /\ (provider[t].state # NoOne => FirstAnswers(t))
        BY DEF Providers
      <3> QED
        BY <3>1, <3>2, FirstStays
    <2> QED
      BY <2>1, <2>2
  <1>3. DOMAIN job' = Types
        /\ \A t \in Types : job'[t] = job[t] \/ job'[t] \in {"executes", "registers", "ended"}
    BY DEF BlockNext, TooltipExecute, StartBlock, Receive, DrawNext, HitCache, GetProvider,
           TakeAnswer, Load, ExecuteJob, Register, Finish, Expire, mainVars, Providers
  <1>4. \A t \in Types : provider'[t].state = "loading" => job'[t] \in {"executes", "registers", "ended"}
    BY <1>1, <1>3 DEF ProviderStep, Made, Providers
  <1>5. DOMAIN provider' = Types
    <2>1. \/ UNCHANGED provider
          \/ \E u \in DOMAIN segments : GetProvider(u)
          \/ \E u \in Types : Load(u) \/ Finish(u) \/ Expire(u)
      BY DEF BlockNext, TooltipExecute, StartBlock, Receive, DrawNext, HitCache,
             TakeAnswer, ExecuteJob, Register, mainVars
    <2>2. ASSUME NEW u, GetProvider(u) PROVE DOMAIN provider' = Types
      BY <2>2 DEF GetProvider, Providers
    <2>3. ASSUME NEW u, Load(u) \/ Finish(u) \/ Expire(u) PROVE DOMAIN provider' = Types
      BY <2>3, Zenon DEF Load, Finish, Expire, Providers
    <2> QED
      BY <2>1, <2>2, <2>3 DEF Providers
  <1> QED
    BY <1>1, <1>2, <1>3, <1>4, <1>5 DEF Providers

-----------------------------------------------------------------------------
(* What the workers hold.                                                  *)
Holds(i) ==
    /\ at[i] \in {"started", "gets"} => on[i] = render.tip /\ filled[i] = FALSE
    /\ at[i] = "gets" => ~segments[i].cached /\ provider[segments[i].type].state # NoOne
    /\ at[i] = "sent" => /\ Answered(segments[i])
                         /\ (on[i] <=> Enabled0(segments[i])) /\ (filled[i] <=> HasData(segments[i]))

LEMMA HoldsStill ==
  ASSUME NEW S, RendersOf(S), Place(S), Providers, Answers, BlockNext, block > 1, UNCHANGED segments,
         NEW i \in DOMAIN segments, at'[i] = at[i], on'[i] = on[i], filled'[i] = filled[i]
  PROVE  Holds(i)'
  <1>1. Holds(i)
    BY DEF Answers, Holds
  <1>2. segments[i].type \in Types
    BY DEF Place, RendersOf
  <1>3. UNCHANGED render
    BY BlocksStand
  <1>4. at[i] = "gets" => provider'[segments[i].type].state # NoOne
    BY <1>1, <1>2, ProviderSteps DEF Holds, ProviderStep, Made, Answering, NoOne
  <1>5. at[i] = "sent" => /\ Answered(segments[i])'
                          /\ Enabled0(segments[i])' <=> Enabled0(segments[i])
                          /\ HasData(segments[i])' <=> HasData(segments[i])
    <2> DEFINE segment == segments[i]
    <2>1. segment' = segment
      OBVIOUS
    <2> HIDE DEF segment
    <2>2. segment.type \in Types
      BY <1>2 DEF segment
    <2>3. ASSUME NEW s, s = segment, Answered(s)
          PROVE  Answered(s)' /\ (Enabled0(s)' <=> Enabled0(s)) /\ (HasData(s)' <=> HasData(s))
      BY <2>2, <2>3, AnswersStand
    <2> QED
      BY <1>1, <2>1, <2>3 DEF Holds, segment, Answered, Enabled0, HasData
  <1> QED
    BY <1>1, <1>3, <1>4, <1>5 DEF Holds

LEMMA AnswersStep ==
  ASSUME NEW S, RendersOf(S), Place(S), Workers, Providers, Answers, BlockNext
  PROVE  Answers'
  <1> SUFFICES ASSUME block' > 1, NEW i \in DOMAIN segments' PROVE Holds(i)'
    BY DEF Answers, Holds
  <1>1. CASE TooltipExecute
    BY <1>1 DEF TooltipExecute, Place, IsRequest
  <1>2. CASE StartBlock
    BY <1>2 DEF StartBlock, Holds
  <1>3. CASE Receive \/ DrawNext
    <2>1. block > 1 /\ UNCHANGED <<at, on, filled, segments>>
      BY <1>3 DEF Receive, DrawNext
    <2> QED
      BY <2>1, HoldsStill
  <1>4. ASSUME Running, NEW j \in DOMAIN segments, HitCache(j) PROVE Holds(i)'
    <2>1. /\ block > 1 /\ UNCHANGED <<segments, filled, render, provider>>
          /\ DOMAIN at = DOMAIN segments /\ DOMAIN on = DOMAIN segments
          /\ at' = [at EXCEPT ![j] = "sent"] /\ on' = [on EXCEPT ![j] = TRUE]
          /\ at[j] = "started" /\ segments[j].cached
      BY <1>4 DEF HitCache, Running, Workers, Send
    <2>2. CASE i # j
      BY <2>1, <2>2, HoldsStill
    <2>3. CASE i = j
      <3>1. filled[i] = FALSE
        BY <2>1, <2>3 DEF Answers
      <3>2. at'[i] = "sent" /\ on'[i] = TRUE /\ filled'[i] = FALSE
        BY <2>1, <2>3, <3>1
      <3> QED
        BY <2>1, <2>3, <3>2 DEF Holds, Answered, Enabled0, HasData
    <2> QED
      BY <2>2, <2>3
  <1>5. ASSUME Running, NEW j \in DOMAIN segments, GetProvider(j) PROVE Holds(i)'
    <2>1. /\ block > 1 /\ UNCHANGED <<segments, on, filled, render>>
          /\ DOMAIN at = DOMAIN segments
          /\ at' = [at EXCEPT ![j] = "gets"] /\ at[j] = "started" /\ ~segments[j].cached
      BY <1>5 DEF GetProvider, Running, Workers, mainVars
    <2>2. CASE i # j
      BY <2>1, <2>2, HoldsStill
    <2>3. CASE i = j
      <3>1. on[i] = render.tip /\ filled[i] = FALSE
        BY <2>1, <2>3 DEF Answers
      <3>2. segments[i].type \in Types
        BY <2>3 DEF Place, RendersOf
      <3>3. provider'[segments[i].type].state # NoOne
        BY <1>5, <2>3, <3>2 DEF GetProvider, Providers, NoOne
      <3> QED
        BY <2>1, <2>3, <3>1, <3>3 DEF Holds
    <2> QED
      BY <2>2, <2>3
  <1>6. ASSUME Running, NEW j \in DOMAIN segments, TakeAnswer(j) PROVE Holds(i)'
    <2> DEFINE p == provider[segments[j].type]
    <2>1. /\ block > 1 /\ UNCHANGED <<segments, render, provider, tool>>
          /\ DOMAIN at = DOMAIN segments /\ DOMAIN on = DOMAIN segments
          /\ DOMAIN filled = DOMAIN segments
          /\ at' = [at EXCEPT ![j] = "sent"] /\ at[j] = "gets"
          /\ p.state \in {"loaded", "gave up"}
          /\ on' = [on EXCEPT ![j] = IF p.state = "loaded" THEN Enables(p.source) ELSE @]
          /\ filled' = [filled EXCEPT ![j] = p.state = "loaded"]
      BY <1>6 DEF TakeAnswer, Running, Workers, Send
    <2>2. CASE i # j
      BY <2>1, <2>2, HoldsStill
    <2>3. CASE i = j
      <3>1. on[i] = render.tip /\ ~segments[i].cached
        BY <2>1, <2>3 DEF Answers
      <3>2. at'[i] = "sent" /\ filled'[i] = (p.state = "loaded")
            /\ on'[i] = IF p.state = "loaded" THEN Enables(p.source) ELSE render.tip
        BY <2>1, <2>3, <3>1
      <3> QED
        BY <2>1, <2>3, <3>1, <3>2 DEF Holds, Answered, Enabled0, HasData, Enables
    <2> QED
      BY <2>2, <2>3
  <1>7. CASE \E t \in Types : Load(t) \/ ExecuteJob(t) \/ Register(t) \/ Finish(t) \/ Expire(t)
    <2>1. block > 1 /\ UNCHANGED <<at, on, filled, segments>>
      BY <1>7 DEF Load, ExecuteJob, Register, Finish, Expire, mainVars
    <2> QED
      BY <2>1, HoldsStill
  <1> QED
    BY <1>1, <1>2, <1>3, <1>4, <1>5, <1>6, <1>7 DEF BlockNext

-----------------------------------------------------------------------------
(* Drawing goes on in the order of the list.                               *)
LEMMA PastStays ==
  ASSUME NEW S, Place(S), Workers, BlockNext, NEW b, NEW i, IsPast(b, i)
  PROVE  IsPast(b, i)'
  <1>1. b \in 1..(block - 1) /\ b \in 1..(block' - 1) /\ BlockAt(b)' = BlockAt(b)
        /\ i \in DOMAIN BlockAt(b)
    BY BlocksStand DEF IsPast
  <1>2. (b = block - 1 => i < current) /\ current \in Nat /\ i \in Nat
    <2>1. BlockAt(b) \in Seq(S)
      BY <1>1, BlocksStand
    <2> QED
      BY <1>1, <2>1 DEF IsPast, Place
  <1>3. \/ block' = block + 1
        \/ block' = block /\ (current' = current \/ current' = current + 1)
    <2>1. StartBlock => block' = block + 1
      BY DEF StartBlock
    <2>2. ~StartBlock => block' = block /\ (current' = current \/ current' = current + 1)
      BY DEF BlockNext, TooltipExecute, Receive, DrawNext, HitCache, GetProvider, TakeAnswer,
             Load, ExecuteJob, Register, Finish, Expire, mainVars
    <2> QED
      BY <2>1, <2>2
  <1>4. b = block' - 1 => i < current'
    <2>1. block \in Nat /\ b \in Nat /\ b < block
      BY <1>1, BlocksStand
    <2> QED
      BY <1>1, <1>2, <1>3, <2>1
  <1> QED
    BY <1>1, <1>4 DEF IsPast

LEMMA NewPast ==
  ASSUME NEW S, Place(S), Workers, BlockNext, NEW b, NEW i, IsPast(b, i)', ~IsPast(b, i)
  PROVE  DrawNext /\ b = block - 1 /\ i = current /\ block' = block
  <1>1. block \in Nat /\ block' \in Nat /\ b \in Nat /\ b \in 1..(block' - 1)
    BY BlocksStand DEF IsPast
  <1>2. CASE StartBlock
    <2>1. block' = block + 1 /\ current' = 1 /\ UNCHANGED render
      BY <1>2 DEF StartBlock
    <2>2. BlockAt(b)' \in Seq(S)
      <3>1. segments' \in Seq(S)
        BY PlaceStep DEF Place
      <3>2. b \in 1..Len(render.blocks) /\ ~render.tip => render.blocks[b] \in Seq(S)
        BY DEF Place, IsRequest
      <3>3. b \in 1..Len(render.blocks)
        BY <1>1, <1>2, <2>1 DEF StartBlock, Place, IsRequest
      <3> QED
        BY <2>1, <3>1, <3>2, <3>3 DEF BlockAt
    <2>3. i \in Nat \ {0}
      BY <2>2 DEF IsPast
    <2>4. b # block
      BY <1>1, <2>1, <2>3 DEF IsPast
    <2>5. b \in 1..(block - 1)
      BY <1>1, <2>1, <2>4
    <2>6. BlockAt(b)' = BlockAt(b) /\ BlockAt(b) \in Seq(S)
      BY <2>5, BlocksStand
    <2>7. i \in DOMAIN BlockAt(b)
      BY <2>6 DEF IsPast
    <2>8. b = block - 1 => i < current
      <3> SUFFICES ASSUME b = block - 1 PROVE i < current
        OBVIOUS
      <3>1. block > 1
        BY <1>1, <2>5
      <3>2. segments = BlockAt(b)
        BY <3>1, BlocksStand
      <3>3. current > Len(segments)
        BY <1>2, <3>1 DEF StartBlock
      <3>4. current \in Nat /\ Len(segments) \in Nat /\ i \in 1..Len(segments)
        BY <2>6, <2>7, <3>2 DEF Place
      <3> QED
        BY <3>3, <3>4
    <2> QED
      BY <2>5, <2>7, <2>8 DEF IsPast
  <1>3. CASE ~StartBlock
    <2>1. block' = block /\ ((DrawNext /\ current' = current + 1) \/ current' = current)
      BY <1>3 DEF BlockNext, TooltipExecute, Receive, DrawNext, HitCache, GetProvider, TakeAnswer,
                  Load, ExecuteJob, Register, Finish, Expire, mainVars
    <2>2. b \in 1..(block - 1)
      BY <1>1, <2>1
    <2>3. BlockAt(b)' = BlockAt(b) /\ BlockAt(b) \in Seq(S)
      BY <2>2, BlocksStand
    <2>4. i \in DOMAIN BlockAt(b) /\ i \in Nat /\ current \in Nat
      BY <2>3 DEF IsPast, Place
    <2>5. b = block - 1 /\ ~(i < current) /\ i < current'
      BY <2>1, <2>2, <2>4 DEF IsPast
    <2> QED
      BY <2>1, <2>4, <2>5
  <1> QED
    BY <1>2, <1>3

LEMMA DrawsTheNext ==
  ASSUME NEW S, Place(S), Workers, DrawNext
  PROVE  /\ block > 1 /\ current \in DOMAIN segments /\ at[current] = "sent"
         /\ block - 1 \in Nat /\ current \in Nat
  <1>1. current \in received
    BY DEF DrawNext, CanRenderSegment
  <1>2. block > 1
    BY <1>1 DEF Place
  <1> QED
    BY <1>1, <1>2 DEF Workers, Place

(* The texts so far are in order, and the one that is drawn comes last.    *)
LEMMA AppendedInOrder ==
  ASSUME NEW S, Place(S), Workers, Ordered, DrawNext,
         shown' = Append(shown, <<block - 1, current>>)
  PROVE  /\ shown' \in Seq(Nat \X Nat) /\ DOMAIN shown' = 1..(Len(shown) + 1)
         /\ DOMAIN shown = 1..Len(shown) /\ Len(shown) \in Nat
         /\ \A k \in DOMAIN shown : shown'[k] = shown[k]
         /\ shown'[Len(shown) + 1] = <<block - 1, current>>
  <1>1. <<block - 1, current>> \in Nat \X Nat
    BY DrawsTheNext
  <1> QED
    BY <1>1 DEF Ordered

LEMMA DrawnIsPast ==
  ASSUME NEW S, Place(S), Workers, DrawNext, NEW b, NEW i, b = block - 1, i = current
  PROVE  IsPast(b, i)'
  <1>1. /\ block > 1 /\ current \in DOMAIN segments /\ block - 1 \in Nat /\ current \in Nat
        /\ block \in Nat
    BY DrawsTheNext DEF Place, IsRequest
  <1>2. UNCHANGED <<render, segments, block>> /\ current' = current + 1
    BY DEF DrawNext
  <1>3. segments = IF render.tip THEN segments ELSE render.blocks[b]
    BY <1>1 DEF Place
  <1>4. BlockAt(b)' = segments
    BY <1>2, <1>3 DEF BlockAt
  <1> QED
    BY <1>1, <1>2, <1>4 DEF IsPast

LEMMA OrderedStep ==
  ASSUME NEW S, Place(S), Workers, Ordered, BlockNext
  PROVE  Ordered'
  <1>1. ASSUME NEW k \in DOMAIN shown
        PROVE  \E b, i : /\ shown[k] = <<b, i>> /\ IsPast(b, i)' /\ IsPast(b, i)
    <2>1. PICK b, i : shown[k] = <<b, i>> /\ IsPast(b, i)
      BY DEF Ordered
    <2> QED
      BY <2>1, PastStays
  <1>2. CASE UNCHANGED shown
    BY <1>1, <1>2 DEF Ordered, Precedes
  <1>3. CASE DrawNext /\ shown' = Append(shown, <<block - 1, current>>)
    <2>1. /\ shown' \in Seq(Nat \X Nat) /\ DOMAIN shown' = 1..(Len(shown) + 1)
          /\ DOMAIN shown = 1..Len(shown) /\ Len(shown) \in Nat
          /\ \A k \in DOMAIN shown : shown'[k] = shown[k]
          /\ shown'[Len(shown) + 1] = <<block - 1, current>>
      BY <1>3, AppendedInOrder
    <2>2. block - 1 \in Nat /\ current \in Nat /\ block \in Nat
      BY <1>3, DrawsTheNext DEF Place, IsRequest
    <2>3. PICK b0 \in Nat, i0 \in Nat : b0 = block - 1 /\ i0 = current
      BY <2>2
    <2>7. IsPast(b0, i0)'
      BY <1>3, <2>3, DrawnIsPast
    <2>4. ASSUME NEW k \in DOMAIN shown' PROVE \E b, i : shown'[k] = <<b, i>> /\ IsPast(b, i)'
      <3>1. CASE k \in DOMAIN shown
        BY <1>1, <2>1, <3>1
      <3>2. CASE k = Len(shown) + 1
        BY <2>1, <2>3, <2>7, <3>2
      <3> QED
        BY <2>1, <3>1, <3>2
    <2>5. ASSUME NEW k \in DOMAIN shown PROVE Precedes(shown[k], <<block - 1, current>>)
      <3>1. PICK b, i : shown[k] = <<b, i>> /\ IsPast(b, i)
        BY DEF Ordered
      <3>2. b < block - 1 \/ (b = block - 1 /\ i < current)
        BY <2>2, <3>1 DEF IsPast
      <3> QED
        BY <3>1, <3>2 DEF Precedes
    <2>6. ASSUME NEW k \in DOMAIN shown', NEW l \in DOMAIN shown', k < l
          PROVE  Precedes(shown'[k], shown'[l])
      <3>1. k \in DOMAIN shown
        BY <2>1, <2>6
      <3>2. CASE l \in DOMAIN shown
        BY <2>1, <2>6, <3>1, <3>2 DEF Ordered
      <3>3. CASE l = Len(shown) + 1
        BY <2>1, <2>5, <3>1, <3>3
      <3> QED
        BY <2>1, <3>2, <3>3
    <2> QED
      BY <2>1, <2>4, <2>6 DEF Ordered, Precedes
  <1>4. UNCHANGED shown \/ (DrawNext /\ shown' = Append(shown, <<block - 1, current>>))
    BY DEF BlockNext, TooltipExecute, StartBlock, Receive, DrawNext, HitCache, GetProvider, TakeAnswer,
           Load, ExecuteJob, Register, Finish, Expire, mainVars
  <1> QED
    BY <1>2, <1>3, <1>4

-----------------------------------------------------------------------------
(* What was drawn stays as it was decided.                                 *)
LEMMA DecidedStays ==
  ASSUME NEW S, RendersOf(S), Place(S), Workers, Providers, Answers, Past, BlockNext,
         NEW b, NEW i, IsPast(b, i)
  PROVE  (Answered(BlockAt(b)[i]) /\ Decided(b, i))'
  <1>1. b \in 1..(block - 1) /\ i \in DOMAIN BlockAt(b) /\ BlockAt(b)' = BlockAt(b)
        /\ BlockAt(b) \in Seq(S) /\ UNCHANGED render
    BY BlocksStand DEF IsPast
  <1>2. PICK segment : segment = BlockAt(b)[i]
    OBVIOUS
  <1>3. BlockAt(b)'[i] = segment /\ segment.type \in Types
    BY <1>1, <1>2 DEF RendersOf
  <1>4. Answered(segment) /\ Decided(b, i)
    BY <1>1, <1>2 DEF Past
  <1>5. Answered(segment)' /\ (Enabled0(segment)' <=> Enabled0(segment))
        /\ (HasData(segment)' <=> HasData(segment))
    BY <1>3, <1>4, AnswersStand
  <1>6. Shows(b, i)' <=> Shows(b, i)
    <2>1. CASE UNCHANGED shown
      BY <2>1 DEF Shows
    <2>2. CASE DrawNext /\ shown' = Append(shown, <<block - 1, current>>)
      <3>1. /\ DOMAIN shown' = 1..(Len(shown) + 1) /\ DOMAIN shown = 1..Len(shown)
            /\ Len(shown) \in Nat /\ \A k \in DOMAIN shown : shown'[k] = shown[k]
            /\ shown'[Len(shown) + 1] = <<block - 1, current>>
        BY <2>2, AppendedInOrder DEF Past
      <3>2. <<b, i>> # <<block - 1, current>>
        <4>1. b = block - 1 => i < current
          BY DEF IsPast
        <4>2. current \in Nat
          BY DEF Place
        <4> QED
          BY <4>1, <4>2
      <3> QED
        BY <3>1, <3>2 DEF Shows
    <2>3. UNCHANGED shown \/ (DrawNext /\ shown' = Append(shown, <<block - 1, current>>))
      BY DEF BlockNext, TooltipExecute, StartBlock, Receive, DrawNext, HitCache, GetProvider, TakeAnswer,
             Load, ExecuteJob, Register, Finish, Expire, mainVars
    <2> QED
      BY <2>1, <2>2, <2>3
  <1>7. PICK visible \in SUBSET segment.refs :
              Shows(b, i) <=> Drawn(segment, Enabled0(segment), HasData(segment), visible).shows
    BY <1>2, <1>4 DEF Decided
  <1>8. Shows(b, i)' <=> Drawn(segment, Enabled0(segment), HasData(segment), visible)'.shows
    BY <1>1, <1>5, <1>6, <1>7 DEF Drawn, DrawnWhen, HasText
  <1>9. Decided(b, i)'
    BY <1>3, <1>8 DEF Decided
  <1>10. Answered(BlockAt(b)[i])'
    BY <1>3, <1>5 DEF Answered
  <1> QED
    BY <1>9, <1>10

(* The segment that is drawn shows what its worker holds.                  *)
LEMMA DrawnIsDecided ==
  ASSUME NEW S, RendersOf(S), Place(S), Workers, Providers, Answers, Past, DrawNext,
         NEW b, NEW i, b = block - 1, i = current
  PROVE  (Answered(BlockAt(b)[i]) /\ Decided(b, i))'
  <1>1. /\ block > 1 /\ i \in DOMAIN segments /\ at[i] = "sent" /\ b \in Nat /\ i \in Nat
        /\ block \in Nat
    BY DrawsTheNext DEF Place, IsRequest
  <1>2. UNCHANGED <<render, tool, segments, block, provider>>
    BY DEF DrawNext
  <1>3. BlockAt(b)' = segments
    BY <1>1, <1>2 DEF BlockAt, Place
  <1>4. PICK segment : segment = segments[i]
    OBVIOUS
  <1>5. Answered(segment) /\ (on[i] <=> Enabled0(segment)) /\ (filled[i] <=> HasData(segment))
    BY <1>1, <1>4 DEF Answers
  <1> DEFINE drawn == Drawn(segment, on[i], filled[i], data)
             visible == data \cap segment.refs
  <1>6. shown' = IF drawn.shows THEN Append(shown, <<b, i>>) ELSE shown
    BY <1>4 DEF DrawNext
  <1>7. Shows(b, i)' <=> drawn.shows
    <2>1. CASE drawn.shows
      <3>1. shown' = Append(shown, <<b, i>>) /\ shown \in Seq(Nat \X Nat) /\ <<b, i>> \in Nat \X Nat
        BY <1>1, <1>6, <2>1 DEF Past, Ordered
      <3>2. Len(shown) + 1 \in DOMAIN shown' /\ shown'[Len(shown) + 1] = <<b, i>>
        BY <3>1
      <3> QED
        BY <2>1, <3>2 DEF Shows
    <2>2. CASE ~drawn.shows
      <3>1. shown' = shown
        BY <1>6, <2>2
      <3>2. ~Shows(b, i)
        <4> SUFFICES ASSUME NEW k \in DOMAIN shown, shown[k] = <<b, i>> PROVE FALSE
          BY DEF Shows
        <4>1. IsPast(b, i)
          BY DEF Past, Ordered
        <4> QED
          BY <1>1, <4>1 DEF IsPast, Place
      <3> QED
        BY <2>2, <3>1, <3>2 DEF Shows
    <2> QED
      BY <2>1, <2>2
  <1>8. drawn.shows <=> Drawn(segment, Enabled0(segment), HasData(segment), visible).shows
    BY <1>5 DEF Drawn, DrawnWhen, HasText
  <1>9. Drawn(segment, Enabled0(segment), HasData(segment), visible).shows
          <=> Drawn(segment, Enabled0(segment)', HasData(segment)', visible).shows
    BY <1>2 DEF Drawn, DrawnWhen, HasText, Enabled0, HasData, Enables
  <1>10. PICK seen \in SUBSET segment.refs : seen = visible
    OBVIOUS
  <1>11. Shows(b, i)' <=> Drawn(segment, Enabled0(segment), HasData(segment), seen)'.shows
    BY <1>2, <1>7, <1>8, <1>9, <1>10 DEF Drawn, DrawnWhen, HasText
  <1>12. BlockAt(b)'[i] = segment
    BY <1>2, <1>3, <1>4
  <1> QED
    BY <1>2, <1>5, <1>11, <1>12 DEF Decided, Answered

LEMMA PastStep ==
  ASSUME NEW S, RendersOf(S), Place(S), Workers, Providers, Answers, Past, BlockNext
  PROVE  Past'
  <1>1. Ordered'
    BY OrderedStep DEF Past
  <1>2. ASSUME NEW b, NEW i, IsPast(b, i)' PROVE (Answered(BlockAt(b)[i]) /\ Decided(b, i))'
    <2>1. CASE IsPast(b, i)
      BY <2>1, DecidedStays
    <2>2. CASE ~IsPast(b, i)
      BY <1>2, <2>2, NewPast, DrawnIsDecided
    <2> QED
      BY <2>1, <2>2
  <1> QED
    BY <1>1, <1>2 DEF Past

LEMMA BlockInvStep ==
  ASSUME NEW S, RendersOf(S), BlockInv(S), [BlockNext]_blockVars
  PROVE  BlockInv(S)'
  <1>1. CASE BlockNext
    BY <1>1, PlaceStep, WorkersStep, ProvidersStep, AnswersStep, PastStep DEF BlockInv
  <1>2. CASE UNCHANGED blockVars
    <2>1. UNCHANGED <<render, tool, asked, segments, on, filled, received, current, block, shown, at,
                      provider, job, out>>
      BY <1>2 DEF blockVars, mainVars
    <2>2. Place(S)' /\ Workers'
      BY <2>1 DEF BlockInv, Place, IsRequest, Workers
    <2>3. Providers'
      <3>1. ASSUME NEW t PROVE FirstAnswers(t)' <=> FirstAnswers(t)
        <4>1. \A b : BlockAt(b)' = BlockAt(b)
          BY <2>1 DEF BlockAt
        <4>2. \A b : (Asks(b, t)' <=> Asks(b, t)) /\ SourceOf(t, BlockAt(b))' = SourceOf(t, BlockAt(b))
          BY <4>1 DEF Asks, SourceOf
        <4> QED
          BY <2>1, <4>2 DEF FirstAnswers
      <3> QED
        BY <2>1, <3>1 DEF BlockInv, Providers
    <2>4. Answers'
      BY <2>1 DEF BlockInv, Answers, Answered, Enabled0, Enables, HasData
    <2>5. Past'
      <3>1. Ordered'
        BY <2>1 DEF BlockInv, Past, Ordered, IsPast, BlockAt, Precedes
      <3>2. ASSUME NEW b \in 1..(block - 1), NEW i \in DOMAIN BlockAt(b), IsPast(b, i)
            PROVE  Answered(BlockAt(b)[i])' /\ Decided(b, i)'
        <4>1. Answered(BlockAt(b)[i]) /\ Decided(b, i)
          BY <3>2 DEF BlockInv, Past
        <4> QED
          BY <2>1, <4>1 DEF Answered, Decided, Shows, BlockAt, Enabled0, Enables, HasData, Drawn, HasText
      <3> QED
        BY <2>1, <3>1, <3>2 DEF Past, IsPast, BlockAt
    <2> QED
      BY <2>2, <2>3, <2>4, <2>5 DEF BlockInv
  <1> QED
    BY <1>1, <1>2

(* Whatever a prompt or tooltip is made of: while the drawing goroutine    *)
(* waits, a worker has a result to send and is not stuck itself            *)
(* (writeSegments, onceProvider.Get).                                      *)
THEOREM DrawingIsNeverStuck ==
  ASSUME NEW S, RendersOf(S)
  PROVE  BlockSpec => []DrawingNeverWaitsInVain
  <1>1. BlockInv(S) => DrawingNeverWaitsInVain
    <2> SUFFICES ASSUME BlockInv(S), block > 1, current <= Len(segments), ~CanRenderSegment, out = <<>>,
                        \A i \in DOMAIN segments :
                            ~(at[i] = "started" \/ (at[i] = "gets" /\ CanAnswer(segments[i].type)))
                 PROVE  FALSE
      BY DEF DrawingNeverWaitsInVain, Running
    <2>1. ASSUME NEW i \in DOMAIN segments PROVE i \in received
      <3>1. at[i] # "gets"
        <4> SUFFICES ASSUME at[i] = "gets" PROVE CanAnswer(segments[i].type)
          OBVIOUS
        <4>1. segments[i].type \in Types /\ provider[segments[i].type].state # NoOne
          BY DEF BlockInv, Place, RendersOf, Answers
        <4> QED
          BY <4>1 DEF BlockInv, Providers, CanAnswer, NoOne
      <3>2. at[i] = "sent"
        BY <3>1 DEF BlockInv, Workers
      <3> QED
        BY <3>2 DEF BlockInv, Workers
    <2>2. segments \in Seq(S) /\ current \in 1..(Len(segments) + 1) /\ received \subseteq DOMAIN segments
      BY DEF BlockInv, Workers, Place
    <2>3. DOMAIN segments = 1..Len(segments) /\ Len(segments) \in Nat /\ current \in 1..Len(segments)
      BY <2>2
    <2>4. received = 1..Len(segments)
      BY <2>1, <2>2, <2>3
    <2>5. Cardinality(1..Len(segments)) = Len(segments)
      BY <2>3, FS_Interval
    <2> QED
      BY <2>3, <2>4, <2>5 DEF CanRenderSegment
  <1> QED
    BY <1>1, BlockInvInit, BlockInvStep, PTL DEF BlockSpec

(* A block shows its segments in the order of the list, each by the answer *)
(* of the first of its type, whoever answers first and whatever times out  *)
(* (writeSegments, getOrCreateSharedProvider, renderSegmentWithCache).     *)
THEOREM BlocksShowTheirAnswers ==
  ASSUME NEW S, RendersOf(S)
  PROVE  BlockSpec => []ShownByItsAnswer
  <1>1. BlockInv(S) => ShownByItsAnswer
    <2> SUFFICES ASSUME BlockInv(S) PROVE ShownByItsAnswer
      OBVIOUS
    <2>1. \A k \in DOMAIN shown : IsPast(shown[k][1], shown[k][2])
      BY DEF BlockInv, Past, Ordered
    <2>2. ASSUME NEW b \in 1..(block - 1), NEW i \in DOMAIN BlockAt(b), IsPast(b, i)
          PROVE  /\ ~BlockAt(b)[i].cached => FirstAnswers(BlockAt(b)[i].type)
                 /\ Decided(b, i)
      <3>1. Answered(BlockAt(b)[i]) /\ Decided(b, i)
        BY <2>2 DEF BlockInv, Past
      <3>2. BlockAt(b)[i].type \in Types
        BY DEF BlockAt, BlockInv, Place, IsRequest, RendersOf
      <3> QED
        BY <3>1, <3>2 DEF Answered, BlockInv, Providers, NoOne
    <2> QED
      BY <2>1, <2>2 DEF ShownByItsAnswer, Decided, BlockInv, Past, Ordered
  <1> QED
    BY <1>1, BlockInvInit, BlockInvStep, PTL DEF BlockSpec

-----------------------------------------------------------------------------
(* A block, as it is listed.  Two facts about numbers first: a set of them *)
(* has a least, and what starts at zero and goes on reaches them all.      *)
LEMMA NatLeast ==
  ASSUME NEW T, T \subseteq Nat, T # {}
  PROVE  \E n \in T : \A m \in T : n <= m
  <1>1. PICK R : R = OpToRel(<, Nat)
    BY ZenonT(40)
  <1>2. IsWellFoundedOn(R, Nat)
    BY <1>1, NatLessThanWellFounded, ZenonT(40)
  <1>3. PICK x \in T : \A y \in T : ~ (<<y, x>> \in R)
    BY <1>2, WFMin
  <1>4. \A y, z \in Nat : y < z => <<y, z>> \in R
    BY <1>1 DEF OpToRel
  <1>5. \A y \in T : ~ (y < x)
    BY <1>3, <1>4
  <1> QED
    BY <1>5

LEMMA NatSetInduction ==
  ASSUME NEW G, 0 \in G, \A n \in Nat : n \in G => n + 1 \in G
  PROVE  Nat \subseteq G
  <1>1. SUFFICES ASSUME Nat \ G # {} PROVE FALSE
    OBVIOUS
  <1>2. PICK n \in Nat \ G : \A m \in Nat \ G : n <= m
    BY <1>1, NatLeast
  <1> QED
    BY <1>2

(* What is drawn of a block, segment by segment.                           *)
LEMMA UptoSteps ==
  ASSUME NEW oc, NEW b, NEW acc, Len(Blocks(oc)[b]) \in Nat
  PROVE  /\ Upto(oc, b, acc)[0] = acc
         /\ \A i \in 1 .. Len(Blocks(oc)[b]) :
               Upto(oc, b, acc)[i] = DrawOne(oc, Upto(oc, b, acc)[i - 1], b, i)
  <1> DEFINE last == Len(Blocks(oc)[b])
             Defines(g, n) == g = [i \in 0 .. n |-> IF i = 0 THEN acc ELSE DrawOne(oc, g[i - 1], b, i)]
             G == {n \in Nat : \E g : Defines(g, n)}
  <1>1. 0 \in G
    <2> DEFINE g == [i \in 0 .. 0 |-> acc]
    <2>1. Defines(g, 0)
      OBVIOUS
    <2> HIDE DEF g
    <2> QED
      BY <2>1
  <1>2. ASSUME NEW n \in Nat, n \in G
        PROVE  n + 1 \in G
    <2>1. PICK g : Defines(g, n)
      BY <1>2
    <2> DEFINE h == [i \in 0 .. n + 1 |-> IF i = n + 1 THEN DrawOne(oc, g[n], b, n + 1) ELSE g[i]]
    <2>2. ASSUME NEW i \in 0 .. n + 1
          PROVE  h[i] = IF i = 0 THEN acc ELSE DrawOne(oc, h[i - 1], b, i)
      <3>1. CASE i = n + 1
        BY <3>1
      <3>2. CASE i = 0
        <4>1. h[i] = g[i] /\ g[i] = acc
          BY <2>1, <3>2
        <4> QED
          BY <4>1, <3>2
      <3>3. CASE i \in 1 .. n
        <4>1. h[i] = g[i] /\ h[i - 1] = g[i - 1] /\ i # 0 /\ i \in 0 .. n
          BY <3>3
        <4>2. g[i] = DrawOne(oc, g[i - 1], b, i)
          BY <2>1, <4>1
        <4> QED
          BY <4>1, <4>2
      <3> QED
        BY <3>1, <3>2, <3>3
    <2>3. h = [i \in 0 .. n + 1 |-> h[i]]
      OBVIOUS
    <2> HIDE DEF h
    <2>4. Defines(h, n + 1)
      BY <2>2, <2>3
    <2> HIDE DEF Defines
    <2> QED
      BY <2>4
  <1>3. last \in G
    <2> HIDE DEF G
    <2> QED
      BY <1>1, <1>2, NatSetInduction
  <1> DEFINE drawn == CHOOSE g : Defines(g, last)
  <1>4. Defines(drawn, last)
    BY <1>3
  <1>5. Upto(oc, b, acc) = drawn
    BY Zenon DEF Upto
  <1> HIDE DEF drawn
  <1>6. \A i \in 1 .. last : i - 1 \in 0 .. last /\ i \in 0 .. last /\ i # 0
    OBVIOUS
  <1>7. drawn[0] = acc /\ \A i \in 1 .. last : drawn[i] = DrawOne(oc, drawn[i - 1], b, i)
    BY <1>4, <1>6
  <1> QED
    BY <1>5, <1>7

(* And block by block.                                                     *)
Start(oc) ==
    [data |-> IF oc.render.tip
              THEN {t.name : t \in {u \in ToSet(Blocks(oc)[1]) : EnablesIn(oc, u)}} ELSE {},
     doubts |-> oc.late, open |-> {}, shown |-> {}]

LEMMA InOrderSteps ==
  ASSUME NEW oc, Len(Blocks(oc)) \in Nat
  PROVE  /\ InOrder(oc)[0] = Start(oc)
         /\ \A b \in 1 .. Len(Blocks(oc)) :
               InOrder(oc)[b] = Upto(oc, b, InOrder(oc)[b - 1])[Len(Blocks(oc)[b])]
  <1> DEFINE last == Len(Blocks(oc))
             Step(acc, b) == Upto(oc, b, acc)[Len(Blocks(oc)[b])]
             Defines(g, n) == g = [b \in 0 .. n |-> IF b = 0 THEN Start(oc) ELSE Step(g[b - 1], b)]
             G == {n \in Nat : \E g : Defines(g, n)}
  <1> HIDE DEF Step
  <1>1. 0 \in G
    <2> DEFINE g == [b \in 0 .. 0 |-> Start(oc)]
    <2>1. Defines(g, 0)
      OBVIOUS
    <2> HIDE DEF g
    <2> QED
      BY <2>1
  <1>2. ASSUME NEW n \in Nat, n \in G
        PROVE  n + 1 \in G
    <2>1. PICK g : Defines(g, n)
      BY <1>2
    <2> DEFINE h == [b \in 0 .. n + 1 |-> IF b = n + 1 THEN Step(g[n], n + 1) ELSE g[b]]
    <2>2. ASSUME NEW b \in 0 .. n + 1
          PROVE  h[b] = IF b = 0 THEN Start(oc) ELSE Step(h[b - 1], b)
      <3>1. CASE b = n + 1
        BY <3>1
      <3>2. CASE b = 0
        <4>1. h[b] = g[b] /\ g[b] = Start(oc)
          BY <2>1, <3>2
        <4> QED
          BY <4>1, <3>2
      <3>3. CASE b \in 1 .. n
        <4>1. h[b] = g[b] /\ h[b - 1] = g[b - 1] /\ b # 0 /\ b \in 0 .. n
          BY <3>3
        <4>2. g[b] = Step(g[b - 1], b)
          BY <2>1, <4>1
        <4> QED
          BY <4>1, <4>2
      <3> QED
        BY <3>1, <3>2, <3>3
    <2>3. h = [b \in 0 .. n + 1 |-> h[b]]
      OBVIOUS
    <2> HIDE DEF h
    <2>4. Defines(h, n + 1)
      BY <2>2, <2>3
    <2> HIDE DEF Defines
    <2> QED
      BY <2>4
  <1>3. last \in G
    <2> HIDE DEF G
    <2> QED
      BY <1>1, <1>2, NatSetInduction
  <1> DEFINE drawn == CHOOSE g : Defines(g, last)
  <1>4. Defines(drawn, last)
    BY <1>3
  <1>5. InOrder(oc) = drawn
    BY Zenon DEF InOrder, Start, Step
  <1> HIDE DEF drawn
  <1>6. \A b \in 1 .. last : b - 1 \in 0 .. last /\ b \in 0 .. last /\ b # 0
    OBVIOUS
  <1> QED
    BY <1>4, <1>5, <1>6 DEF Step

(* The tooltips that are drawn, one after the other.                       *)
LEMMA TipsSteps ==
  ASSUME NEW oc, Len(oc.render.blocks[1]) \in Nat
  PROVE  /\ Tips(oc)[0] = <<>>
         /\ \A i \in 1 .. Len(oc.render.blocks[1]) :
               LET tip == oc.render.blocks[1][i]
               IN  Tips(oc)[i] = IF EnablesIn(oc, tip) \/ (oc.render.again /\ ~tip.allowed)
                                 THEN Append(Tips(oc)[i - 1], tip) ELSE Tips(oc)[i - 1]
  <1> DEFINE tips == oc.render.blocks[1]
             last == Len(tips)
             Step(acc, i) == IF EnablesIn(oc, tips[i]) \/ (oc.render.again /\ ~tips[i].allowed)
                             THEN Append(acc, tips[i]) ELSE acc
             Defines(g, n) == g = [i \in 0 .. n |-> IF i = 0 THEN <<>> ELSE Step(g[i - 1], i)]
             G == {n \in Nat : \E g : Defines(g, n)}
  <1> HIDE DEF Step
  <1>1. 0 \in G
    <2> DEFINE g == [i \in 0 .. 0 |-> <<>>]
    <2>1. Defines(g, 0)
      OBVIOUS
    <2> HIDE DEF g
    <2> QED
      BY <2>1
  <1>2. ASSUME NEW n \in Nat, n \in G
        PROVE  n + 1 \in G
    <2>1. PICK g : Defines(g, n)
      BY <1>2
    <2> DEFINE h == [i \in 0 .. n + 1 |-> IF i = n + 1 THEN Step(g[n], n + 1) ELSE g[i]]
    <2>2. ASSUME NEW i \in 0 .. n + 1
          PROVE  h[i] = IF i = 0 THEN <<>> ELSE Step(h[i - 1], i)
      <3>1. CASE i = n + 1
        BY <3>1
      <3>2. CASE i = 0
        <4>1. h[i] = g[i] /\ g[i] = <<>>
          BY <2>1, <3>2
        <4> QED
          BY <4>1, <3>2
      <3>3. CASE i \in 1 .. n
        <4>1. h[i] = g[i] /\ h[i - 1] = g[i - 1] /\ i # 0 /\ i \in 0 .. n
          BY <3>3
        <4>2. g[i] = Step(g[i - 1], i)
          BY <2>1, <4>1
        <4> QED
          BY <4>1, <4>2
      <3> QED
        BY <3>1, <3>2, <3>3
    <2>3. h = [i \in 0 .. n + 1 |-> h[i]]
      OBVIOUS
    <2> HIDE DEF h
    <2>4. Defines(h, n + 1)
      BY <2>2, <2>3
    <2> HIDE DEF Defines
    <2> QED
      BY <2>4
  <1>3. last \in G
    <2> HIDE DEF G
    <2> QED
      BY <1>1, <1>2, NatSetInduction
  <1> DEFINE drawn == CHOOSE g : Defines(g, last)
  <1>4. Defines(drawn, last)
    BY <1>3
  <1>5. Tips(oc) = drawn
    BY Zenon DEF Tips, Step
  <1> HIDE DEF drawn
  <1>6. \A i \in 1 .. last : i - 1 \in 0 .. last /\ i \in 0 .. last /\ i # 0
    OBVIOUS
  <1>7. drawn[0] = <<>> /\ \A i \in 1 .. last : drawn[i] = Step(drawn[i - 1], i)
    BY <1>4, <1>6
  <1> QED
    BY <1>5, <1>7, Zenon DEF Step

-----------------------------------------------------------------------------
(* The outcomes that are still possible: nothing that happened speaks      *)
(* against them, and no step makes one possible again.                     *)
Possible(o) ==
    /\ o.render = render /\ o.tool = tool /\ late \subseteq o.late
    /\ \A t \in Types : /\ provider[t].state = "loaded" => t \in o.loaded
                        /\ provider[t].state = "gave up" => t \notin o.loaded

LEMMA PossibleBefore ==
  ASSUME NEW S, Place(S), Providers, Answers, BlockNext, NEW o, Possible(o)'
  PROVE  Possible(o)
  <1>1. UNCHANGED <<render, tool>> /\ late \subseteq late'
    BY DEF BlockNext, TooltipExecute, StartBlock, Receive, DrawNext, HitCache, GetProvider,
           TakeAnswer, Load, ExecuteJob, Register, Finish, Expire, mainVars
  <1>2. ASSUME NEW t \in Types, provider[t].state \in Answering
        PROVE  provider'[t].state = provider[t].state
    <2>1. ProviderStep(t)
      BY ProviderSteps
    <2> QED
      BY <1>2, <2>1 DEF ProviderStep, Made, Answering, NoOne
  <1> QED
    BY <1>1, <1>2 DEF Possible, Answering

(* A provider whose state is set.                                          *)
LEMMA SetsState ==
  ASSUME Providers, NEW u \in Types, NEW state, provider' = [provider EXCEPT ![u].state = state],
         NEW t \in Types
  PROVE  /\ provider'[t].state = IF t = u THEN state ELSE provider[t].state
         /\ provider'[t].source = provider[t].source
  <1> DEFINE source == provider[t].source
  <1>1. DOMAIN provider = Types /\ provider[t] = [state |-> provider[t].state, source |-> source]
    BY DEF Providers
  <1> HIDE DEF source
  <1>2. CASE t = u
    <2>1. provider'[t] = [provider[t] EXCEPT !.state = state]
      BY <1>1, <1>2, Zenon
    <2>2. provider'[t] = [[state |-> provider[t].state, source |-> source] EXCEPT !.state = state]
      BY <1>1, <2>1, Zenon
    <2>3. provider'[t] = [state |-> state, source |-> source]
      BY <2>2
    <2> QED
      BY <1>2, <2>3 DEF source
  <1>3. CASE t # u
    <2>1. provider'[t] = provider[t]
      BY <1>1, <1>3, Zenon
    <2> QED
      BY <1>3, <2>1
  <1> QED
    BY <1>2, <1>3

-----------------------------------------------------------------------------
(* The executions: one that still runs has a provider, whose answer waits  *)
(* for its end; and the late ones are remembered.                          *)
Jobs ==
    /\ DOMAIN abandoned = Types
    /\ \A t \in Types :
          /\ job[t] \in {"executes", "registers"} => provider[t].state \in {"loading", "gave up"}
          /\ provider[t].state = "loaded" => job[t] = "ended"
          /\ job[t] = "registers" => Enables(provider[t].source)
          /\ abandoned[t] <=> provider[t].state = "gave up"
          /\ job[t] = "registers" /\ abandoned[t] => provider[t].source.name \in late

LEMMA JobsInit == ASSUME BlockInit PROVE Jobs
  <1>1. \A t \in Types : job[t] = "none" /\ provider[t].state = "none" /\ abandoned[t] = FALSE
    BY DEF BlockInit, NoProvider, NoOne
  <1>2. DOMAIN abandoned = Types
    BY DEF BlockInit
  <1>3. \A t \in Types : ~abandoned[t]
    BY <1>1, Zenon
  <1> QED
    BY <1>1, <1>2, <1>3 DEF Jobs

LEMMA JobsStep ==
  ASSUME NEW S, Place(S), Providers, Answers, Jobs, BlockNext
  PROVE  Jobs'
  <1>0. UNCHANGED tool /\ DOMAIN provider = Types /\ DOMAIN job = Types /\ DOMAIN abandoned = Types
    BY DEF BlockNext, TooltipExecute, StartBlock, Receive, DrawNext, HitCache, GetProvider,
           TakeAnswer, Load, ExecuteJob, Register, Finish, Expire, mainVars, Providers, Jobs
  <1>1. CASE UNCHANGED <<provider, job, abandoned, late>>
    BY <1>0, <1>1 DEF Jobs, Enables
  <1>2. ASSUME NEW i \in DOMAIN segments, GetProvider(i), block > 1 PROVE Jobs'
    <2>1. UNCHANGED <<job, abandoned, late>>
      BY <1>2 DEF GetProvider, mainVars
    <2>2. ASSUME NEW t \in Types
          PROVE  \/ /\ provider'[t].state = provider[t].state
                    /\ provider'[t].source = provider[t].source
                 \/ provider[t].state = NoOne /\ provider'[t].state = "made"
      <3> DEFINE u == segments[i].type
      <3>1. CASE provider[u].state # NoOne
        BY <1>2, <3>1 DEF GetProvider
      <3>2. CASE provider[u].state = NoOne
        <4>1. provider' = [provider EXCEPT ![u] = [state |-> "made", source |-> SourceOf(u, segments)]]
          BY <1>2, <3>2 DEF GetProvider
        <4> QED
          BY <1>0, <3>2, <4>1
      <3> QED
        BY <3>1, <3>2
    <2> QED
      BY <1>0, <2>1, <2>2 DEF Jobs, Enables, NoOne
  <1>3. ASSUME NEW u \in Types, Load(u) PROVE Jobs'
    <2>1. /\ provider' = [provider EXCEPT ![u].state = "loading"]
          /\ job' = [job EXCEPT ![u] = "executes"] /\ UNCHANGED <<abandoned, late>>
          /\ provider[u].state = "made"
      BY <1>3, Zenon DEF Load
    <2>2. \A t \in Types : /\ provider'[t].state = IF t = u THEN "loading" ELSE provider[t].state
                           /\ provider'[t].source = provider[t].source
                           /\ job'[t] = IF t = u THEN "executes" ELSE job[t]
      BY <1>0, <2>1, SetsState
    <2>3. \A t \in Types : (Enables(provider[t].source))' <=> Enables(provider[t].source)
      BY <1>0, <2>2 DEF Enables
    <2>4. provider[u].state = "made" /\ abandoned' = abandoned /\ late' = late
      BY <2>1
    <2> QED
      BY <1>0, <2>2, <2>3, <2>4 DEF Jobs
  <1>4. ASSUME NEW u \in Types, ExecuteJob(u) PROVE Jobs'
    <2>1. /\ UNCHANGED <<provider, abandoned, late>> /\ job[u] = "executes"
          /\ job' = [job EXCEPT ![u] =
                        IF Enables(provider[u].source) /\ ~abandoned[u] THEN "registers" ELSE "ended"]
      BY <1>4 DEF ExecuteJob
    <2>2. \A t \in Types :
             job'[t] = IF t = u
                       THEN IF Enables(provider[u].source) /\ ~abandoned[u] THEN "registers" ELSE "ended"
                       ELSE job[t]
      BY <1>0, <2>1
    <2> QED
      BY <1>0, <2>1, <2>2 DEF Jobs, Enables
  <1>5. ASSUME NEW u \in Types, Register(u) PROVE Jobs'
    <2>1. /\ UNCHANGED <<provider, abandoned, late>> /\ job' = [job EXCEPT ![u] = "ended"]
      BY <1>5 DEF Register
    <2>2. \A t \in Types : job'[t] = IF t = u THEN "ended" ELSE job[t]
      BY <1>0, <2>1
    <2> QED
      BY <1>0, <2>1, <2>2 DEF Jobs, Enables
  <1>6. ASSUME NEW u \in Types, Finish(u) PROVE Jobs'
    <2>1. /\ provider' = [provider EXCEPT ![u].state = "loaded"] /\ job[u] = "ended"
          /\ UNCHANGED <<job, abandoned, late>> /\ provider[u].state = "loading"
      BY <1>6, Zenon DEF Finish
    <2>2. \A t \in Types : /\ provider'[t].state = IF t = u THEN "loaded" ELSE provider[t].state
                           /\ provider'[t].source = provider[t].source
      BY <2>1, SetsState
    <2>3. \A t \in Types : (Enables(provider[t].source))' <=> Enables(provider[t].source)
      BY <1>0, <2>2 DEF Enables
    <2>4. /\ provider[u].state = "loading" /\ job' = job /\ job[u] = "ended"
          /\ abandoned' = abandoned /\ late' = late
      BY <2>1
    <2> QED
      BY <1>0, <2>2, <2>3, <2>4 DEF Jobs
  <1>7. ASSUME NEW u \in Types, Expire(u) PROVE Jobs'
    <2>1. /\ provider' = [provider EXCEPT ![u].state = "gave up"] /\ UNCHANGED job
          /\ abandoned' = [abandoned EXCEPT ![u] = TRUE]
          /\ late' = IF job[u] \in {"registers", "ended"} THEN late \cup {provider[u].source.name} ELSE late
      BY <1>7, Zenon DEF Expire
    <2>2. \A t \in Types : /\ provider'[t].state = IF t = u THEN "gave up" ELSE provider[t].state
                           /\ provider'[t].source = provider[t].source
      BY <2>1, SetsState
    <2>3. DOMAIN abandoned' = Types /\ abandoned'[u]
          /\ \A t \in Types : t # u => (abandoned'[t] <=> abandoned[t])
      BY <1>0, <2>1, Zenon
    <2>4. late \subseteq late' /\ (job[u] = "registers" => provider[u].source.name \in late')
          /\ job' = job
      BY <2>1
    <2>5. \A t \in Types : (Enables(provider[t].source))' <=> Enables(provider[t].source)
      BY <1>0, <2>2 DEF Enables
    <2> QED
      BY <1>0, <2>2, <2>3, <2>4, <2>5 DEF Jobs
  <1>8. \/ UNCHANGED <<provider, job, abandoned, late>>
        \/ block > 1 /\ \E i \in DOMAIN segments : GetProvider(i)
        \/ \E u \in Types : Load(u) \/ ExecuteJob(u) \/ Register(u) \/ Finish(u) \/ Expire(u)
    BY DEF BlockNext, TooltipExecute, StartBlock, Receive, DrawNext, HitCache, Running,
           TakeAnswer, mainVars
  <1> QED
    BY <1>1, <1>2, <1>3, <1>4, <1>5, <1>6, <1>7, <1>8

-----------------------------------------------------------------------------
(* A tooltip before its workers: what was executed of it so far.           *)
Tooltips(o) ==
    /\ render.tip => asked <= Len(render.blocks[1]) + 1 /\ segments = Tips(o)[asked - 1]
    /\ block = 1 => data = {t.name : t \in {u \in ToSet(segments) : EnablesIn(o, u)}}

LEMMA NobodyListed == \A o : {t.name : t \in {u \in ToSet(<<>>) : EnablesIn(o, u)}} = {}
  BY DEF ToSet

LEMMA TooltipsInit ==
  ASSUME NEW S, RendersOf(S), BlockInit, NEW o, o.render = render
  PROVE  Tooltips(o)
  <1>1. IsRequest(render, S)
    BY DEF RendersOf, BlockInit
  <1>2. render.tip => Len(render.blocks[1]) \in Nat
    BY <1>1 DEF IsRequest
  <1>3. render.tip => Tips(o)[0] = <<>>
    BY <1>2, TipsSteps
  <1>4. asked = 1 /\ asked - 1 = 0 /\ segments = <<>> /\ data = {}
    BY DEF BlockInit
  <1>5. render.tip => asked <= Len(render.blocks[1]) + 1 /\ segments = Tips(o)[asked - 1]
    BY <1>2, <1>3, <1>4
  <1>6. data = {t.name : t \in {u \in ToSet(segments) : EnablesIn(o, u)}}
    BY <1>4, NobodyListed, Zenon
  <1> QED
    BY <1>5, <1>6 DEF Tooltips

(* Nothing runs and nothing is drawn before the first block is started.    *)
LEMMA NothingRunsYet ==
  ASSUME NEW S, Place(S), Providers, Jobs, block = 1, NEW t \in Types
  PROVE  provider[t].state = NoOne /\ job[t] \notin {"executes", "registers"}
  <1>1. ~FirstAnswers(t)
    BY DEF FirstAnswers
  <1> QED
    BY <1>1 DEF Providers, Jobs, NoOne

LEMMA TooltipsStep ==
  ASSUME NEW S, Place(S), Workers, Providers, Jobs, BlockNext, NEW o, Possible(o), Tooltips(o)
  PROVE  Tooltips(o)'
  <1>1. CASE TooltipExecute
    <2> DEFINE tips == render.blocks[1]
               tooltip == tips[asked]
    <2>1. /\ render.tip /\ block = 1 /\ block' = 1 /\ UNCHANGED <<render, tool>>
          /\ asked \in 1 .. Len(tips) /\ Len(tips) \in Nat /\ tips \in Seq(S)
      BY <1>1 DEF TooltipExecute, Place, IsRequest
    <2>2. /\ asked' = asked + 1
          /\ segments' = IF IsDrawn(tooltip) THEN Append(segments, tooltip) ELSE segments
          /\ data' = IF Enables(tooltip) THEN data \cup {tooltip.name} ELSE data
      BY <1>1 DEF TooltipExecute
    <2>3. o.render = render /\ o.tool = tool
      BY DEF Possible
    <2> HIDE DEF tips, tooltip
    <2>4. (EnablesIn(o, tooltip) <=> Enables(tooltip))
          /\ (EnablesIn(o, tooltip) \/ (o.render.again /\ ~tooltip.allowed) <=> IsDrawn(tooltip))
      BY <2>3 DEF EnablesIn, Enables, IsDrawn, StaysEnabled
    <2>5. Tips(o)[asked] = IF IsDrawn(tooltip) THEN Append(Tips(o)[asked - 1], tooltip)
                           ELSE Tips(o)[asked - 1]
      BY <2>1, <2>3, <2>4, TipsSteps DEF tips, tooltip
    <2>6. segments = Tips(o)[asked - 1]
      BY <2>1 DEF Tooltips
    <2>7. segments' = Tips(o)[asked' - 1] /\ asked' <= Len(tips) + 1
      BY <2>1, <2>2, <2>5, <2>6
    <2>8. data' = {t.name : t \in {u \in ToSet(segments') : EnablesIn(o, u)}}
      <3>1. data = {t.name : t \in {u \in ToSet(segments) : EnablesIn(o, u)}}
        BY <2>1 DEF Tooltips
      <3>2. IsDrawn(tooltip) => ToSet(segments') = ToSet(segments) \cup {tooltip}
        <4> SUFFICES ASSUME IsDrawn(tooltip) PROVE ToSet(segments') = ToSet(segments) \cup {tooltip}
          OBVIOUS
        <4>1. segments \in Seq(S) /\ segments' = Append(segments, tooltip) /\ tooltip \in S
          BY <2>1, <2>2 DEF Place, tooltip
        <4> QED
          BY <4>1 DEF ToSet
      <3>3. Enables(tooltip) => IsDrawn(tooltip)
        BY DEF IsDrawn
      <3>4. CASE ~IsDrawn(tooltip)
        BY <2>2, <3>1, <3>3, <3>4
      <3>5. CASE IsDrawn(tooltip)
        BY <2>2, <2>4, <3>1, <3>2, <3>5
      <3> QED
        BY <3>4, <3>5
    <2> QED
      BY <2>1, <2>7, <2>8 DEF Tooltips, tips
  <1>2. CASE StartBlock
    <2>1. block' # 1 /\ UNCHANGED <<render, asked>> /\ (render.tip => UNCHANGED segments)
      BY <1>2 DEF StartBlock, Place, IsRequest
    <2> QED
      BY <2>1 DEF Tooltips
  <1>3. CASE ~TooltipExecute /\ ~StartBlock
    <2>1. UNCHANGED <<render, asked, segments, block>>
      BY <1>3 DEF BlockNext, Receive, DrawNext, HitCache, GetProvider, TakeAnswer,
             Load, ExecuteJob, Register, Finish, Expire, mainVars
    <2>2. block = 1 => UNCHANGED data
      <3>1. UNCHANGED data \/ DrawNext \/ \E t \in Types : Register(t)
        BY <1>3 DEF BlockNext, Receive, HitCache, GetProvider, TakeAnswer,
               Load, ExecuteJob, Finish, Expire, mainVars
      <3>2. DrawNext => block > 1
        BY DrawsTheNext
      <3>3. ASSUME NEW t \in Types, Register(t), block = 1 PROVE FALSE
        BY <3>3, NothingRunsYet DEF Register
      <3> QED
        BY <3>1, <3>2, <3>3
    <2> QED
      BY <2>1, <2>2 DEF Tooltips
  <1> QED
    BY <1>1, <1>2, <1>3

-----------------------------------------------------------------------------
(* The blocks that are drawn are the blocks of the outcome.                *)
LEMMA OutcomeBlocks ==
  ASSUME NEW S, Place(S), NEW o, Possible(o), Tooltips(o)
  PROVE  /\ Len(Blocks(o)) = Len(render.blocks) /\ Len(render.blocks) \in Nat
         /\ DOMAIN Blocks(o) = 1 .. Len(Blocks(o))
         /\ \A b \in 1 .. (block - 1) : Blocks(o)[b] = BlockAt(b) /\ b \in DOMAIN Blocks(o)
  <1>1. o.render = render /\ IsRequest(render, S) /\ block \in 1 .. (Len(render.blocks) + 1)
    BY DEF Possible, Place
  <1>2. CASE ~render.tip
    <2>1. Blocks(o) = render.blocks
      BY <1>1, <1>2 DEF Blocks
    <2> QED
      BY <1>1, <1>2, <2>1 DEF IsRequest, BlockAt
  <1>3. CASE render.tip
    <2> DEFINE tips == Tips(o)[Len(render.blocks[1])]
    <2>1. Blocks(o) = <<tips>> /\ Len(render.blocks) = 1
      BY <1>1, <1>3 DEF Blocks, IsRequest
    <2>2. block > 1 => segments = tips
      <3>1. Len(render.blocks[1]) \in Nat
        BY <1>1, <2>1 DEF IsRequest
      <3>2. block > 1 => asked - 1 = Len(render.blocks[1])
        BY <1>3, <3>1 DEF Place, Tooltips
      <3> QED
        BY <1>3, <3>2 DEF Tooltips
    <2> HIDE DEF tips
    <2>3. Len(Blocks(o)) = 1 /\ DOMAIN Blocks(o) = 1 .. 1 /\ Blocks(o)[1] = tips
      BY <2>1
    <2> QED
      BY <1>1, <1>3, <2>1, <2>2, <2>3 DEF BlockAt
  <1> QED
    BY <1>2, <1>3

LEMMA AskedAsks ==
  ASSUME NEW S, Place(S), NEW o, Possible(o), Tooltips(o), NEW c \in 1 .. (block - 1), NEW t
  PROVE  t \in Asked(o, c, DOMAIN Blocks(o)[c]) <=> Asks(c, t)
  BY OutcomeBlocks DEF Asked, Asks

(* The source of a type is the first of the type in the first block that   *)
(* asks for it.                                                            *)
LEMMA FirstAsked ==
  ASSUME NEW o, Len(Blocks(o)) \in Nat, DOMAIN Blocks(o) = 1 .. Len(Blocks(o)),
         NEW c \in DOMAIN Blocks(o), NEW t, t \in Asked(o, c, DOMAIN Blocks(o)[c]),
         \A d \in 1 .. (c - 1) : t \notin Asked(o, d, DOMAIN Blocks(o)[d])
  PROVE  Source(o, t) = SourceOf(t, Blocks(o)[c])
  <1> DEFINE asking == {b \in DOMAIN Blocks(o) : t \in Asked(o, b, DOMAIN Blocks(o)[b])}
  <1>1. c \in asking /\ \A b \in asking : c <= b
    OBVIOUS
  <1>2. \A b \in asking : b \in Nat
    OBVIOUS
  <1>3. Source(o, t) = SourceOf(t, Blocks(o)[Min(asking)])
    BY DEF Source
  <1> HIDE DEF asking
  <1>4. Min(asking) = c
    BY <1>1, <1>2 DEF Min
  <1> QED
    BY <1>3, <1>4

LEMMA ProviderSource ==
  ASSUME NEW S, Place(S), Providers, NEW o, Possible(o), Tooltips(o), NEW t \in Types,
         provider[t].state # NoOne
  PROVE  provider[t].source = Source(o, t)
  <1>1. PICK c \in 1 .. (block - 1) :
                /\ provider[t].source = SourceOf(t, BlockAt(c))
                /\ Asks(c, t) /\ \A d \in 1 .. (c - 1) : ~Asks(d, t)
    BY DEF Providers, FirstAnswers
  <1>2. /\ Len(Blocks(o)) \in Nat /\ DOMAIN Blocks(o) = 1 .. Len(Blocks(o))
        /\ c \in DOMAIN Blocks(o) /\ Blocks(o)[c] = BlockAt(c)
    BY OutcomeBlocks
  <1>3. block \in Nat
    BY DEF Place, IsRequest
  <1>4. \A d \in 1 .. (c - 1) : d \in 1 .. (block - 1)
    BY <1>3
  <1>5. t \in Asked(o, c, DOMAIN Blocks(o)[c])
    BY <1>1, AskedAsks
  <1>6. \A d \in 1 .. (c - 1) : t \notin Asked(o, d, DOMAIN Blocks(o)[d])
    BY <1>1, <1>4, AskedAsks
  <1>7. Source(o, t) = SourceOf(t, Blocks(o)[c])
    BY <1>2, <1>5, <1>6, FirstAsked
  <1> QED
    BY <1>1, <1>2, <1>7

-----------------------------------------------------------------------------
(* Who asks first from a position on.                                      *)
LEMMA AskedShrinks ==
  ASSUME NEW o, NEW b, NEW i \in Nat, Len(Blocks(o)[b]) \in Nat
  PROVE  AskedFrom(o, b, i + 1) \subseteq AskedFrom(o, b, i)
  <1>1. 1 .. (i - 1) \subseteq 1 .. ((i + 1) - 1)
    OBVIOUS
  <1>2. (i + 1) .. Len(Blocks(o)[b]) \subseteq i .. Len(Blocks(o)[b])
    OBVIOUS
  <1> QED
    BY <1>1, <1>2 DEF AskedFrom, AskedBefore, Asked

LEMMA AskedEnds ==
  ASSUME NEW o, NEW b, NEW i, Len(Blocks(o)[b]) \in Nat, i = Len(Blocks(o)[b]) + 1
  PROVE  AskedFrom(o, b, i) = {} /\ Executing(o, b, i) = {}
  <1>1. i .. Len(Blocks(o)[b]) = {}
    OBVIOUS
  <1>2. Asked(o, b, i .. Len(Blocks(o)[b])) = {}
    BY <1>1 DEF Asked
  <1> QED
    BY <1>2 DEF AskedFrom, Executing

LEMMA AskedWithin ==
  ASSUME NEW o, NEW b, NEW i \in Nat \ {0}, Len(Blocks(o)[b]) \in Nat
  PROVE  AskedFrom(o, b, i) \subseteq AskedFrom(o, b, 1)
  <1>1. 1 .. (1 - 1) \subseteq 1 .. (i - 1)
    OBVIOUS
  <1>2. i .. Len(Blocks(o)[b]) \subseteq 1 .. Len(Blocks(o)[b])
    OBVIOUS
  <1> QED
    BY <1>1, <1>2 DEF AskedFrom, AskedBefore, Asked

(* An execution that a worker waits for was asked for in the block that is *)
(* drawn, by none that was drawn.                                          *)
LEMMA LoadingIsAwaited ==
  ASSUME NEW S, RendersOf(S), BlockInv(S), NEW o, Possible(o), Tooltips(o), NEW t \in Types,
         provider[t].state = "loading"
  PROVE  block > 1 /\ t \in AskedFrom(o, block - 1, current)
  <1> USE DEF BlockInv
  <1>1. PICK c \in 1 .. (block - 1) : Asks(c, t) /\ \A d \in 1 .. (c - 1) : ~Asks(d, t)
    BY DEF Providers, FirstAnswers, NoOne
  <1>2. ASSUME NEW d, NEW i, IsPast(d, i), BlockAt(d)[i].type = t, ~BlockAt(d)[i].cached
        PROVE  FALSE
    <2>1. Answered(BlockAt(d)[i])
      BY <1>2 DEF Past, IsPast
    <2> QED
      BY <1>2, <2>1 DEF Answered
  <1>3. block \in Nat /\ current \in Nat /\ \A d \in 1 .. (c - 1) : d \in 1 .. (block - 1)
    BY DEF Place, IsRequest
  <1>4. PICK i \in DOMAIN BlockAt(c) : BlockAt(c)[i].type = t /\ ~BlockAt(c)[i].cached
    BY <1>1 DEF Asks
  <1>5. c = block - 1 /\ ~(i < current)
    BY <1>2, <1>4 DEF IsPast
  <1>6. Blocks(o)[c] = BlockAt(c) /\ BlockAt(c) = segments /\ segments \in Seq(S)
        /\ current \in 1 .. (Len(segments) + 1)
    <2>1. Blocks(o)[c] = BlockAt(c)
      BY OutcomeBlocks
    <2>2. BlockAt(c) = segments
      BY <1>3, <1>5 DEF BlockAt, Place
    <2> QED
      BY <2>1, <2>2 DEF Place
  <1>7. i \in current .. Len(Blocks(o)[c]) /\ DOMAIN Blocks(o)[c] = 1 .. Len(Blocks(o)[c])
    BY <1>3, <1>4, <1>5, <1>6
  <1>8. t \in Asked(o, c, current .. Len(Blocks(o)[c]))
    BY <1>4, <1>6, <1>7 DEF Asked
  <1>9. t \notin Asked(o, c, 1 .. (current - 1))
    <2> SUFFICES ASSUME NEW j \in 1 .. (current - 1), ~BlockAt(c)[j].cached, BlockAt(c)[j].type = t
                 PROVE  FALSE
      BY <1>6 DEF Asked
    <2>1. IsPast(c, j)
      BY <1>6 DEF IsPast
    <2> QED
      BY <1>2, <2>1
  <1>10. \A d \in 1 .. (c - 1) : t \notin Asked(o, d, DOMAIN Blocks(o)[d])
    BY <1>1, <1>3, AskedAsks
  <1> QED
    BY <1>3, <1>5, <1>8, <1>9, <1>10 DEF AskedFrom, AskedBefore

(* What is drawn next has its answer, and so has every type that nobody    *)
(* after it asks for first.                                                *)
LEMMA AskedIsSettled ==
  ASSUME NEW S, RendersOf(S), BlockInv(S), DrawNext, NEW o, Possible(o), Tooltips(o),
         NEW t \in AskedFrom(o, block - 1, 1), t \notin AskedFrom(o, block - 1, current + 1)
  PROVE  t \in Types /\ provider[t].state \in Answering
  <1> USE DEF BlockInv
  <1> DEFINE b == block - 1
  <1>1. /\ block > 1 /\ current \in DOMAIN segments /\ at[current] = "sent"
        /\ current \in Nat /\ block \in Nat /\ b \in 1 .. (block - 1)
    BY DrawsTheNext DEF Place, IsRequest
  <1>2. Blocks(o)[b] = segments /\ BlockAt(b) = segments /\ segments \in Seq(S)
    <2>1. BlockAt(b) = segments
      BY <1>1 DEF BlockAt, Place
    <2> QED
      BY <1>1, <2>1, OutcomeBlocks DEF Place
  <1> DEFINE last == Len(segments)
             Asker(j) == j \in DOMAIN segments /\ segments[j].type = t /\ ~segments[j].cached
  <1>3. /\ t \in Asked(o, b, 1 .. last)
        /\ \A c \in 1 .. (b - 1) : t \notin Asked(o, c, DOMAIN Blocks(o)[c])
    BY <1>2 DEF AskedFrom, AskedBefore
  <1>4. t \notin Asked(o, b, (current + 1) .. last) \/ t \in Asked(o, b, 1 .. current)
    <2>1. 1 .. ((current + 1) - 1) = 1 .. current
      BY <1>1
    <2> QED
      BY <1>2, <1>3, <2>1 DEF AskedFrom, AskedBefore
  <1>5. PICK j \in 1 .. current : Asker(j)
    <2>1. \A i \in 1 .. last : i \in 1 .. current \/ i \in (current + 1) .. last
      BY <1>1, <1>2
    <2>2. 1 .. current \subseteq DOMAIN segments /\ 1 .. last = DOMAIN segments
      BY <1>1, <1>2
    <2> QED
      BY <1>2, <1>3, <1>4, <2>1, <2>2 DEF Asked
  <1>6. t \in Types
    BY <1>2, <1>5 DEF RendersOf
  <1>7. Answered(segments[j])
    <2>1. CASE j = current
      BY <1>1, <2>1 DEF Answers
    <2>2. CASE j # current
      <3>1. IsPast(b, j)
        BY <1>1, <1>2, <1>5, <2>2 DEF IsPast
      <3> QED
        BY <1>1, <1>2, <1>5, <3>1 DEF Past
    <2> QED
      BY <2>1, <2>2
  <1> QED
    BY <1>5, <1>6, <1>7 DEF Answered, Answering

-----------------------------------------------------------------------------
(* What templates see agrees with the outcome.  While an execution that    *)
(* segment i or a later one asked for may still run, the data of its       *)
(* segment is there as soon as it registered; the reference has it at once.*)
RegisteredNow(o, t) ==
    /\ EnablesIn(o, Source(o, t))
    /\ job[t] = "ended" /\ provider[t].state \in {"loading", "loaded"}

HasRegistered(o, b, n) ==
    \E t \in AskedFrom(o, b, 1) \cap Types : Source(o, t).name = n /\ RegisteredNow(o, t)

SeesRight(o, b, i, begin, acc, n) ==
    IF n \in Executing(o, b, i)
    THEN /\ n \in Visible(o, acc, b, i) <=> n \in begin.data \cup Registered(o, b)
         /\ n \in data <=> n \in begin.data \/ HasRegistered(o, b, n)
    ELSE n \in data <=> n \in Visible(o, acc, b, i)

(* And so does what is shown, where it does not depend on the order.       *)
Agrees(o, b, i, begin, acc) ==
    /\ o.late \subseteq acc.doubts
    /\ \A n : n \notin acc.doubts => SeesRight(o, b, i, begin, acc, n)
    /\ \A p \in acc.open \cup acc.shown : \E c, j : p = <<c, j>> /\ IsPast(c, j)
    /\ \A c, j : IsPast(c, j) /\ <<c, j>> \notin acc.open => (Shows(c, j) <=> <<c, j>> \in acc.shown)

Follows(o) ==
    block > 1 => LET b == block - 1
                     begin == InOrder(o)[b - 1]
                 IN  Agrees(o, b, current, begin, Upto(o, b, begin)[current - 1])

-----------------------------------------------------------------------------
(* A step that draws nothing.                                              *)
LEMMA QuietStep ==
  ASSUME NEW S, Place(S), BlockNext, UNCHANGED <<block, current, shown>>,
         NEW o, NEW b, NEW i, NEW begin, NEW acc, Agrees(o, b, i, begin, acc),
         \A n : n \notin acc.doubts => SeesRight(o, b, i, begin, acc, n)'
  PROVE  Agrees(o, b, i, begin, acc)'
  <1>1. \A c \in 1..(block - 1) : BlockAt(c)' = BlockAt(c)
    BY BlocksStand
  <1>2. \A c, j : (IsPast(c, j)' <=> IsPast(c, j)) /\ (Shows(c, j)' <=> Shows(c, j))
    BY <1>1 DEF IsPast, Shows
  <1> QED
    BY <1>2 DEF Agrees

(* The execution of a type registers by Register, and never takes it back, *)
(* unless it is abandoned when it has ended.                               *)
LEMMA RegisteredStays ==
  ASSUME NEW S, Place(S), Providers, Answers, Jobs, BlockNext,
         NEW o, Possible(o), Possible(o)', Tooltips(o),
         NEW t \in Types, ~Register(t), Source(o, t).name \notin o.late
  PROVE  RegisteredNow(o, t)' <=> RegisteredNow(o, t)
  <1>0. DOMAIN provider = Types /\ DOMAIN job = Types /\ o.tool = tool /\ late' \subseteq o.late
    BY DEF Providers, Possible
  <1>1. CASE provider'[t].state = provider[t].state /\ job'[t] = job[t]
    BY <1>1 DEF RegisteredNow
  <1>2. ASSUME NEW i \in DOMAIN segments, GetProvider(i)
        PROVE  RegisteredNow(o, t)' <=> RegisteredNow(o, t)
    <2>1. UNCHANGED job
      BY <1>2 DEF GetProvider, mainVars
    <2> DEFINE u == segments[i].type
    <2>2. CASE provider[u].state # NoOne
      <3>1. provider' = provider
        BY <1>2, <2>2 DEF GetProvider
      <3> QED
        BY <1>1, <2>1, <3>1
    <2>3. CASE provider[u].state = NoOne
      <3>1. provider' = [provider EXCEPT ![u] = [state |-> "made", source |-> SourceOf(u, segments)]]
        BY <1>2, <2>3 DEF GetProvider
      <3>2. CASE t = u
        <4>1. provider'[t].state = "made" /\ provider[t].state = "none"
          BY <1>0, <2>3, <3>1, <3>2 DEF NoOne
        <4> QED
          BY <4>1 DEF RegisteredNow
      <3>3. CASE t # u
        <4>1. provider'[t] = provider[t]
          BY <1>0, <3>1, <3>3
        <4> QED
          BY <1>1, <2>1, <4>1
      <3> QED
        BY <3>2, <3>3
    <2> QED
      BY <2>2, <2>3
  <1>3. ASSUME NEW u \in Types, Load(u)
        PROVE  RegisteredNow(o, t)' <=> RegisteredNow(o, t)
    <2>1. /\ provider' = [provider EXCEPT ![u].state = "loading"]
          /\ job' = [job EXCEPT ![u] = "executes"] /\ provider[u].state = "made"
      BY <1>3, Zenon DEF Load
    <2>2. /\ provider'[t].state = IF t = u THEN "loading" ELSE provider[t].state
          /\ job'[t] = IF t = u THEN "executes" ELSE job[t]
      BY <1>0, <2>1, SetsState
    <2>3. provider[u].state = "made"
      BY <2>1
    <2> QED
      BY <2>2, <2>3 DEF RegisteredNow
  <1>4. ASSUME NEW u \in Types, ExecuteJob(u)
        PROVE  RegisteredNow(o, t)' <=> RegisteredNow(o, t)
    <2>1. /\ UNCHANGED provider /\ job[u] = "executes"
          /\ job' = [job EXCEPT ![u] =
                        IF Enables(provider[u].source) /\ ~abandoned[u] THEN "registers" ELSE "ended"]
      BY <1>4 DEF ExecuteJob
    <2>2. job'[t] = IF t = u
                    THEN IF Enables(provider[u].source) /\ ~abandoned[u] THEN "registers" ELSE "ended"
                    ELSE job[t]
      BY <1>0, <2>1
    <2>3. CASE t # u
      BY <1>1, <2>1, <2>2, <2>3
    <2>4. CASE t = u
      <3>1. provider[t].state \in {"loading", "gave up"}
        BY <2>1, <2>4 DEF Jobs
      <3>2. provider[t].source = Source(o, t)
        BY <3>1, ProviderSource DEF NoOne
      <3>3. Enables(provider[t].source) <=> EnablesIn(o, Source(o, t))
        BY <1>0, <3>2 DEF Enables, EnablesIn
      <3>4. abandoned[t] <=> provider[t].state = "gave up"
        BY DEF Jobs
      <3>5. ~RegisteredNow(o, t)
        BY <2>1, <2>4 DEF RegisteredNow
      <3>6. job'[t] = "ended" => ~Enables(provider[t].source) \/ abandoned[t]
        BY <2>2, <2>4, Zenon
      <3>7. provider' = provider
        BY <2>1
      <3> QED
        BY <3>3, <3>4, <3>5, <3>6, <3>7 DEF RegisteredNow
    <2> QED
      BY <2>3, <2>4
  <1>5. ASSUME NEW u \in Types, Register(u)
        PROVE  RegisteredNow(o, t)' <=> RegisteredNow(o, t)
    <2>1. UNCHANGED provider /\ job' = [job EXCEPT ![u] = "ended"] /\ t # u
      BY <1>5 DEF Register
    <2>2. job'[t] = job[t]
      BY <1>0, <2>1
    <2> QED
      BY <1>1, <2>1, <2>2
  <1>6. ASSUME NEW u \in Types, Finish(u)
        PROVE  RegisteredNow(o, t)' <=> RegisteredNow(o, t)
    <2>1. /\ provider' = [provider EXCEPT ![u].state = "loaded"]
          /\ UNCHANGED job /\ provider[u].state = "loading"
      BY <1>6, Zenon DEF Finish
    <2>2. /\ provider'[t].state = IF t = u THEN "loaded" ELSE provider[t].state
          /\ provider'[t].source = provider[t].source
      BY <2>1, SetsState
    <2>3. job' = job /\ provider[u].state = "loading"
      BY <2>1
    <2> QED
      BY <2>2, <2>3 DEF RegisteredNow
  <1>7. ASSUME NEW u \in Types, Expire(u)
        PROVE  RegisteredNow(o, t)' <=> RegisteredNow(o, t)
    <2>1. /\ provider' = [provider EXCEPT ![u].state = "gave up"]
          /\ UNCHANGED job /\ provider[u].state = "loading"
          /\ late' = IF job[u] \in {"registers", "ended"} THEN late \cup {provider[u].source.name} ELSE late
      BY <1>7, Zenon DEF Expire
    <2>2. /\ provider'[t].state = IF t = u THEN "gave up" ELSE provider[t].state
          /\ provider'[t].source = provider[t].source
      BY <2>1, SetsState
    <2>3. job' = job /\ provider[u].state = "loading"
      BY <2>1
    <2>4. CASE t # u
      BY <1>1, <2>2, <2>3, <2>4
    <2>5. CASE t = u
      <3>1. provider[t].source = Source(o, t)
        BY <2>3, <2>5, ProviderSource DEF NoOne
      <3>2. job[t] # "ended"
        BY <1>0, <2>1, <2>5, <3>1
      <3> QED
        BY <2>3, <3>2 DEF RegisteredNow
    <2> QED
      BY <2>4, <2>5
  <1>8. \/ UNCHANGED <<provider, job>>
        \/ \E i \in DOMAIN segments : GetProvider(i)
        \/ \E u \in Types : Load(u) \/ ExecuteJob(u) \/ Register(u) \/ Finish(u) \/ Expire(u)
    BY DEF BlockNext, TooltipExecute, StartBlock, Receive, DrawNext, HitCache,
           TakeAnswer, mainVars
  <1>9. CASE UNCHANGED <<provider, job>>
    BY <1>1, <1>9
  <1> QED
    BY <1>2, <1>3, <1>4, <1>5, <1>6, <1>7, <1>8, <1>9

LEMMA HasRegisteredStays ==
  ASSUME NEW S, Place(S), Providers, Answers, Jobs, BlockNext,
         NEW o, Possible(o), Possible(o)', Tooltips(o), NEW b, NEW n, n \notin o.late,
         \A t \in Types : Register(t) => Source(o, t).name # n
  PROVE  HasRegistered(o, b, n)' <=> HasRegistered(o, b, n)
  <1>1. ASSUME NEW t \in AskedFrom(o, b, 1) \cap Types, Source(o, t).name = n
        PROVE  RegisteredNow(o, t)' <=> RegisteredNow(o, t)
    <2>1. t \in Types /\ ~Register(t) /\ Source(o, t).name \notin o.late
      BY <1>1
    <2> QED
      BY <2>1, RegisteredStays
  <1> QED
    BY <1>1 DEF HasRegistered

(* A worker's or an execution's step.                                      *)
LEMMA SeesStill ==
  ASSUME NEW S, RendersOf(S), BlockInv(S), Jobs, BlockNext, block > 1, ~StartBlock, ~DrawNext,
         NEW o, Possible(o), Possible(o)', Tooltips(o),
         NEW b, NEW i, NEW begin, NEW acc, b = block - 1, i = current, Agrees(o, b, i, begin, acc),
         NEW n, n \notin acc.doubts
  PROVE  SeesRight(o, b, i, begin, acc, n)'
  <1> USE DEF BlockInv
  <1>1. SeesRight(o, b, i, begin, acc, n) /\ n \notin o.late /\ late \subseteq o.late
    BY DEF Agrees, Possible
  <1>2. ASSUME NEW t \in Types, Register(t), Source(o, t).name = n
        PROVE  SeesRight(o, b, i, begin, acc, n)'
    <2>1. /\ job[t] = "registers" /\ job' = [job EXCEPT ![t] = "ended"]
          /\ data' = data \cup {provider[t].source.name} /\ UNCHANGED provider
      BY <1>2 DEF Register
    <2>2. provider[t].state \in {"loading", "gave up"} /\ Enables(provider[t].source)
      BY <2>1 DEF Jobs
    <2>3. provider[t].source = Source(o, t)
      BY <2>2, ProviderSource DEF NoOne
    <2>4. provider[t].state = "loading"
      BY <1>1, <1>2, <2>1, <2>2, <2>3 DEF Jobs
    <2>5. t \in AskedFrom(o, b, i)
      BY <2>4, LoadingIsAwaited
    <2>6. t \in AskedFrom(o, b, 1)
      <3>1. i \in Nat \ {0} /\ Len(Blocks(o)[b]) \in Nat
        <4>1. Blocks(o)[b] = segments
          BY BlocksStand, OutcomeBlocks
        <4> QED
          BY <4>1 DEF Place
      <3> QED
        BY <2>5, <3>1, AskedWithin
    <2>7. n \in Executing(o, b, i)
      BY <1>2, <2>5 DEF Executing
    <2>8. RegisteredNow(o, t)'
      <3>1. EnablesIn(o, Source(o, t))
        BY <2>2, <2>3 DEF Enables, EnablesIn, Possible
      <3>2. job'[t] = "ended" /\ provider'[t].state = "loading"
        BY <2>1, <2>4 DEF Providers
      <3> QED
        BY <3>1, <3>2 DEF RegisteredNow
    <2>9. HasRegistered(o, b, n)'
      BY <1>2, <2>6, <2>8 DEF HasRegistered
    <2>10. n \in data'
      BY <1>2, <2>1, <2>3
    <2> QED
      BY <1>1, <2>7, <2>9, <2>10 DEF SeesRight
  <1>3. ASSUME \A t \in Types : Register(t) => Source(o, t).name # n
        PROVE  SeesRight(o, b, i, begin, acc, n)'
    <2>1. HasRegistered(o, b, n)' <=> HasRegistered(o, b, n)
      BY <1>1, <1>3, HasRegisteredStays
    <2>2. n \in data' <=> n \in data
      <3>1. CASE UNCHANGED data
        BY <3>1
      <3>2. ASSUME NEW t \in Types, Register(t) PROVE n \in data' <=> n \in data
        <4>1. job[t] = "registers" /\ data' = data \cup {provider[t].source.name}
          BY <3>2 DEF Register
        <4>2. provider[t].state \in {"loading", "gave up"}
          BY <4>1 DEF Jobs
        <4>3. provider[t].source = Source(o, t)
          BY <4>2, ProviderSource DEF NoOne
        <4> QED
          BY <1>3, <3>2, <4>1, <4>3
      <3>3. UNCHANGED data \/ \E t \in Types : Register(t)
        <4>1. ~TooltipExecute
          BY DEF TooltipExecute, Place, IsRequest
        <4> QED
          BY <4>1 DEF BlockNext, Receive, HitCache, GetProvider, TakeAnswer, Load, ExecuteJob,
                      Finish, Expire, mainVars
      <3> QED
        BY <3>1, <3>2, <3>3
    <2> QED
      BY <1>1, <2>1, <2>2 DEF SeesRight
  <1> QED
    BY <1>2, <1>3

LEMMA WorkFollows ==
  ASSUME NEW S, RendersOf(S), BlockInv(S), Jobs, BlockNext, ~StartBlock, ~DrawNext,
         NEW o, Possible(o), Possible(o)', Tooltips(o), Follows(o)
  PROVE  Follows(o)'
  <1>1. UNCHANGED <<block, current, shown>>
    BY DEF BlockNext, TooltipExecute, Receive, HitCache, GetProvider, TakeAnswer, Load, ExecuteJob,
           Register, Finish, Expire, mainVars
  <1>2. SUFFICES ASSUME block > 1 PROVE Follows(o)'
    BY <1>1 DEF Follows
  <1>3. PICK b, i : b = block - 1 /\ i = current
    OBVIOUS
  <1> DEFINE begin == InOrder(o)[b - 1]
             acc == Upto(o, b, begin)[i - 1]
  <1>4. Agrees(o, b, i, begin, acc)
    BY <1>2, <1>3 DEF Follows
  <1> HIDE DEF acc, begin
  <1>5. \A n : n \notin acc.doubts => SeesRight(o, b, i, begin, acc, n)'
    BY <1>2, <1>3, <1>4, SeesStill
  <1>6. Agrees(o, b, i, begin, acc)'
    BY <1>1, <1>4, <1>5, QuietStep DEF BlockInv
  <1> QED
    BY <1>1, <1>3, <1>6 DEF Follows, begin, acc

-----------------------------------------------------------------------------
(* What a segment that has its answer does with it.                        *)
LEMMA AnswerIsKnown ==
  ASSUME NEW S, Place(S), Providers, NEW o, Possible(o), Tooltips(o),
         NEW segment, segment.type \in Types, Answered(segment)
  PROVE  /\ Answer(o, segment).enabled <=> Enabled0(segment)
         /\ Answer(o, segment).filled <=> HasData(segment)
  <1>1. o.render = render /\ o.tool = tool
    BY DEF Possible
  <1>2. CASE segment.cached
    BY <1>2 DEF Answer, Enabled0, HasData
  <1>3. CASE ~segment.cached
    <2> DEFINE t == segment.type
    <2>1. provider[t].state \in {"loaded", "gave up"}
      BY <1>3 DEF Answered
    <2>2. provider[t].source = Source(o, t)
      BY <2>1, ProviderSource DEF NoOne
    <2>3. t \in o.loaded <=> provider[t].state = "loaded"
      BY <2>1 DEF Possible
    <2>4. EnablesIn(o, Source(o, t)) <=> Enables(provider[t].source)
      BY <1>1, <2>2 DEF Enables, EnablesIn
    <2> QED
      BY <1>1, <1>3, <2>3, <2>4 DEF Answer, Enabled0, HasData
  <1> QED
    BY <1>2, <1>3

(* A text shows alike where its segment and all it refers to are seen      *)
(* alike; and it changes nothing but what is seen of its own segment.      *)
LEMMA ShowsAlike ==
  ASSUME NEW force, NEW segment, NEW e1, NEW e2, NEW f1, NEW f2, NEW v1, NEW v2,
         e1 <=> e2, f1 <=> f2,
         segment.text = "refers" => \A n \in segment.refs : n \in v1 <=> n \in v2
  PROVE  DrawnWhen(force, segment, e1, f1, v1).shows <=> DrawnWhen(force, segment, e2, f2, v2).shows
  <1>1. HasText(segment, f1, v1) <=> HasText(segment, f2, v2)
    BY DEF HasText
  <1> QED
    BY <1>1 DEF DrawnWhen

LEMMA SeesAlike ==
  ASSUME NEW force, NEW segment, NEW e1, NEW e2, NEW f1, NEW f2, NEW v1, NEW v2, e1 <=> e2,
         NEW n, n \in v1 <=> n \in v2,
         \/ n # segment.name
         \/ DrawnWhen(force, segment, e1, f1, v1).shows <=> DrawnWhen(force, segment, e2, f2, v2).shows
  PROVE  n \in DrawnWhen(force, segment, e1, f1, v1).data
           <=> n \in DrawnWhen(force, segment, e2, f2, v2).data
  BY DEF DrawnWhen

LEMMA OthersStay ==
  ASSUME NEW force, NEW segment, NEW e, NEW f, NEW v, NEW n, n # segment.name
  PROVE  n \in DrawnWhen(force, segment, e, f, v).data <=> n \in v
  BY DEF DrawnWhen

-----------------------------------------------------------------------------
(* The next segment is drawn.                                              *)
LEMMA NowDrawn ==
  ASSUME NEW S, RendersOf(S), BlockInv(S), DrawNext, NEW o, Possible(o), Tooltips(o),
         NEW b, NEW i, b = block - 1, i = current
  PROVE  /\ Blocks(o)[b] = segments /\ Len(Blocks(o)[b]) \in Nat /\ b \in Nat \ {0}
         /\ i \in 1..Len(Blocks(o)[b]) /\ i \in Nat \ {0} /\ segments[i].type \in Types
         /\ Answered(segments[i]) /\ (on[i] <=> Enabled0(segments[i]))
         /\ (filled[i] <=> HasData(segments[i]))
  <1>1. block > 1 /\ i \in DOMAIN segments /\ at[i] = "sent" /\ b \in Nat /\ i \in Nat
    BY DrawsTheNext DEF BlockInv
  <1>2. Blocks(o)[b] = segments /\ segments \in Seq(S) /\ b # 0
    <2>1. BlockAt(b) = segments /\ b \in 1..(block - 1)
      BY <1>1 DEF BlockAt, BlockInv, Place, IsRequest
    <2> QED
      BY <2>1, OutcomeBlocks DEF BlockInv, Place
  <1> QED
    BY <1>1, <1>2 DEF BlockInv, Answers, RendersOf

(* What is seen of the segments that nothing executes for any more.        *)
LEMMA SettledIsSeen ==
  ASSUME NEW S, RendersOf(S), BlockInv(S), Jobs, DrawNext, NEW o, Possible(o), Tooltips(o),
         NEW b, NEW i, NEW begin, NEW acc, b = block - 1, i = current,
         NEW n, SeesRight(o, b, i, begin, acc, n), n \notin Executing(o, b, i + 1)
  PROVE  n \in data <=> n \in Visible(o, acc, b, i)
  <1>1. CASE n \notin Executing(o, b, i)
    BY <1>1 DEF SeesRight
  <1>2. CASE n \in Executing(o, b, i)
    <2>1. ASSUME NEW t \in AskedFrom(o, b, 1), Source(o, t).name = n
          PROVE  t \in Types /\ (RegisteredNow(o, t) <=> t \in o.loaded /\ EnablesIn(o, Source(o, t)))
      <3>1. t \notin AskedFrom(o, b, i + 1)
        BY <2>1 DEF Executing
      <3>2. t \in Types /\ provider[t].state \in {"loaded", "gave up"}
        BY <3>1, AskedIsSettled DEF Answering
      <3>3. t \in o.loaded <=> provider[t].state = "loaded"
        BY <3>2 DEF Possible
      <3>4. provider[t].state = "loaded" => job[t] = "ended"
        BY <3>2 DEF Jobs
      <3> QED
        BY <3>2, <3>3, <3>4 DEF RegisteredNow
    <2>2. HasRegistered(o, b, n) <=> n \in Registered(o, b)
      BY <2>1 DEF HasRegistered, Registered
    <2> QED
      BY <1>2, <2>2 DEF SeesRight
  <1> QED
    BY <1>1, <1>2

(* A segment that the order does not matter to is drawn as in the order.   *)
LEMMA DrawnAsListed ==
  ASSUME NEW S, RendersOf(S), BlockInv(S), Jobs, DrawNext, NEW o, Possible(o), Tooltips(o),
         NEW b, NEW i, NEW begin, NEW acc, b = block - 1, i = current, Agrees(o, b, i, begin, acc),
         ~Doubtful(o, acc, b, i), NEW segment, segment = segments[i]
  PROVE  Drawn(segment, on[i], filled[i], data).shows
           <=> DrawnWhen(o.render.force, segment, Answer(o, segment).enabled,
                         Answer(o, segment).filled, Visible(o, acc, b, i)).shows
  <1>1. /\ Blocks(o)[b] = segments /\ segment.type \in Types /\ Answered(segment)
        /\ on[i] <=> Enabled0(segment)
        /\ filled[i] <=> HasData(segment)
    BY NowDrawn
  <1>2. (on[i] <=> Answer(o, segment).enabled) /\ (filled[i] <=> Answer(o, segment).filled)
    BY <1>1, AnswerIsKnown DEF BlockInv
  <1>3. ASSUME segment.text = "refers", NEW n \in segment.refs
        PROVE  n \in data <=> n \in Visible(o, acc, b, i)
    <2>1. n \notin acc.doubts /\ n \notin Executing(o, b, i)
      BY <1>1, <1>3 DEF Doubtful, Busy
    <2> QED
      BY <2>1 DEF Agrees, SeesRight
  <1>4. DrawnWhen(render.force, segment, on[i], filled[i], data).shows
           <=> DrawnWhen(render.force, segment, Answer(o, segment).enabled,
                         Answer(o, segment).filled, Visible(o, acc, b, i)).shows
    BY <1>2, <1>3, ShowsAlike
  <1> QED
    BY <1>4 DEF Drawn, Possible

LEMMA SeesOn ==
  ASSUME NEW S, RendersOf(S), BlockInv(S), Jobs, BlockNext, DrawNext,
         NEW o, Possible(o), Possible(o)', Tooltips(o),
         NEW b, NEW i, NEW begin, NEW acc, b = block - 1, i = current, Agrees(o, b, i, begin, acc),
         NEW n, n \notin DrawOne(o, acc, b, i).doubts
  PROVE  SeesRight(o, b, i + 1, begin, DrawOne(o, acc, b, i), n)'
  <1> DEFINE next == DrawOne(o, acc, b, i)
             visible == Visible(o, acc, b, i)
             doubt == Doubtful(o, acc, b, i)
  <1>1. PICK segment : segment = segments[i]
    OBVIOUS
  <1> DEFINE enabled == Answer(o, segment).enabled
             fills == Answer(o, segment).filled
  <1>2. /\ Blocks(o)[b] = segments /\ Len(Blocks(o)[b]) \in Nat /\ i \in Nat \ {0}
        /\ segment.type \in Types /\ Answered(segment)
        /\ on[i] <=> Enabled0(segment)
        /\ filled[i] <=> HasData(segment)
    BY <1>1, NowDrawn
  <1>3. /\ next.data = DrawnWhen(o.render.force, segment, enabled, fills, visible).data
        /\ next.doubts = acc.doubts \cup
               {m \in {segment.name} : doubt \/ m \in Executing(o, b, i + 1)}
    BY <1>1, <1>2 DEF DrawOne
  <1>4. /\ n \notin acc.doubts /\ n \notin o.late
        /\ n = segment.name => ~doubt /\ n \notin Executing(o, b, i + 1)
    BY <1>3 DEF Agrees
  <1>5. SeesRight(o, b, i, begin, acc, n)
    BY <1>4 DEF Agrees
  <1>6. data' = DrawnWhen(o.render.force, segment, on[i], filled[i], data).data
    BY <1>1 DEF DrawNext, Drawn, Possible
  <1>7. on[i] <=> enabled
    BY <1>2, AnswerIsKnown DEF BlockInv
  <1>8. Visible(o, next, b, i + 1) = next.data
    BY <1>2 DEF Visible
  <1>9. HasRegistered(o, b, n)' <=> HasRegistered(o, b, n)
    <2>1. \A t \in Types : ~Register(t)
      BY DEF DrawNext, Register, mainVars
    <2> QED
      BY <1>4, <2>1, HasRegisteredStays DEF BlockInv
  <1> HIDE DEF next, visible, doubt, enabled, fills
  <1>10. CASE n \in Executing(o, b, i + 1)
    <2>1. n \in Executing(o, b, i)
      BY <1>2, <1>10, AskedShrinks DEF Executing
    <2>2. n # segment.name
      BY <1>4, <1>10
    <2>3. n \in data' <=> n \in data
      BY <1>6, <2>2, OthersStay
    <2>4. n \in next.data <=> n \in visible
      BY <1>3, <2>2, OthersStay
    <2>5. (n \in visible <=> n \in begin.data \cup Registered(o, b))
          /\ (n \in data <=> n \in begin.data \/ HasRegistered(o, b, n))
      BY <1>5, <2>1 DEF SeesRight, visible
    <2>6. n \in Visible(o, next, b, i + 1) <=> n \in begin.data \cup Registered(o, b)
      BY <1>8, <2>4, <2>5
    <2>7. n \in data' <=> n \in begin.data \/ HasRegistered(o, b, n)'
      BY <1>9, <2>3, <2>5
    <2> QED
      BY <1>10, <2>6, <2>7 DEF SeesRight, next
  <1>11. CASE n \notin Executing(o, b, i + 1)
    <2>1. n \in data <=> n \in visible
      BY <1>5, <1>11, SettledIsSeen DEF visible
    <2>2. \/ n # segment.name
          \/ DrawnWhen(o.render.force, segment, on[i], filled[i], data).shows
               <=> DrawnWhen(o.render.force, segment, enabled, fills, visible).shows
      <3> SUFFICES ASSUME n = segment.name
                   PROVE  DrawnWhen(o.render.force, segment, on[i], filled[i], data).shows
                            <=> DrawnWhen(o.render.force, segment, enabled, fills, visible).shows
        OBVIOUS
      <3>1. ~Doubtful(o, acc, b, i)
        BY <1>4 DEF doubt
      <3>2. Drawn(segment, on[i], filled[i], data).shows
               <=> DrawnWhen(o.render.force, segment, enabled, fills, visible).shows
        BY <1>1, <3>1, DrawnAsListed DEF enabled, fills, visible
      <3> QED
        BY <3>2 DEF Drawn, Possible
    <2>3. n \in DrawnWhen(o.render.force, segment, on[i], filled[i], data).data
            <=> n \in DrawnWhen(o.render.force, segment, enabled, fills, visible).data
      BY <1>7, <2>1, <2>2, SeesAlike
    <2>4. n \in data' <=> n \in next.data
      BY <1>3, <1>6, <2>3
    <2>5. n \in data' <=> n \in Visible(o, next, b, i + 1)
      BY <1>8, <2>4
    <2> QED
      BY <1>11, <2>5 DEF SeesRight, next
  <1> QED
    BY <1>10, <1>11

(* What is shown of the segments drawn before and of this one.             *)
LEMMA ShowsNext ==
  ASSUME NEW S, RendersOf(S), BlockInv(S), BlockNext, DrawNext,
         NEW b, NEW i, b = block - 1, i = current
  PROVE  /\ Shows(b, i)' <=> Drawn(segments[i], on[i], filled[i], data).shows
         /\ ~IsPast(b, i)
         /\ \A c, j : IsPast(c, j) => (Shows(c, j)' <=> Shows(c, j))
  <1> DEFINE drawn == Drawn(segments[i], on[i], filled[i], data)
  <1>1. b \in Nat /\ i \in Nat /\ current \in Nat
    BY DrawsTheNext DEF BlockInv
  <1>2. ~IsPast(b, i)
    BY <1>1 DEF IsPast
  <1>3. shown' = IF drawn.shows THEN Append(shown, <<b, i>>) ELSE shown
    BY DEF DrawNext
  <1> HIDE DEF drawn
  <1>4. CASE drawn.shows
    <2>1. /\ DOMAIN shown' = 1..(Len(shown) + 1) /\ DOMAIN shown = 1..Len(shown)
          /\ Len(shown) \in Nat /\ \A k \in DOMAIN shown : shown'[k] = shown[k]
          /\ shown'[Len(shown) + 1] = <<b, i>>
      BY <1>3, <1>4, AppendedInOrder DEF BlockInv, Past
    <2>2. Shows(b, i)'
      BY <2>1 DEF Shows
    <2>3. ASSUME NEW c, NEW j, IsPast(c, j) PROVE Shows(c, j)' <=> Shows(c, j)
      <3>1. <<c, j>> # <<b, i>>
        BY <1>2, <2>3
      <3> QED
        BY <2>1, <3>1 DEF Shows
    <2> QED
      BY <1>2, <1>4, <2>2, <2>3 DEF drawn
  <1>5. CASE ~drawn.shows
    <2>1. shown' = shown
      BY <1>3, <1>5
    <2>2. ~Shows(b, i)
      <3> SUFFICES ASSUME NEW k \in DOMAIN shown, shown[k] = <<b, i>> PROVE FALSE
        BY DEF Shows
      <3>1. IsPast(b, i)
        BY DEF BlockInv, Past, Ordered
      <3> QED
        BY <1>2, <3>1
    <2> QED
      BY <1>2, <1>5, <2>1, <2>2 DEF Shows, drawn
  <1> QED
    BY <1>4, <1>5

LEMMA DrawFollows ==
  ASSUME NEW S, RendersOf(S), BlockInv(S), Jobs, BlockNext, DrawNext,
         NEW o, Possible(o), Possible(o)', Tooltips(o), Follows(o)
  PROVE  Follows(o)'
  <1>1. PICK b, i : b = block - 1 /\ i = current
    OBVIOUS
  <1> DEFINE begin == InOrder(o)[b - 1]
             acc == Upto(o, b, begin)[i - 1]
             next == DrawOne(o, acc, b, i)
  <1>2. /\ Blocks(o)[b] = segments /\ Len(Blocks(o)[b]) \in Nat /\ b \in Nat \ {0}
        /\ i \in 1..Len(Blocks(o)[b]) /\ i \in Nat \ {0}
    BY <1>1, NowDrawn
  <1>3. block > 1 /\ UNCHANGED block /\ current' = i + 1 /\ block \in Nat
    BY <1>1, DrawsTheNext DEF DrawNext, BlockInv, Place, IsRequest
  <1>4. Upto(o, b, begin)[i] = next
    BY <1>2, UptoSteps
  <1>5. Agrees(o, b, i, begin, acc)
    BY <1>1, <1>3 DEF Follows
  <1>6. PICK segment : segment = segments[i]
    OBVIOUS
  <1> DEFINE shows == DrawnWhen(o.render.force, segment, Answer(o, segment).enabled,
                                Answer(o, segment).filled, Visible(o, acc, b, i)).shows
             doubt == Doubtful(o, acc, b, i)
  <1>7. /\ next.open = acc.open \cup {p \in {<<b, i>>} : doubt}
        /\ next.shown = acc.shown \cup {p \in {<<b, i>>} : shows}
        /\ acc.doubts \subseteq next.doubts
    BY <1>2, <1>6 DEF DrawOne
  <1> HIDE DEF acc, begin
  <1>8. \A n : n \notin next.doubts => SeesRight(o, b, i + 1, begin, next, n)'
    BY <1>1, <1>5, SeesOn
  <1>9. ~doubt => (Shows(b, i)' <=> shows)
    BY <1>1, <1>5, <1>6, ShowsNext, DrawnAsListed
  <1>10. ~IsPast(b, i) /\ \A c, j : IsPast(c, j) => (Shows(c, j)' <=> Shows(c, j))
    BY <1>1, ShowsNext
  <1> HIDE DEF next, shows, doubt
  <1>11. \A c, j : IsPast(c, j) => IsPast(c, j)'
    BY PastStays DEF BlockInv
  <1>12. IsPast(b, i)'
    BY <1>1, DrawnIsPast DEF BlockInv
  <1>13. \A c, j : IsPast(c, j)' => IsPast(c, j) \/ (c = b /\ j = i)
    BY <1>1, NewPast DEF BlockInv
  <1>14. ASSUME NEW p \in next.open \cup next.shown
         PROVE  \E c, j : p = <<c, j>> /\ IsPast(c, j)'
    <2>1. CASE p = <<b, i>>
      BY <1>12, <2>1
    <2>2. CASE p # <<b, i>>
      <3>1. p \in acc.open \cup acc.shown
        BY <1>7, <1>14, <2>2
      <3> QED
        BY <1>5, <1>11, <3>1 DEF Agrees
    <2> QED
      BY <2>1, <2>2
  <1>15. ASSUME NEW c, NEW j, IsPast(c, j)', <<c, j>> \notin next.open
         PROVE  Shows(c, j)' <=> <<c, j>> \in next.shown
    <2>1. <<b, i>> \notin acc.shown
      <3> SUFFICES ASSUME <<b, i>> \in acc.shown PROVE FALSE
        OBVIOUS
      <3>1. PICK d, k : <<b, i>> = <<d, k>> /\ IsPast(d, k)
        BY <1>5 DEF Agrees
      <3>2. d = b /\ k = i
        BY <3>1
      <3> QED
        BY <1>10, <3>1, <3>2
    <2>2. CASE IsPast(c, j)
      <3>1. <<c, j>> # <<b, i>>
        BY <1>10, <2>2
      <3>2. <<c, j>> \notin acc.open /\ (<<c, j>> \in next.shown <=> <<c, j>> \in acc.shown)
        BY <1>7, <1>15, <3>1
      <3> QED
        BY <1>5, <1>10, <2>2, <3>2 DEF Agrees
    <2>3. CASE c = b /\ j = i
      <3>1. ~doubt
        BY <1>7, <1>15, <2>3
      <3>2. <<b, i>> \in next.shown <=> shows
        BY <1>7, <2>1
      <3> QED
        BY <1>9, <2>3, <3>1, <3>2
    <2> QED
      BY <1>13, <1>15, <2>2, <2>3
  <1>16. Agrees(o, b, i + 1, begin, next)'
    <2>1. o.late \subseteq next.doubts
      BY <1>5, <1>7 DEF Agrees
    <2> QED
      BY <1>8, <1>14, <1>15, <2>1 DEF Agrees
  <1>17. Upto(o, b, begin)[(i + 1) - 1] = next
    BY <1>2, <1>4 DEF next
  <1> QED
    BY <1>1, <1>3, <1>16, <1>17 DEF Follows, begin

-----------------------------------------------------------------------------
(* The next block is begun.                                                *)
LEMMA BlockEnds ==
  ASSUME NEW S, RendersOf(S), BlockInv(S), NEW o, Possible(o), Tooltips(o), Follows(o),
         block > 1, current > Len(segments), NEW b, b = block - 1
  PROVE  Agrees(o, b, Len(Blocks(o)[b]) + 1, InOrder(o)[b - 1], InOrder(o)[b])
         /\ Len(Blocks(o)[b]) \in Nat
  <1>1. segments \in Seq(S) /\ current = Len(segments) + 1 /\ block \in Nat
    BY DEF BlockInv, Place, IsRequest
  <1>2. /\ Blocks(o)[b] = segments /\ b \in 1..Len(Blocks(o)) /\ Len(Blocks(o)) \in Nat
    <2>1. BlockAt(b) = segments /\ b \in 1..(block - 1)
      BY <1>1 DEF BlockAt, BlockInv, Place
    <2> QED
      BY <2>1, OutcomeBlocks DEF BlockInv
  <1>3. InOrder(o)[b] = Upto(o, b, InOrder(o)[b - 1])[Len(segments)]
    BY <1>2, InOrderSteps
  <1>4. current - 1 = Len(segments)
    BY <1>1
  <1>5. Agrees(o, b, current, InOrder(o)[b - 1], Upto(o, b, InOrder(o)[b - 1])[current - 1])
    BY DEF Follows
  <1> QED
    BY <1>1, <1>2, <1>3, <1>4, <1>5

LEMMA EndIsSeen ==
  ASSUME NEW o, NEW b, Len(Blocks(o)[b]) \in Nat, NEW begin, NEW acc,
         Agrees(o, b, Len(Blocks(o)[b]) + 1, begin, acc), NEW n, n \notin acc.doubts
  PROVE  n \in data <=> n \in acc.data
  <1> DEFINE i == Len(Blocks(o)[b]) + 1
  <1>1. AskedFrom(o, b, i) = {} /\ Executing(o, b, i) = {}
    BY AskedEnds
  <1>2. n \in data <=> n \in Visible(o, acc, b, i)
    BY <1>1 DEF Agrees, SeesRight
  <1>3. i = 1 => Registered(o, b) = {}
    BY <1>1 DEF Registered
  <1> QED
    BY <1>2, <1>3 DEF Visible

(* Where a block begins, what was drawn and is seen agrees with the order. *)
LEMMA BlockReached ==
  ASSUME NEW S, RendersOf(S), BlockInv(S), NEW o, Possible(o), Tooltips(o), Follows(o),
         block > 1 => current > Len(segments),
         block = 1 /\ render.tip => asked > Len(render.blocks[1]),
         NEW begin, begin = InOrder(o)[block - 1]
  PROVE  /\ o.late \subseteq begin.doubts
         /\ \A n : n \notin begin.doubts => (n \in data <=> n \in begin.data)
         /\ \A p \in begin.open \cup begin.shown : \E c, j : p = <<c, j>> /\ IsPast(c, j)
         /\ \A c, j : IsPast(c, j) /\ <<c, j>> \notin begin.open => (Shows(c, j) <=> <<c, j>> \in begin.shown)
  <1>1. CASE block = 1
    <2>1. begin = Start(o)
      <3>1. Len(Blocks(o)) \in Nat
        BY OutcomeBlocks DEF BlockInv
      <3> QED
        BY <1>1, <3>1, InOrderSteps
    <2>2. data = {t.name : t \in {u \in ToSet(segments) : EnablesIn(o, u)}}
      BY <1>1 DEF Tooltips
    <2>3. o.render = render /\ IsRequest(render, S)
      BY DEF Possible, BlockInv, Place
    <2>4. data = Start(o).data
      <3>1. CASE render.tip
        <4>1. asked - 1 = Len(render.blocks[1])
          <5>1. Len(render.blocks[1]) \in Nat
            BY <2>3, <3>1 DEF IsRequest
          <5> QED
            BY <1>1, <3>1, <5>1 DEF Tooltips, BlockInv, Place
        <4>2. Blocks(o)[1] = segments
          BY <2>3, <3>1, <4>1 DEF Blocks, Tooltips
        <4> QED
          BY <2>2, <2>3, <3>1, <4>2 DEF Start
      <3>2. CASE ~render.tip
        <4>1. segments = <<>>
          BY <1>1, <3>2 DEF BlockInv, Place
        <4>2. data = {}
          BY <2>2, <4>1, NobodyListed, Zenon
        <4> QED
          BY <2>3, <3>2, <4>2 DEF Start
      <3> QED
        BY <3>1, <3>2
    <2>5. \A c, j : ~IsPast(c, j)
      BY <1>1 DEF IsPast
    <2> QED
      BY <2>1, <2>4, <2>5 DEF Start
  <1>2. CASE block # 1
    <2>1. block > 1
      BY <1>2 DEF BlockInv, Place, IsRequest
    <2>2. PICK b : b = block - 1
      OBVIOUS
    <2> DEFINE before == InOrder(o)[b - 1]
               after == InOrder(o)[b]
    <2>3. Agrees(o, b, Len(Blocks(o)[b]) + 1, before, after) /\ Len(Blocks(o)[b]) \in Nat
      BY <2>1, <2>2, BlockEnds
    <2>4. begin = after
      BY <2>2
    <2> HIDE DEF before, after
    <2>5. \A n : n \notin after.doubts => (n \in data <=> n \in after.data)
      BY <2>3, EndIsSeen
    <2> QED
      BY <2>3, <2>4, <2>5 DEF Agrees
  <1> QED
    BY <1>1, <1>2

LEMMA StartFollows ==
  ASSUME NEW S, RendersOf(S), BlockInv(S), Jobs, BlockNext, StartBlock,
         NEW o, Possible(o), Possible(o)', Tooltips(o), Follows(o)
  PROVE  Follows(o)'
  <1>1. PICK b : b = block
    OBVIOUS
  <1>2. PICK begin : begin = InOrder(o)[b - 1]
    OBVIOUS
  <1>3. /\ block' = b + 1 /\ current' = 1 /\ block' # block
        /\ UNCHANGED <<render, provider, job, shown, data>>
        /\ b \in Nat \ {0} /\ b \in 1..Len(render.blocks)
        /\ block > 1 => current > Len(segments)
        /\ block = 1 /\ render.tip => asked > Len(render.blocks[1])
    BY <1>1 DEF StartBlock, BlockInv, Place, IsRequest
  <1>4. /\ o.late \subseteq begin.doubts
        /\ \A n : n \notin begin.doubts => (n \in data <=> n \in begin.data)
        /\ \A p \in begin.open \cup begin.shown : \E c, j : p = <<c, j>> /\ IsPast(c, j)
        /\ \A c, j : IsPast(c, j) /\ <<c, j>> \notin begin.open => (Shows(c, j) <=> <<c, j>> \in begin.shown)
    BY <1>1, <1>2, <1>3, BlockReached
  <1>5. Len(Blocks(o)[b]) \in Nat
    <2>1. o.render = render /\ IsRequest(render, S)
      BY DEF Possible, BlockInv, Place
    <2>2. CASE ~render.tip
      <3>1. Blocks(o)[b] = render.blocks[b]
        BY <2>1, <2>2 DEF Blocks
      <3> QED
        BY <1>3, <2>1, <3>1 DEF IsRequest
    <2>3. CASE render.tip
      <3>0. Len(render.blocks) = 1 /\ render.blocks \in Seq(Seq(S))
        BY <2>1, <2>3 DEF IsRequest
      <3>1. b = 1 /\ Len(render.blocks[1]) \in Nat
        BY <1>3, <3>0
      <3>2. asked - 1 = Len(render.blocks[1]) /\ segments = Tips(o)[asked - 1]
        BY <1>1, <1>3, <2>3, <3>1 DEF Tooltips, BlockInv, Place
      <3>3. Blocks(o)[1] = segments
        BY <2>1, <2>3, <3>2 DEF Blocks
      <3> QED
        BY <3>1, <3>3 DEF BlockInv, Place
    <2> QED
      BY <2>2, <2>3
  <1>6. ASSUME NEW t \in Types, t \in AskedFrom(o, b, 1)
        PROVE  provider[t].state = NoOne
    <2> SUFFICES ASSUME provider[t].state # NoOne PROVE FALSE
      OBVIOUS
    <2>1. PICK c \in 1..(block - 1) : Asks(c, t)
      BY DEF BlockInv, Providers, FirstAnswers
    <2>2. t \in Asked(o, c, DOMAIN Blocks(o)[c])
      BY <2>1, AskedAsks DEF BlockInv
    <2> QED
      BY <1>1, <1>6, <2>2 DEF AskedFrom, AskedBefore
  <1>7. ASSUME NEW n PROVE ~HasRegistered(o, b, n)'
    BY <1>3, <1>6 DEF HasRegistered, RegisteredNow, NoOne
  <1>8. Registered(o, b) \subseteq Executing(o, b, 1)
    BY DEF Registered, Executing
  <1>9. ASSUME NEW n, n \notin begin.doubts
        PROVE  SeesRight(o, b, 1, begin, begin, n)'
    <2>1. n \in data' <=> n \in begin.data
      BY <1>3, <1>4, <1>9
    <2>2. Visible(o, begin, b, 1) = begin.data \cup Registered(o, b)
      BY DEF Visible
    <2> QED
      BY <1>7, <1>8, <2>1, <2>2 DEF SeesRight
  <1>10. \A c, j : IsPast(c, j)' <=> IsPast(c, j)
    BY <1>1, <1>3, PastStays, NewPast DEF BlockInv
  <1>11. \A c, j : Shows(c, j)' <=> Shows(c, j)
    BY <1>3 DEF Shows
  <1>12. Agrees(o, b, 1, begin, begin)'
    BY <1>4, <1>9, <1>10, <1>11 DEF Agrees
  <1>13. Upto(o, b, begin)[0] = begin
    BY <1>5, UptoSteps
  <1>14. block' - 1 = b /\ current' - 1 = 0
    BY <1>3
  <1> QED
    BY <1>2, <1>3, <1>12, <1>13, <1>14 DEF Follows

-----------------------------------------------------------------------------
(* Every outcome that is still possible agrees with what happened.         *)
ListedInv(S) ==
    BlockInv(S) /\ Jobs /\ \A o : Possible(o) => Tooltips(o) /\ Follows(o)

LEMMA ListedInit ==
  ASSUME NEW S, RendersOf(S), BlockInit
  PROVE  ListedInv(S)
  <1>1. ASSUME NEW o, Possible(o) PROVE Tooltips(o) /\ Follows(o)
    <2>1. Tooltips(o)
      BY <1>1, TooltipsInit DEF Possible
    <2>2. ~(block > 1)
      BY DEF BlockInit
    <2> QED
      BY <2>1, <2>2 DEF Follows
  <1> QED
    BY <1>1, BlockInvInit, JobsInit DEF ListedInv

LEMMA ListedStep ==
  ASSUME NEW S, RendersOf(S), ListedInv(S), [BlockNext]_blockVars
  PROVE  ListedInv(S)'
  <1>1. BlockInv(S)'
    BY BlockInvStep DEF ListedInv
  <1>2. CASE BlockNext
    <2>1. Jobs'
      BY <1>2, JobsStep DEF ListedInv, BlockInv
    <2>2. ASSUME NEW o, Possible(o)' PROVE Tooltips(o)' /\ Follows(o)'
      <3>1. Possible(o)
        BY <1>2, <2>2, PossibleBefore DEF ListedInv, BlockInv
      <3>2. Tooltips(o) /\ Follows(o)
        BY <3>1 DEF ListedInv
      <3>0. BlockInv(S) /\ Jobs
        BY DEF ListedInv
      <3>3. Tooltips(o)'
        BY <1>2, <3>1, <3>2, TooltipsStep DEF ListedInv, BlockInv
      <3>4. CASE StartBlock
        BY <1>2, <2>2, <3>1, <3>2, <3>4, <3>0, <3>3, StartFollows
      <3>5. CASE DrawNext
        BY <1>2, <2>2, <3>1, <3>2, <3>5, <3>0, <3>3, DrawFollows
      <3>6. CASE ~StartBlock /\ ~DrawNext
        BY <1>2, <2>2, <3>1, <3>2, <3>6, <3>0, <3>3, WorkFollows
      <3> QED
        BY <3>4, <3>5, <3>6
    <2> QED
      BY <1>1, <2>1, <2>2 DEF ListedInv
  <1>3. CASE UNCHANGED blockVars
    <2>1. UNCHANGED <<render, tool, asked, segments, current, block, shown, provider, job, abandoned,
                      data, late>>
      BY <1>3 DEF blockVars, mainVars
    <2>2. Jobs'
      BY <2>1 DEF ListedInv, Jobs, Enables
    <2>3. ASSUME NEW o PROVE (Possible(o)' <=> Possible(o)) /\ (Tooltips(o)' <=> Tooltips(o))
      BY <2>1 DEF Possible, Tooltips
    <2>4. ASSUME NEW o PROVE Follows(o)' <=> Follows(o)
      <3>1. \A b, n : HasRegistered(o, b, n)' <=> HasRegistered(o, b, n)
        BY <2>1 DEF HasRegistered, RegisteredNow
      <3>2. \A b, i, begin, acc, n : SeesRight(o, b, i, begin, acc, n)' <=> SeesRight(o, b, i, begin, acc, n)
        BY <2>1, <3>1 DEF SeesRight
      <3>3. \A c, j : (IsPast(c, j)' <=> IsPast(c, j)) /\ (Shows(c, j)' <=> Shows(c, j))
        BY <2>1 DEF IsPast, BlockAt, Shows
      <3>4. \A b, i, begin, acc : Agrees(o, b, i, begin, acc)' <=> Agrees(o, b, i, begin, acc)
        BY <3>2, <3>3 DEF Agrees
      <3> QED
        BY <2>1, <3>4 DEF Follows
    <2> QED
      BY <1>1, <2>2, <2>3, <2>4 DEF ListedInv
  <1> QED
    BY <1>2, <1>3

(* Any prompt or tooltip, of any segments: in whatever order they execute, *)
(* time out and answer, it shows what it would show had they done so in    *)
(* the order they are listed, but for a template that refers to what was   *)
(* not settled when it was drawn (writeSegments, getOrCreateSharedProvider,*)
(* executeSegmentWithContext, Segment.Execute and Render).                 *)
THEOREM BlocksAreAsListed ==
  ASSUME NEW S, RendersOf(S)
  PROVE  BlockSpec => []ShownAsListed
  <1>1. ListedInv(S) => ShownAsListed
    <2> SUFFICES ASSUME ListedInv(S), Over PROVE ShownAsListed
      BY DEF ShownAsListed
    <2>1. PICK o : o = Outcome
      OBVIOUS
    <2>2. Possible(o)
      BY <2>1 DEF Possible, Outcome
    <2>3. BlockInv(S) /\ Tooltips(o) /\ Follows(o) /\ Place(S)
      BY <2>2 DEF ListedInv, BlockInv
    <2>4. Len(render.blocks) = block - 1 /\ block \in Nat \ {0}
      BY <2>3 DEF Over, Place, IsRequest
    <2>5. block = 1 => ~render.tip
      BY <2>3, <2>4 DEF Place, IsRequest
    <2> DEFINE expected == InOrder(o)[block - 1]
    <2>6. /\ \A p \in expected.open \cup expected.shown : \E c, j : p = <<c, j>> /\ IsPast(c, j)
          /\ \A c, j : IsPast(c, j) /\ <<c, j>> \notin expected.open
                          => (Shows(c, j) <=> <<c, j>> \in expected.shown)
      <3>1. block > 1 => current > Len(segments)
        BY DEF Over
      <3> HIDE DEF expected
      <3>2. PICK begin : begin = expected
        OBVIOUS
      <3> QED
        BY <2>2, <2>3, <2>5, <3>1, <3>2, BlockReached DEF expected
    <2> HIDE DEF expected
    <2>7. Ordered
      BY <2>3 DEF BlockInv, Past
    <2>8. ToSet(shown) \ expected.open = expected.shown \ expected.open
      <3>1. ASSUME NEW p, p \notin expected.open
            PROVE  p \in ToSet(shown) <=> p \in expected.shown
        <4>1. p \in ToSet(shown) => \E c, j : p = <<c, j>> /\ IsPast(c, j)
          BY <2>7 DEF Ordered, ToSet
        <4>2. \A c, j : Shows(c, j) <=> <<c, j>> \in ToSet(shown)
          BY DEF Shows, ToSet
        <4> QED
          BY <2>6, <3>1, <4>1, <4>2
      <3> QED
        BY <3>1
    <2>9. expected = InOrder(Outcome)[Len(render.blocks)]
      BY <2>1, <2>4 DEF expected
    <2> QED
      BY <2>7, <2>8, <2>9 DEF ShownAsListed, Ordered
  <1> QED
    BY <1>1, ListedInit, ListedStep, PTL DEF BlockSpec

-----------------------------------------------------------------------------
(* The toggles.                                                            *)

(* A session is seeded from what its caller read, so the read set must     *)
(* cover what is seeded; the shared set covers it for the next reader; and *)
(* while CacheClear is between its steps all that is seeded is recent.     *)
TogglesInv == /\ TypeOK
              /\ UsersWordStands
              /\ LiveShellsHaveGains
              /\ SyncedIsShared
              /\ \A c \in Callers : pc[c] = "reading" => seeded \subseteq base[c] \cup skip[c]
              /\ clearing => seeded \subseteq since

LEMMA TogglesInit == Init => TogglesInv
  <1>. SUFFICES ASSUME Init PROVE TogglesInv
    OBVIOUS
  <1>1. Silent \in [Names -> Words]
    BY DEF Silent, Words
  <1>2. TypeOK
    BY <1>1, TogglesAssumption DEF Init, TypeOK
  <1>3. QED
    BY <1>2 DEF Init, TogglesInv, UsersWordStands, LiveShellsHaveGains, SyncedIsShared

(* A copy that is published keeps the shared set over the seeded names.    *)
LEMMA PublishCovers ==
  ASSUME TypeOK, SyncedIsShared, NEW read \in SUBSET Names, NEW names \in SUBSET Names,
         Publish(read, names)
  PROVE  /\ shared' \subseteq Names /\ torn' \subseteq Names
         /\ seeded \subseteq shared' \cup torn'
  BY DEF TypeOK, SyncedIsShared, Publish

(* Seeding a session.                                                      *)
LEMMA StoreBaseStep ==
  ASSUME TogglesInv, NEW c \in Callers, StoreBase(c)
  PROVE  TogglesInv'
  <1>. DEFINE s == SessionOf[c]
  <1>. s \in Sessions
    BY TogglesAssumption
  <1>1. CASE s \in stored
    BY <1>1 DEF StoreBase, Goto, TogglesInv, TypeOK, UsersWordStands, LiveShellsHaveGains,
                SyncedIsShared, configVars, reloadVars
  <1>2. CASE s \notin stored
    <2>. /\ stored' = stored \cup {s}
         /\ toggles' = [toggles EXCEPT ![s] = base[c]]
         /\ wish' = [wish EXCEPT ![s] = Silent]
         /\ given' = [given EXCEPT ![s] = base[c]]
         /\ excused' = [excused EXCEPT ![s] = skip[c]]
         /\ pc' = [pc EXCEPT ![c] = "seeded"]
         /\ base' = [base EXCEPT ![c] = {}]
         /\ UNCHANGED <<configVars, clears, ends, shared, seeded, parsed, reloadVars,
                        clearing, skip, torn, since>>
      BY <1>2 DEF StoreBase, Goto
    <2>. seeded \subseteq base[c] \cup skip[c]
      BY DEF StoreBase, TogglesInv
    <2>. Silent \in [Names -> Words] /\ \A n \in Names : Silent[n] = "none"
      BY DEF Silent, Words
    <2>1. TypeOK'
      BY DEF TogglesInv, TypeOK, configVars, reloadVars
    <2>2. UsersWordStands'
      BY DEF TogglesInv, TypeOK, UsersWordStands
    <2>3. LiveShellsHaveGains'
      BY DEF TogglesInv, TypeOK, LiveShellsHaveGains
    <2>4. QED
      BY <2>1, <2>2, <2>3 DEF TogglesInv, TypeOK, SyncedIsShared
  <1>3. QED
    BY <1>1, <1>2

(* Flipping names.                                                         *)
LEMMA FlipTogglesStep ==
  ASSUME TogglesInv, NEW c \in Callers, FlipToggles(c)
  PROVE  TogglesInv'
  <1>. DEFINE s == SessionOf[c]
  <1>. s \in Sessions
    BY TogglesAssumption
  <1>. PICK names \in SUBSET Names :
         /\ toggles' = [toggles EXCEPT ![s] = (@ \ names) \cup (names \ @)]
         /\ wish' = [wish EXCEPT ![s] =
                       [n \in Names |-> IF n \notin names
                                        THEN IF s \in stored THEN @[n] ELSE "none"
                                        ELSE IF n \in toggles[s] THEN "shown" ELSE "hidden"]]
    BY DEF FlipToggles
  <1>. /\ stored' = stored \cup {s}
       /\ pc' = [pc EXCEPT ![c] = "done"]
       /\ UNCHANGED <<configVars, clears, ends, shared, seeded, base, parsed, reloadVars,
                      clearing, skip, torn, since>>
    BY DEF FlipToggles, Goto
  <1>1. /\ \A t \in Sessions \ {s} : toggles'[t] = toggles[t] /\ wish'[t] = wish[t]
        /\ toggles'[s] = (toggles[s] \ names) \cup (names \ toggles[s])
        /\ \A n \in names : wish'[s][n] = IF n \in toggles[s] THEN "shown" ELSE "hidden"
        /\ \A n \in Names \ names : wish'[s][n] = IF s \in stored THEN wish[s][n] ELSE "none"
    BY DEF TogglesInv, TypeOK
  <1>2. /\ given' \in [Sessions -> SUBSET Names]
        /\ excused' \in [Sessions -> SUBSET Names]
        /\ \A t \in stored : excused'[t] = excused[t]
        /\ s \notin stored => excused'[s] = seeded
    <2>1. IF s \in stored THEN UNCHANGED <<given, excused>>
          ELSE /\ given' = [given EXCEPT ![s] = {}]
               /\ excused' = [excused EXCEPT ![s] = seeded]
      BY DEF FlipToggles
    <2>2. QED
      BY <2>1 DEF TogglesInv, TypeOK
  <1>3. wish' \in [Sessions -> [Names -> Words]]
    <2>1. [n \in Names |-> IF n \notin names
                           THEN IF s \in stored THEN wish[s][n] ELSE "none"
                           ELSE IF n \in toggles[s] THEN "shown" ELSE "hidden"] \in [Names -> Words]
      BY DEF TogglesInv, TypeOK, Words
    <2>2. QED
      BY <2>1 DEF TogglesInv, TypeOK
  <1>4. TypeOK'
    BY <1>2, <1>3 DEF TogglesInv, TypeOK, configVars, reloadVars
  <1>5. UsersWordStands'
    BY <1>1 DEF TogglesInv, TypeOK, UsersWordStands
  <1>6. LiveShellsHaveGains'
    BY <1>1, <1>2 DEF TogglesInv, TypeOK, LiveShellsHaveGains
  <1>7. QED
    BY <1>4, <1>5, <1>6 DEF TogglesInv, TypeOK, SyncedIsShared

(* The sync of a reload.                                                   *)
LEMMA SyncStep ==
  ASSUME TogglesInv, Sync
  PROVE  TogglesInv'
  <1>. DEFINE added == found \ seeded
  <1>. /\ reload' = "idle" /\ found' = {} /\ gained' = {}
       /\ seeded' = seeded \cup added
       /\ toggles' = [s \in Sessions |->
                        IF s \in stored THEN toggles[s] \cup added ELSE toggles[s]]
       /\ wish' = [s \in Sessions |->
                     [n \in Names |-> IF n \in added /\ wish[s][n] = "shown"
                                      THEN "none" ELSE wish[s][n]]]
       /\ skip' = [c \in Callers |-> skip[c] \cup added]
       /\ torn' = torn \cup (added \ shared)
       /\ since' = IF clearing THEN since \cup added ELSE since
       /\ UNCHANGED <<configVars, clears, ends, shared, stored, callVars, clearing,
                      given, excused>>
    BY DEF Sync
  <1>. added \subseteq Names
    BY DEF TogglesInv, TypeOK
  <1>1. wish' \in [Sessions -> [Names -> Words]]
    <2>1. ASSUME NEW s \in Sessions, NEW n \in Names
          PROVE  (IF n \in added /\ wish[s][n] = "shown" THEN "none" ELSE wish[s][n]) \in Words
      BY DEF TogglesInv, TypeOK, Words
    <2>2. QED
      BY <2>1
  <1>2. TypeOK'
    BY <1>1 DEF TogglesInv, TypeOK, configVars, callVars
  <1>3. ASSUME NEW s \in Sessions, NEW n \in Names
        PROVE  /\ s \in stored => toggles'[s] = toggles[s] \cup added
               /\ wish'[s][n] = IF n \in added /\ wish[s][n] = "shown" THEN "none" ELSE wish[s][n]
    BY DEF TogglesInv, TypeOK
  <1>4. UsersWordStands'
    BY <1>3 DEF TogglesInv, TypeOK, UsersWordStands
  <1>5. LiveShellsHaveGains'
    BY <1>3 DEF TogglesInv, TypeOK, LiveShellsHaveGains
  <1>6. ASSUME NEW c \in Callers, pc'[c] = "reading" PROVE seeded' \subseteq base'[c] \cup skip'[c]
    BY <1>6 DEF TogglesInv, callVars
  <1>7. QED
    BY <1>2, <1>4, <1>5, <1>6 DEF TogglesInv, TypeOK, SyncedIsShared

(* Every step keeps the invariant.                                         *)
LEMMA TogglesStep == TogglesInv /\ [Next]_vars => TogglesInv'
  <1>. SUFFICES ASSUME TogglesInv, [Next]_vars PROVE TogglesInv'
    OBVIOUS
  <1>. USE DEF TogglesInv, TypeOK, UsersWordStands, LiveShellsHaveGains, SyncedIsShared,
               Goto, configVars, callVars, reloadVars, mapVars, historyVars
  <1>1. ASSUME Save PROVE TogglesInv'
    <2>1. file' \subseteq Names /\ readable' \in BOOLEAN /\ saves' \in Nat /\ event' \in BOOLEAN
      <3>1. \/ file' \in Edits /\ readable' = TRUE
            \/ file' = file /\ readable' = FALSE
        BY <1>1 DEF Save
      <3>2. saves' = saves + 1 /\ event' = TRUE
        BY <1>1 DEF Save
      <3>3. file' \subseteq Names /\ readable' \in BOOLEAN
        BY <3>1, TogglesAssumption
      <3>4. QED
        BY <3>2, <3>3
    <2>2. UNCHANGED <<clears, ends, shared, mapVars, callVars, reloadVars, clearing, historyVars>>
      BY <1>1 DEF Save
    <2>3. QED
      BY <2>1, <2>2
  <1>2. ASSUME NEW c \in Callers, AskToggles(c) PROVE TogglesInv'
    BY <1>2 DEF AskToggles
  <1>3. ASSUME NEW c \in Callers, ReadBase(c) PROVE TogglesInv'
    BY <1>3 DEF ReadBase
  <1>4. ASSUME NEW c \in Callers, ReuseEngine(c) PROVE TogglesInv'
    BY <1>4 DEF ReuseEngine
  <1>5. ASSUME NEW c \in Callers, LoadConfig(c) PROVE TogglesInv'
    BY <1>5 DEF LoadConfig
  <1>6. ASSUME NEW c \in Callers, LoadReadsShared(c) PROVE TogglesInv'
    BY <1>6 DEF LoadReadsShared
  <1>7. ASSUME NEW c \in Callers, LoadPublishes(c) PROVE TogglesInv'
    <2>1. Publish(base[c], parsed[c]) /\ pc[c] = "publishing"
      BY <1>7 DEF LoadPublishes
    <2>2. /\ shared' \subseteq Names /\ torn' \subseteq Names
          /\ seeded \subseteq shared' \cup torn'
      BY <2>1, PublishCovers
    <2>3. QED
      BY <1>7, <2>2 DEF LoadPublishes
  <1>8. ASSUME ReloadBegins PROVE TogglesInv'
    <2>1. event' \in BOOLEAN /\ reload' = "parsing"
      BY <1>8 DEF ReloadBegins
    <2>2. UNCHANGED <<file, readable, saves, clears, ends, shared, mapVars, callVars,
                      found, gained, clearing, historyVars>>
      BY <1>8 DEF ReloadBegins
    <2>3. QED
      BY <2>1, <2>2
  <1>9. ASSUME ReloadParses PROVE TogglesInv'
    BY <1>9 DEF ReloadParses
  <1>10. ASSUME ReloadPublishes PROVE TogglesInv'
    <2>1. Publish(found, gained)
      BY <1>10 DEF ReloadPublishes
    <2>2. /\ shared' \subseteq Names /\ torn' \subseteq Names
          /\ seeded \subseteq shared' \cup torn'
      BY <2>1, PublishCovers
    <2>3. QED
      BY <1>10, <2>2 DEF ReloadPublishes
  <1>11. ASSUME SyncReads PROVE TogglesInv'
    BY <1>11 DEF SyncReads
  <1>12. ASSUME NEW s \in Sessions, ForgetSession(s) PROVE TogglesInv'
    BY <1>12 DEF ForgetSession
  <1>13. ASSUME ResetToggles PROVE TogglesInv'
    BY <1>13 DEF ResetToggles
  <1>14. ASSUME DeleteShared PROVE TogglesInv'
    <2>1. seeded \subseteq since
      BY <1>14 DEF DeleteShared
    <2>2. /\ clearing' = FALSE /\ shared' = {} /\ torn' = torn \cup since /\ since' = {}
          /\ UNCHANGED <<configVars, clears, ends, mapVars, callVars, reloadVars, wish, given,
                         skip, excused>>
      BY <1>14 DEF DeleteShared
    <2>3. SyncedIsShared' /\ TypeOK'
      BY <2>1, <2>2
    <2>4. UsersWordStands' /\ LiveShellsHaveGains'
      BY <2>2
    <2>5. QED
      BY <2>2, <2>3, <2>4
  <1>15. CASE UNCHANGED vars
    BY <1>15 DEF vars
  <1>16. QED
    BY <1>1, <1>2, <1>3, <1>4, <1>5, <1>6, <1>7, <1>8, <1>9, <1>10, <1>11, <1>12, <1>13,
       <1>14, <1>15, StoreBaseStep, FlipTogglesStep, SyncStep
    DEF Next, SessionToggles, EngineLoad, ApplyConfigReload, CacheClear

LEMMA TogglesAlways == Spec => []TogglesInv
  BY TogglesInit, TogglesStep, PTL DEF Spec

-----------------------------------------------------------------------------
(* Every variable keeps its type, and only stored sessions hide anything.  *)
THEOREM TogglesTypes == Spec => []TypeOK
  <1>1. TogglesInv => TypeOK
    BY DEF TogglesInv
  <1>2. QED
    BY <1>1, TogglesAlways, PTL

(* What a user toggled stays so, whatever runs at the same time.           *)
THEOREM UsersWordAlwaysStands == Spec => []UsersWordStands
  <1>1. TogglesInv => UsersWordStands
    BY DEF TogglesInv
  <1>2. QED
    BY <1>1, TogglesAlways, PTL

(* Live sessions have what the config gained up to the last sync.          *)
THEOREM LiveShellsAlwaysHaveGains == Spec => []LiveShellsHaveGains
  <1>1. TogglesInv => LiveShellsHaveGains
    BY DEF TogglesInv
  <1>2. QED
    BY <1>1, TogglesAlways, PTL
=============================================================================
