---------------------------- MODULE GitSegment ----------------------------
(***************************************************************************)
(* The git segment (src/src/segments/git.go, scm.go): what one execution   *)
(* reads of a repository, and what it says of it, while the user goes on   *)
(* running git.  git status and the files of the git directory are read    *)
(* one after the other, so a command may run between the two.              *)
(*                                                                         *)
(* repo is what git keeps for the work tree the shell is in; its files lie *)
(* in one of three directories: the git directory all work trees share     *)
(* ("common"), the one of a linked work tree ("worktree"), or the root of  *)
(* the work tree ("root"), where git keeps none.  git is the writer.       *)
(* Texts are abstracted to what they name: a HEAD text is the operation it *)
(* tells of, what that operation applies and where HEAD is.  Left out:     *)
(* posh-git, WSL paths, users, and the details of a commit.                *)
(***************************************************************************)
EXTENDS Integers, FiniteSets, SequencesExt

CONSTANTS Branches,    \* names of branches, sequences of words
          Files,       \* files that may differ from HEAD
          Changes,     \* the XY codes of a file of git status
          Remotes,     \* url and push configuration: [mentions, branchPush, pushDefault]
          Options,     \* the segment's options
          Layouts,     \* how the work tree finds its git directory
          MaxSteps,    \* bound: commits a rebase replays
          MaxCommands  \* bound: commands the user runs

VARIABLES repo, options, git, reading, quiet, commands

gitVars == <<repo, options, git, reading, quiet, commands>>

(* The codes of git status: those of the index and of the work tree, that  *)
(* of an untracked file and that of a submodule.                           *)
Codes == {".", "M", "T", "A", "D", "R", "C", "U", "?", "m"}

ASSUME GitAssumption ==
    /\ IsFiniteSet(Files)
    /\ \A change \in Changes : change.x \in Codes /\ change.y \in Codes

NoRemote == "none"
NoHead == [kind |-> "none", name |-> <<>>]
NoRebase == [on |-> FALSE, step |-> 0]
Says(op, of, tip) == [op |-> op, of |-> of, at |-> tip]

Sides == {"Deleted", "Added", "Untracked", "Unmerged", "Modified"}
NoChanges == [side \in Sides |-> 0]

NewGit ==
    [enabled |-> FALSE, isBare |-> FALSE, isWorkTree |-> FALSE,
     head |-> Says("none", "none", NoHead), ref |-> NoHead, detached |-> FALSE,
     merge |-> FALSE, cherryPick |-> FALSE, revert |-> FALSE, rebase |-> NoRebase,
     working |-> NoChanges, staging |-> NoChanges,
     upstream |-> NoRemote, gone |-> FALSE, ahead |-> 0, behind |-> 0,
     branchStatus |-> "none", pushRemote |-> NoRemote, icon |-> "none",
     worktreeCount |-> 0]

-----------------------------------------------------------------------------
(* Where git keeps the state of a work tree, and where the segment looks.  *)
StateDir(layout) == IF layout \in {"linked", "linkedModule"} THEN "worktree" ELSE "common"

(* Mutant: a linked work tree is read where the others are.                *)
MainDirShared(layout) == IF layout = "separate" THEN "root" ELSE "common"

(* isRepo and hasWorktree: mainSCMDir.                                     *)
MainDir(layout) ==
    IF layout = "linked" THEN "worktree" ELSE IF layout = "separate" THEN "root" ELSE "common"

(* The HEAD file of a directory; the common one of a linked work tree      *)
(* belongs to another work tree.                                           *)
HeadFile(dir) ==
    IF dir = "root" THEN NoHead
    ELSE IF repo.reftable THEN [kind |-> "invalid", name |-> <<>>]
    ELSE IF dir = StateDir(repo.layout) THEN repo.head
    ELSE [kind |-> "branch", name |-> <<"elsewhere">>]

(* The files of an operation in progress that lie in a directory.          *)
Picks == repo.op \in {"pick", "revert"}
OperationFiles(dir) ==
    IF dir /= StateDir(repo.layout) THEN {}
    ELSE {file \in {"rebase-merge", "rebase-apply", "MERGE_MSG", "CHERRY_PICK_HEAD", "REVERT_HEAD",
                    "sequencer/todo"} :
            \/ file = "rebase-merge" /\ repo.op = "rebase"
            \/ file = "rebase-apply" /\ repo.op = "apply"
            \/ file = "MERGE_MSG" /\ repo.op \notin {"none", "apply"} /\ ~(Picks /\ repo.committed)
            \/ file = "CHERRY_PICK_HEAD" /\ repo.op = "pick" /\ ~repo.committed
            \/ file = "REVERT_HEAD" /\ repo.op = "revert" /\ ~repo.committed
            \/ file = "sequencer/todo" /\ Picks /\ (repo.more \/ repo.committed)}

HasGitFile(file) == file \in OperationFiles(MainDir(repo.layout))

(* The configuration file lies in the common directory only.               *)
ConfigFound == MainDir(repo.layout) = "common"

(* formatBranch: the first key, in ascending order, that is the branch, is *)
(* "*", or ends in "*" after a prefix of it, is replaced by its value.     *)
FormatBranch(mapped, branch) ==
    LET Applies(key) == IF key.wild THEN IsPrefix(key.words, branch) ELSE key.words = branch
        first == SelectInSeq(mapped, Applies)
        key == mapped[first]
    IN  IF first = 0 THEN branch
        ELSE IF key.words = <<>> THEN key.value
        ELSE key.value \o SubSeq(branch, Len(key.words) + 1, Len(branch))

Shown(head) ==
    IF head.kind = "branch" THEN [head EXCEPT !.name = FormatBranch(options.mappedBranches, @)]
    ELSE head

-----------------------------------------------------------------------------
(* GitStatus.add: the counter of a code, none for one it does not know.    *)
CounterOf(code) ==
    IF code = "D" THEN "Deleted"
    ELSE IF code = "A" THEN "Added"
    ELSE IF code = "?" THEN "Untracked"
    ELSE IF code \in {"U", "AA"} THEN "Unmerged"
    ELSE IF code \in {"M", "R", "C", "m"} THEN "Modified"
    ELSE "none"

(* addToStatus: the code a file adds to the work tree's and to the index's *)
(* counters.  In a merge or a rebase a conflict of two additions is meant  *)
(* to be told apart.                                                       *)
Conflict(g, change) ==
    (g.rebase.on \/ g.merge) /\ change = [x |-> "A", y |-> "A"]
WorkingCode(g, change) == IF Conflict(g, change) THEN "." ELSE change.y
StagingCode(g, change) ==
    IF change.y = "?" THEN "." ELSE IF Conflict(g, change) THEN "AA" ELSE change.x

Counts(codes) ==
    [side \in Sides |-> Cardinality({f \in DOMAIN codes : CounterOf(codes[f]) = side})]
WorkingCodes(g) == [f \in DOMAIN repo.changes |-> WorkingCode(g, repo.changes[f])]
StagingCodes(g) == [f \in DOMAIN repo.changes |-> StagingCode(g, repo.changes[f])]

(* setStatus: the lines of git status --branch --porcelain=2; a bare       *)
(* repository has no work tree and prints none.                            *)
SetStatus(g) ==
    IF repo.layout = "bare" THEN [g EXCEPT !.gone = TRUE]
    ELSE [g EXCEPT
            !.ref = IF repo.head.kind = "branch" THEN repo.head
                    ELSE [kind |-> "detached", name |-> <<>>],
            !.upstream = IF repo.upstream = "none" THEN NoRemote ELSE "origin",
            !.gone = repo.upstream /= "live",
            !.ahead = IF repo.upstream = "live" THEN repo.ahead ELSE 0,
            !.behind = IF repo.upstream = "live" THEN repo.behind ELSE 0,
            !.working = Counts(WorkingCodes(g)),
            !.staging = Counts(StagingCodes(g))]

(* resolveDetachedHEAD: git itself names the commit, or a tag of it.       *)
ResolveDetachedHEAD(g) ==
    LET tip == IF repo.unborn THEN [kind |-> "no commits", name |-> <<>>]
              ELSE IF repo.tagged THEN [kind |-> "tag", name |-> <<"tag">>]
              ELSE [kind |-> "commit", name |-> <<"HEAD">>]
    IN  [g EXCEPT !.ref = tip, !.head = Says("none", "none", tip)]

(* updateHEADReference: HEAD when the status is not fetched.               *)
UpdateHEADReference(g) ==
    LET file == HeadFile(MainDir(repo.layout))
        head == IF file.kind = "invalid" THEN repo.head ELSE file
    IN  IF head.kind = "branch"
        THEN [g EXCEPT !.detached = FALSE, !.ref = head, !.head = Says("none", "none", Shown(head))]
        ELSE ResolveDetachedHEAD([g EXCEPT !.detached = TRUE])

(* What MERGE_MSG says is merged: the message of a merge, and that of a    *)
(* merge commit when one is picked or reverted.                            *)
MergeMessage ==
    IF repo.op = "merge" THEN repo.of
    ELSE IF Picks /\ repo.of = "merge commit" THEN "branch" ELSE "other words"

(* setHEADStatus: where HEAD is ...                                        *)
Located(g) ==
    IF g.ref.kind = "detached" THEN ResolveDetachedHEAD([g EXCEPT !.detached = TRUE])
    ELSE [g EXCEPT !.head = Says("none", "none", Shown(g.ref))]

(* ... and the operation in progress, by the files of git, the directories *)
(* of a rebase first.                                                      *)
SetHEADStatus(g) ==
    LET located == Located(g)
        tip == located.head.at
        merging == [located EXCEPT !.merge = HasGitFile("MERGE_MSG")]
        Told(h, op, of) == [h EXCEPT !.head = Says(op, of, tip)]
        Picking == Told([merging EXCEPT !.cherryPick = TRUE], "pick", "commit")
        Reverting == Told([merging EXCEPT !.revert = TRUE], "revert", "commit")
        Rebasing(op, of) ==
            Told([located EXCEPT !.rebase = [on |-> TRUE, step |-> repo.step]], op, of)
    IN  IF HasGitFile("rebase-merge") THEN Rebasing("rebase", repo.of)
        ELSE IF HasGitFile("rebase-apply") THEN Rebasing("apply", "none")
        ELSE IF HasGitFile("MERGE_MSG") /\ MergeMessage \in {"branch", "tag", "commit"}
        THEN Told(merging, "merge", MergeMessage)
        ELSE IF HasGitFile("CHERRY_PICK_HEAD") THEN Picking
        ELSE IF HasGitFile("REVERT_HEAD") THEN Reverting
        ELSE IF HasGitFile("sequencer/todo")
        THEN IF repo.op = "pick" THEN Picking ELSE Reverting
        ELSE merging

(* setBranchStatus                                                         *)
BranchStatus(g) ==
    IF g.ahead > 0 /\ g.behind > 0 THEN "diverged"
    ELSE IF g.ahead > 0 THEN "ahead"
    ELSE IF g.behind > 0 THEN "behind"
    ELSE IF g.gone THEN "gone"
    ELSE IF g.upstream /= NoRemote THEN "identical"
    ELSE "none"
SetBranchStatus(g) == [g EXCEPT !.branchStatus = BranchStatus(g)]

(* setPushStatus and getPushRemote: the remote the commits are counted     *)
(* against.  Without its configuration file the branch's own is not asked. *)
SetPushStatus(g) ==
    LET named == IF ConfigFound /\ g.ref.kind = "branch" /\ repo.remote.branchPush /= NoRemote THEN repo.remote.branchPush
                 ELSE repo.remote.pushDefault
        fallback == IF g.upstream = NoRemote THEN "origin" ELSE g.upstream
    IN  IF ~options.fetchPush \/ g.ref.kind \in {"none", "detached"} THEN g
        ELSE [g EXCEPT !.pushRemote = IF named = NoRemote THEN fallback ELSE named]

(* getUpstreamIcon: the first icon whose key the url contains, in whatever *)
(* order a map is walked.                                                  *)
UpstreamIcons == IF repo.remote.mentions = {} THEN {"git"} ELSE repo.remote.mentions

(* WorktreeCount, which a template asks for: the work trees the directory  *)
(* lists, and only the common one does.                                    *)
WorktreeCount == IF MainDir(repo.layout) = "common" THEN repo.worktrees ELSE 0

(* getBareRepoInfo                                                         *)
GetBareRepoInfo(g) ==
    LET head == HeadFile(MainDir(repo.layout))
    IN  [g EXCEPT !.ref = head, !.head = Says("none", "none", Shown(head))]

-----------------------------------------------------------------------------
FetchesStatus == options.fetchStatus /\ ~options.ignoreStatus
IsBare == options.fetchBare /\ repo.layout = "bare"

(* Enabled up to git status.                                               *)
BeginEnabled ==
    /\ reading = "idle"
    /\ LET writer == [NewGit EXCEPT !.enabled = TRUE, !.isBare = IsBare,
                                   !.isWorkTree = repo.layout \in {"linked", "linkedModule"}]
       IN  git' = IF ~IsBare /\ FetchesStatus THEN SetStatus(writer) ELSE writer
    /\ reading' = "status"
    /\ quiet' = TRUE
    /\ UNCHANGED <<repo, options, commands>>

(* The rest of Enabled, and what the template asks of the writer.          *)
EndEnabled ==
    /\ reading = "status"
    /\ LET told == IF git.isBare THEN GetBareRepoInfo(git)
                   ELSE IF FetchesStatus
                   THEN SetPushStatus(SetBranchStatus(SetHEADStatus(git)))
                   ELSE UpdateHEADReference(git)
       IN  \E icon \in (IF options.fetchIcon THEN UpstreamIcons ELSE {"none"}) :
               git' = [told EXCEPT !.icon = icon, !.worktreeCount = WorktreeCount]
    /\ reading' = "done"
    /\ UNCHANGED <<repo, options, quiet, commands>>

-----------------------------------------------------------------------------
(* What the user does with git between and during executions.              *)
Runs(changed) ==
    /\ commands < MaxCommands
    /\ commands' = commands + 1
    /\ repo' = changed
    /\ quiet' = FALSE
    /\ reading' = IF reading = "done" THEN "idle" ELSE reading
    /\ git' = IF reading = "done" THEN NewGit ELSE git
    /\ UNCHANGED options

WorkTree == repo.layout /= "bare"
Resting == repo.op = "none" /\ ~repo.unborn /\ WorkTree

Switch ==
    /\ Resting
    /\ \E head \in {[kind |-> "branch", name |-> b] : b \in Branches}
                   \cup {[kind |-> "detached", name |-> <<>>]} :
           Runs([repo EXCEPT !.head = head, !.tagged = FALSE])

Change ==
    /\ WorkTree
    /\ \E changed \in SUBSET Files : \E codes \in [changed -> Changes] :
           Runs([repo EXCEPT !.changes = codes])

Commit ==
    /\ repo.op = "none" /\ WorkTree
    /\ Runs([repo EXCEPT !.unborn = FALSE, !.tagged = FALSE,
                         !.changes = [f \in {} |-> NoHead],
                         !.ahead = IF repo.upstream = "live" THEN 1 ELSE 0])

Tag == Resting /\ Runs([repo EXCEPT !.tagged = TRUE])

(* An operation stops at a conflict of two additions.                      *)
Stop(changed) ==
    /\ Resting
    /\ Runs([changed EXCEPT !.changes = [f \in Files |-> [x |-> "A", y |-> "A"]]])
StopMerge == \E of \in {"branch", "tag", "commit", "other words"} :
    Stop([repo EXCEPT !.op = "merge", !.of = of])
StopRebase == \E op \in {"rebase", "apply"} :
    Stop([repo EXCEPT !.op = op, !.of = "branch", !.step = 1, !.back = repo.head, !.tagged = FALSE,
                      !.head = [kind |-> "detached", name |-> <<>>]])
StopPick == \E op \in {"pick", "revert"}, of \in {"commit", "merge commit"}, more \in BOOLEAN :
    Stop([repo EXCEPT !.op = op, !.of = of, !.more = more, !.committed = FALSE])

NextStep ==
    /\ repo.op \in {"rebase", "apply"} /\ repo.step < MaxSteps
    /\ Runs([repo EXCEPT !.step = @ + 1])

CommitInTheMiddle ==
    /\ repo.op \in {"pick", "revert"} /\ repo.more /\ ~repo.committed
    /\ Runs([repo EXCEPT !.committed = TRUE, !.changes = [f \in {} |-> NoHead]])

EndOperation ==
    /\ repo.op /= "none"
    /\ Runs([repo EXCEPT !.op = "none", !.of = "none", !.step = 0, !.more = FALSE,
                         !.committed = FALSE, !.changes = [f \in {} |-> NoHead],
                         !.back = NoHead,
                         !.head = IF repo.op \in {"rebase", "apply"} THEN repo.back ELSE @])

(* git fetch, push, a branch deleted at the remote, stash.                 *)
Remote ==
    \E upstream \in {"none", "gone", "live"}, ahead, behind \in 0 .. 1 :
        /\ Resting /\ upstream /= "live" => ahead = 0 /\ behind = 0
        /\ Runs([repo EXCEPT !.upstream = upstream, !.ahead = ahead, !.behind = behind])

GitInit ==
    /\ options \in Options
    /\ \E layout \in Layouts, unborn, reftable \in BOOLEAN, b \in Branches,
          remote \in Remotes :
           repo = [layout |-> layout, unborn |-> unborn, reftable |-> reftable,
                   head |-> [kind |-> "branch", name |-> b], back |-> NoHead, tagged |-> FALSE,
                   op |-> "none", of |-> "none", step |-> 0, more |-> FALSE, committed |-> FALSE,
                   changes |-> [f \in {} |-> NoHead], upstream |-> "none", ahead |-> 0, behind |-> 0,
                   remote |-> remote,
                   worktrees |-> IF layout \in {"linked", "linkedModule"} THEN 1 ELSE 0]
    /\ git = NewGit
    /\ reading = "idle"
    /\ quiet = TRUE
    /\ commands = 0

GitNext ==
    \/ BeginEnabled \/ EndEnabled
    \/ Switch \/ Change \/ Commit \/ Tag \/ Remote
    \/ StopMerge \/ StopRebase \/ StopPick \/ NextStep \/ CommitInTheMiddle \/ EndOperation

GitSpec == GitInit /\ [][GitNext]_gitVars

-----------------------------------------------------------------------------
Undisturbed == reading = "done" /\ quiet

(* The work trees whose own files the segment reads: not one with a        *)
(* separate git directory, nor a linked one of a submodule.                *)
ReadsOwnFiles == repo.layout \notin {"separate", "linkedModule"}

(* The operation a prompt can tell of: a merge under a message of the      *)
(* user's own is not recognised, and the message of a merge commit that is *)
(* picked or reverted is taken for a merge.                                *)
Tellable ==
    IF repo.op = "merge" /\ repo.of = "other words" THEN "none"
    ELSE IF Picks /\ repo.of = "merge commit" /\ ~repo.committed THEN "merge"
    ELSE repo.op

(* An execution no command disturbed tells where HEAD is and which         *)
(* operation is in progress, in every layout whose files it reads.         *)
HeadTellsTheState ==
    Undisturbed /\ ReadsOwnFiles /\ (WorkTree \/ (IsBare /\ ~repo.reftable)) =>
        LET tip == git.head.at
            op == IF FetchesStatus /\ WorkTree THEN Tellable ELSE "none"
        IN  /\ repo.head.kind = "branch" => tip = Shown(repo.head) /\ ~git.detached
            /\ repo.head.kind = "detached" =>
                  git.detached /\ tip.kind = (IF repo.tagged THEN "tag" ELSE "commit")
            /\ git.head.op = op
            /\ git.rebase.on <=> op \in {"rebase", "apply"}
            /\ git.rebase.on => git.rebase.step = repo.step
            /\ git.cherryPick <=> op = "pick"
            /\ git.revert <=> op = "revert"

Total(counts) ==
    counts["Deleted"] + counts["Added"] + counts["Untracked"] + counts["Unmerged"]
        + counts["Modified"]
Differing(codes) == Cardinality({f \in DOMAIN codes : codes[f] \notin {".", "T"}})

(* git status tells what differs: every changed file is counted once in    *)
(* the index and once in the work tree, where it differs there, but for a  *)
(* change of type; and the branch's status tells of its upstream.          *)
StatusTellsTheChanges ==
    Undisturbed /\ FetchesStatus /\ WorkTree =>
        LET changes == repo.changes
        IN  /\ Total(git.working) = Differing([f \in DOMAIN changes |-> changes[f].y])
            /\ Total(git.staging) =
                  Differing([f \in DOMAIN changes |->
                                IF changes[f].y = "?" THEN "." ELSE changes[f].x])
            /\ git.branchStatus = "identical" <=>
                  repo.upstream = "live" /\ repo.ahead = 0 /\ repo.behind = 0
            /\ git.branchStatus = "gone" <=> repo.upstream /= "live"

(* What an undisturbed execution says of HEAD, of the operation in         *)
(* progress, of the changes and of the upstream is so.                     *)
SegmentTellsTheRepository == HeadTellsTheState /\ StatusTellsTheChanges
=============================================================================
