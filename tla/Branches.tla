------------------------------ MODULE Branches ------------------------------
(***************************************************************************)
(* The branches of one repository: worktrees are made and removed for them *)
(* (vcs/worktree.py), developers commit, merge and squash-merge, and the   *)
(* sweep deletes the branches that have nothing of their own left          *)
(* (vcs/branch_sweep.py).  A file's content is a number: each edit makes a *)
(* new one.                                                                *)
(***************************************************************************)
EXTENDS Naturals, FiniteSets

CONSTANTS
    Topics,        \* names of branches that may be made
    Tracked,       \* the files of the repository
    QuotedPaths,   \* those whose names git quotes all the same (a tab, a quote): core.quotepath
    PatchName,     \* [Topics -> patch file names]: "/" becomes "__"
    NoBranch,
    MaxContents,   \* bound: contents ever written
    MaxBranchSweeps

ASSUME BranchesAssumption ==
    /\ Topics \subseteq DOMAIN PatchName
    /\ NoBranch \notin Topics
    /\ QuotedPaths \subseteq Tracked
    /\ MaxContents \in Nat /\ MaxBranchSweeps \in Nat

VARIABLES
    baseBranch,     \* what master has
    onBase,         \* history: what master ever had
    topicBranches,  \* name -> the tip's content, the content at the merge base, the upstream
    checkedOut,     \* the branches that are current or in a worktree
    written,        \* the contents made so far
    broom,          \* the sweep: its step, the listing it works from, the branch in hand, and
                    \* (history) whether git could not say what that branch touched
    patches,        \* the backup directory: patch file -> the branch and the tip in it
    branchSweeps

branchVars == <<baseBranch, onBase, topicBranches, checkedOut, written, broom, patches, branchSweeps>>

FileContents == 0..MaxContents
Tree == [Tracked -> FileContents]
Branch == [tip : Tree, fork : Tree, upstream : {"none", "alive", "gone"}]

BranchesTypeOK ==
    /\ baseBranch \in Tree
    /\ onBase \in [Tracked -> SUBSET FileContents]
    /\ DOMAIN topicBranches \subseteq Topics
    /\ \A b \in DOMAIN topicBranches : topicBranches[b] \in Branch
    /\ checkedOut \subseteq DOMAIN topicBranches
    /\ written \in FileContents
    /\ broom.step \in {"idle", "next", "patch", "delete"}
    /\ DOMAIN broom.listed \subseteq Topics /\ broom.busy \subseteq Topics
    /\ broom.branch \in Topics \cup {NoBranch} /\ broom.unread \in BOOLEAN
    /\ branchSweeps \in 0..MaxBranchSweeps

RestOf(b) == [x \in DOMAIN topicBranches \ {b} |-> topicBranches[x]]
Put(b, r) == [x \in DOMAIN topicBranches \cup {b} |-> IF x = b THEN r ELSE topicBranches[x]]

-----------------------------------------------------------------------------
(* The developers.                                                          *)

\* worktree-create: a new branch of the fetched base, or, where there is one already, nothing.
WorktreeCreate(b) ==
    /\ b \notin DOMAIN topicBranches
    /\ topicBranches' = Put(b, [tip |-> baseBranch, fork |-> baseBranch, upstream |-> "none"])
    /\ checkedOut' = checkedOut \cup {b}
    /\ UNCHANGED <<baseBranch, onBase, written, broom, patches, branchSweeps>>

\* worktree-remove --force and prune: the branch stays.
WorktreeRemove(b) ==
    /\ b \in checkedOut
    /\ checkedOut' = checkedOut \ {b}
    /\ UNCHANGED <<baseBranch, onBase, topicBranches, written, broom, patches, branchSweeps>>

CommitTo(b, f) ==
    /\ b \in DOMAIN topicBranches
    /\ written < MaxContents
    /\ written' = written + 1
    /\ topicBranches' = [topicBranches EXCEPT ![b].tip[f] = written + 1]
    /\ UNCHANGED <<baseBranch, onBase, checkedOut, broom, patches, branchSweeps>>

PushBranch(b) ==
    /\ b \in DOMAIN topicBranches
    /\ topicBranches[b].upstream = "none"
    /\ topicBranches' = [topicBranches EXCEPT ![b].upstream = "alive"]
    /\ UNCHANGED <<baseBranch, onBase, checkedOut, written, broom, patches, branchSweeps>>

\* The pull request is merged or squashed, or closed unmerged, and its remote branch deleted.
Touched(b) == {f \in Tracked : topicBranches[b].tip[f] # topicBranches[b].fork[f]}

PullEnds(b) ==
    /\ b \in DOMAIN topicBranches
    /\ topicBranches[b].upstream = "alive"
    /\ \/ /\ baseBranch' = [f \in Tracked |-> IF f \in Touched(b) THEN topicBranches[b].tip[f] ELSE baseBranch[f]]
          /\ \E merged \in BOOLEAN :
                topicBranches' = [topicBranches EXCEPT ![b].upstream = "gone",
                                             ![b].fork = IF merged THEN topicBranches[b].tip ELSE @]
       \/ baseBranch' = baseBranch /\ topicBranches' = [topicBranches EXCEPT ![b].upstream = "gone"]
    /\ onBase' = [f \in Tracked |-> onBase[f] \cup {baseBranch'[f]}]
    /\ UNCHANGED <<checkedOut, written, broom, patches, branchSweeps>>

MasterCommits(f) ==
    /\ written < MaxContents
    /\ written' = written + 1
    /\ baseBranch' = [baseBranch EXCEPT ![f] = written + 1]
    /\ onBase' = [onBase EXCEPT ![f] = @ \cup {written + 1}]
    /\ UNCHANGED <<topicBranches, checkedOut, broom, patches, branchSweeps>>

-----------------------------------------------------------------------------
(* sweep_repo --apply.                                                      *)

StartBroom ==
    /\ broom.step = "idle"
    /\ branchSweeps < MaxBranchSweeps
    /\ branchSweeps' = branchSweeps + 1
    /\ broom' = [step |-> "next", listed |-> topicBranches, busy |-> checkedOut, branch |-> NoBranch,
                  unread |-> FALSE]
    /\ UNCHANGED <<baseBranch, onBase, topicBranches, checkedOut, written, patches>>

\* _upstream_gone: the listing's word, or the ref is gone by now.
UpstreamGone(b) ==
    \/ broom.listed[b].upstream \in {"none", "gone"}
    \/ topicBranches[b].upstream # "alive"

(* A quoted name is handed back to git as it was printed, and as a path it   *)
(* matches nothing: no difference.                                          *)
FileIdentical(b, f) == f \in QuotedPaths \/ topicBranches[b].tip[f] = baseBranch[f]

(* _touched_files does not ask whether git diff succeeded: where there is no *)
(* merge base, or no such base, or git fails, the branch touches no file.   *)
TouchedFiles(b, failed) == IF failed THEN {} ELSE Touched(b)

\* An ancestor of base touches no file: fork and tip are one.
NothingOfItsOwn(b, failed) == \A f \in TouchedFiles(b, failed) : FileIdentical(b, f)

PickBranch(b, failed) ==
    /\ broom.step = "next"
    /\ b \in DOMAIN broom.listed
    /\ LET rest == [x \in DOMAIN broom.listed \ {b} |-> broom.listed[x]]
           keep == \/ b \notin DOMAIN topicBranches
                   \/ b \in broom.busy
                   \/ ~UpstreamGone(b)
                   \/ ~NothingOfItsOwn(b, failed)
       IN  broom' = IF keep THEN [broom EXCEPT !.listed = rest]
                            ELSE [broom EXCEPT !.step = "patch", !.branch = b, !.unread = failed]
    /\ UNCHANGED <<baseBranch, onBase, topicBranches, checkedOut, written, patches, branchSweeps>>

\* The tip's name, then the text of the diff, which is empty where git fails.
WritePatch ==
    /\ broom.step = "patch"
    /\ broom.branch \in DOMAIN topicBranches
    /\ LET name == PatchName[broom.branch]
       IN  patches' = [x \in DOMAIN patches \cup {name} |->
                         IF x = name THEN [of |-> broom.branch, tip |-> topicBranches[broom.branch].tip]
                                     ELSE patches[x]]
    /\ broom' = [broom EXCEPT !.step = "delete"]
    /\ UNCHANGED <<baseBranch, onBase, topicBranches, checkedOut, written, branchSweeps>>

\* git branch -D refuses what a worktree has checked out meanwhile.
DeleteBranch ==
    /\ broom.step = "delete"
    /\ topicBranches' = IF broom.branch \in checkedOut THEN topicBranches ELSE RestOf(broom.branch)
    /\ broom' = [broom EXCEPT !.step = "next", !.branch = NoBranch,
                              !.listed = [x \in DOMAIN broom.listed \ {broom.branch} |->
                                             broom.listed[x]]]
    /\ UNCHANGED <<baseBranch, onBase, checkedOut, written, patches, branchSweeps>>

EndBroom ==
    /\ broom.step = "next" /\ DOMAIN broom.listed = {}
    /\ broom' = [broom EXCEPT !.step = "idle"]
    /\ UNCHANGED <<baseBranch, onBase, topicBranches, checkedOut, written, patches, branchSweeps>>

-----------------------------------------------------------------------------
Empty == [x \in {} |-> x]

BranchesInit ==
    /\ baseBranch = [f \in Tracked |-> 0]
    /\ onBase = [f \in Tracked |-> {0}]
    /\ topicBranches = Empty /\ checkedOut = {} /\ written = 0
    /\ broom = [step |-> "idle", listed |-> Empty, busy |-> {}, branch |-> NoBranch, unread |-> FALSE]
    /\ patches = Empty /\ branchSweeps = 0

BranchesNext ==
    \/ \E b \in Topics : WorktreeCreate(b) \/ WorktreeRemove(b) \/ PushBranch(b) \/ PullEnds(b)
    \/ \E b \in Topics, failed \in BOOLEAN : PickBranch(b, failed)
    \/ \E b \in Topics, f \in Tracked : CommitTo(b, f)
    \/ \E f \in Tracked : MasterCommits(f)
    \/ StartBroom \/ WritePatch \/ DeleteBranch \/ EndBroom

BranchesSpec == BranchesInit /\ [][BranchesNext]_branchVars

-----------------------------------------------------------------------------
(* The sweep deletes no work: of a branch it deletes, and to which nothing  *)
(* was committed since the sweep listed it, master had every touched file   *)
(* as the branch has it, though master and the branch's pull request moved  *)
(* meanwhile (sweep_repo).  Where git could not say what the branch touched, *)
(* and for files whose names it quotes, that is not so; but in every case   *)
(* the patch in the backup names the commit that was lost.                  *)
SweptWorkKept ==
    \A b \in DOMAIN topicBranches \ DOMAIN topicBranches' :
       topicBranches[b].tip = broom.listed[b].tip =>
           /\ PatchName[b] \in DOMAIN patches
           /\ patches[PatchName[b]] = [of |-> b, tip |-> topicBranches[b].tip]
           /\ ~broom.unread =>
                 \A f \in Touched(b) \ QuotedPaths : topicBranches[b].tip[f] \in onBase[f]

SweptWorkIsKept == [][SweptWorkKept]_branchVars
=============================================================================
