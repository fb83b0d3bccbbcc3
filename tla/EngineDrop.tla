------------------------------ MODULE EngineDrop ------------------------------
(***************************************************************************)
(* The host side of the engine's write-back (tools/engine_drop.py).  The   *)
(* engine changes and commits files in a staging worktree, one round at a  *)
(* time; a sweep collects the round: it fetches, builds a drop from what   *)
(* differs from origin/master, runs the gates, opens a pull request from a *)
(* worktree of its own, and takes the staging worktree back to             *)
(* origin/master.  An operator may apply a drop by hand; any command may   *)
(* fail or be killed at any step.                                          *)
(***************************************************************************)
EXTENDS Naturals, Functions

CONSTANTS
    Paths,
    MaxEdits,     \* bound: how many files the engine writes
    MaxSweeps,    \* bound: how many sweeps and applies are run
    Original,     \* what a file holds at first
    Upstream,     \* what a change upstream makes of it
    MissingFile,  \* there is no such file
    RefusedDrop   \* a link, a directory, or a file G3 forbids

Edits    == 1..MaxEdits
Contents == Edits \cup {Original, Upstream, MissingFile, RefusedDrop}
Trees    == [Paths -> Contents]

ASSUME EngineDropAssumption ==
    /\ MaxEdits \in Nat /\ MaxSweeps \in Nat
    /\ {Original, Upstream, MissingFile, RefusedDrop} \cap Nat = {}

NoFiles == [p \in {} |-> Original]

VARIABLES
    master,       \* the tree of master upstream
    base,         \* origin/master, as it was last fetched
    head,         \* the tree of the staging worktree's HEAD
    workingTree,  \* the files of the staging worktree
    title,        \* the title of its newest commit ahead of origin/master, or none
    note,         \* the first line of .drop-description
    drops,        \* the drop directories, by the files they hold (content addressed)
    manifests,    \* those with a MANIFEST.json
    branches,     \* the drops whose branch exists
    worktrees,    \* the drops whose apply worktree exists
    pulls,        \* the pull requests, by the files they change
    dropStep,     \* the step of the command under way
    dropCmd,      \* that command
    drop,         \* the drop it works on
    sweeps,       \* how many were started
    edited,       \* history: the engine's last edit of a path, if no sweep was past it
    edits         \* how many there were

staging == <<head, workingTree, title, note, edited, edits>>
remote  == <<master, base>>
store   == <<drops, manifests, branches, worktrees, pulls>>
dropVars == <<remote, staging, store, dropStep, dropCmd, drop, sweeps>>

Described == {"none", "good", "bad"}

EngineDropTypeOK ==
    /\ {master, base, head, workingTree} \subseteq Trees
    /\ title \in Described /\ note \in Described
    /\ \A d \in drops \cup {drop} : DOMAIN d \subseteq Paths
    /\ manifests \subseteq drops /\ branches \subseteq drops
    /\ worktrees \subseteq branches /\ pulls \subseteq branches
    /\ dropStep \in {"idle", "look", "stage", "copy", "gates", "add", "commit", "push",
                     "open", "remove ok", "remove failed", "recycle"}
    /\ dropCmd \in {"none", "sweep", "sweep --apply", "apply", "apply --dry-run"}
    /\ sweeps \in 0..MaxSweeps
    /\ edited \in [Paths -> Contents] /\ edits \in 0..MaxEdits

-----------------------------------------------------------------------------
(* The engine's round, and master upstream, which is read by a sweep's fetch alone. *)

\* Bound: while another sweep may follow.
BetweenSweeps == dropStep = "idle" /\ sweeps < MaxSweeps

\* A sweep that has read the worktree recycles it whatever is written meanwhile.
Overtaken == dropCmd = "sweep --apply" /\ dropStep \notin {"look", "stage"}

\* The timer of the sweep does not wait for the engine.  (The digest and the copy
\* that follows it see the same files: nothing is written at step copy.)
EngineEdits(p) ==
    /\ BetweenSweeps \/ dropStep \notin {"idle", "copy"}
    /\ edits < MaxEdits
    /\ edits' = edits + 1
    /\ \E c \in {edits', MissingFile, RefusedDrop} \ {workingTree[p]} :
          /\ workingTree' = [workingTree EXCEPT ![p] = c]
          /\ edited' = [edited EXCEPT ![p] = IF Overtaken THEN Original ELSE c]
    /\ UNCHANGED <<remote, head, title, note, store, dropStep, dropCmd, drop, sweeps>>

EngineCommits ==
    /\ BetweenSweeps \/ dropStep \notin {"idle", "copy"}
    /\ head # workingTree
    /\ head' = workingTree
    /\ title' \in {"good", "bad"}
    /\ UNCHANGED <<remote, workingTree, note, edited, edits, store, dropStep, dropCmd, drop, sweeps>>

EngineDescribes ==
    /\ BetweenSweeps
    /\ note = "none" /\ workingTree # head
    /\ note' \in {"good", "bad"}
    /\ UNCHANGED <<remote, head, workingTree, title, edited, edits, store, dropStep, dropCmd, drop,
                   sweeps>>

MasterMoves(p) ==
    /\ BetweenSweeps
    /\ master[p] = Original
    /\ master' = [master EXCEPT ![p] = Upstream]
    /\ UNCHANGED <<base, staging, store, dropStep, dropCmd, drop, sweeps>>

-----------------------------------------------------------------------------
DropSweepEnds == dropStep' = "idle" /\ dropCmd' = "none" /\ drop' = NoFiles
Goes2(step) == dropStep' = step /\ UNCHANGED <<dropCmd, drop>>

\* A command that fails, or is killed, here leaves what it has done.
CutAt(step) == dropStep = step /\ DropSweepEnds /\ UNCHANGED <<remote, staging, store, sweeps>>

(* _sweep_one *)

StartDropSweep ==
    /\ dropStep = "idle"
    /\ sweeps < MaxSweeps
    /\ sweeps' = sweeps + 1
    /\ \/ /\ base' = master
          /\ dropStep' = "look" /\ drop' = NoFiles
          /\ dropCmd' \in {"sweep", "sweep --apply"}
       \/ UNCHANGED base /\ DropSweepEnds               \* fetch-failed
    /\ UNCHANGED <<master, staging, store>>

\* The title of the newest commit ahead, else .drop-description.
Description == IF title # "none" THEN title ELSE note

LookAround ==
    /\ dropStep = "look"
    /\ IF (workingTree # head \/ title # "none") /\ Description = "good"
       THEN Goes2("stage") ELSE DropSweepEnds
    /\ UNCHANGED <<remote, staging, store, sweeps>>

\* stage_worktree: git status entries and git diff --name-only against the base.
Porcelain == {p \in Paths : workingTree[p] # head[p]}
DiffNames == {p \in Paths : workingTree[p] # base[p]}
Changed   == {p \in Porcelain \cup DiffNames : workingTree[p] # MissingFile}

Stage ==
    /\ dropStep = "stage"
    /\ LET files == Restrict(workingTree, Changed)
           refused == \E p \in Changed : workingTree[p] = RefusedDrop
       IN  IF Changed = {} \/ refused \/ files \in drops
           THEN DropSweepEnds /\ UNCHANGED drops
           ELSE /\ drops' = drops \cup {files}
                /\ drop' = files
                /\ dropStep' = "copy"
                /\ UNCHANGED dropCmd
    /\ UNCHANGED <<remote, staging, manifests, branches, worktrees, pulls, sweeps>>

Copy ==
    /\ dropStep = "copy"
    /\ manifests' = manifests \cup {drop}
    /\ Goes2("gates")
    /\ UNCHANGED <<remote, staging, drops, branches, worktrees, pulls, sweeps>>

CopyFails ==
    /\ dropStep = "copy"
    /\ drops' = drops \ {drop}
    /\ DropSweepEnds
    /\ UNCHANGED <<remote, staging, manifests, branches, worktrees, pulls, sweeps>>

(* apply_drop, by a sweep or by hand *)

StartApply(d) ==
    /\ dropStep = "idle"
    /\ sweeps < MaxSweeps
    /\ sweeps' = sweeps + 1
    /\ \E c \in {"apply", "apply --dry-run"} : dropCmd' = c
    /\ drop' = d
    /\ dropStep' = "gates"
    /\ UNCHANGED <<remote, staging, store>>

\* G1: an engine branch is used once.  The other gates look at the drop alone.
GatesPass == drop \in manifests /\ drop \notin branches

Gates ==
    /\ dropStep = "gates"
    /\ IF GatesPass /\ dropCmd # "sweep" THEN Goes2("add") ELSE DropSweepEnds
    /\ UNCHANGED <<remote, staging, store, sweeps>>

AddWorktree ==
    /\ dropStep = "add"
    /\ IF drop \in worktrees
       THEN DropSweepEnds /\ UNCHANGED <<branches, worktrees>>
       ELSE /\ branches' = branches \cup {drop}
            /\ worktrees' = worktrees \cup {drop}
            /\ Goes2("commit")
    /\ UNCHANGED <<remote, staging, drops, manifests, pulls, sweeps>>

\* G7: what is staged must be what the manifest declares.
Staged == {p \in DOMAIN drop : base[p] # drop[p]}

Commit ==
    /\ dropStep = "commit"
    /\ \/ /\ Staged = DOMAIN drop
          /\ Goes2(IF dropCmd = "apply --dry-run" THEN "remove ok" ELSE "push")
       \/ Goes2("remove failed")         \* another tree, a limit, a copy or a commit
    /\ UNCHANGED <<remote, staging, store, sweeps>>

PushUpstream ==
    /\ dropStep = "push"
    /\ Goes2("open") \/ Goes2("remove failed")
    /\ UNCHANGED <<remote, staging, store, sweeps>>

OpenPull ==
    /\ dropStep = "open"
    /\ \/ pulls' = pulls \cup {drop} /\ Goes2("remove ok")
       \/ UNCHANGED pulls /\ Goes2("remove failed")        \* pushed-no-pr
    /\ UNCHANGED <<remote, staging, drops, manifests, branches, worktrees, sweeps>>

\* finally: the worktree goes, the branch stays.
RemoveWorktree(outcome) ==
    /\ dropStep = outcome
    /\ worktrees' = worktrees \ {drop}
    /\ IF outcome = "remove ok" /\ dropCmd = "sweep --apply" THEN Goes2("recycle") ELSE DropSweepEnds
    /\ UNCHANGED <<remote, staging, drops, manifests, branches, pulls, sweeps>>

\* git reset --hard origin/master, git clean -fd.
Recycle ==
    /\ dropStep = "recycle"
    /\ head' = base
    /\ workingTree' = base
    /\ title' = "none" /\ note' = "none"
    /\ DropSweepEnds
    /\ UNCHANGED <<remote, edited, edits, store, sweeps>>

Killed == \E step \in {"look", "stage", "copy", "gates", "add", "commit", "push", "open",
                       "remove ok", "remove failed", "recycle"} : CutAt(step)

-----------------------------------------------------------------------------
EngineDropInit ==
    /\ master = [p \in Paths |-> Original]
    /\ base = master /\ head = master /\ workingTree = master
    /\ title = "none" /\ note = "none"
    /\ drops = {} /\ manifests = {} /\ branches = {} /\ worktrees = {} /\ pulls = {}
    /\ dropStep = "idle" /\ dropCmd = "none" /\ drop = NoFiles
    /\ sweeps = 0
    /\ edited = [p \in Paths |-> Original] /\ edits = 0

EngineDropNext ==
    \/ \E p \in Paths : EngineEdits(p) \/ MasterMoves(p)
    \/ EngineCommits \/ EngineDescribes
    \/ StartDropSweep \/ LookAround \/ Stage \/ Copy \/ CopyFails
    \/ \E d \in drops : StartApply(d)
    \/ Gates \/ AddWorktree \/ Commit \/ PushUpstream \/ OpenPull
    \/ \E outcome \in {"remove ok", "remove failed"} : RemoveWorktree(outcome)
    \/ Recycle \/ Killed

EngineDropSpec == EngineDropInit /\ [][EngineDropNext]_dropVars

-----------------------------------------------------------------------------
Pulled(p, c) == \E d \in pulls : p \in DOMAIN d /\ d[p] = c

(* What the engine last wrote to a file is in its worktree until it is in a *)
(* pull request: no failure of a step recycles the worktree too early, and  *)
(* what was committed ahead is collected with what was not (_sweep_one).    *)
(* An edit that a sweep overtakes, made after its look at the worktree, is  *)
(* reset away with it, and not claimed.                                     *)
ContentSurvives ==
    \A p \in Paths : edited[p] \in Edits => workingTree[p] = edited[p] \/ Pulled(p, edited[p])
=============================================================================
