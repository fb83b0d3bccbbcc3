------------------------------ MODULE RepoInit ------------------------------
(***************************************************************************)
(* celestia-devtools init (repo/init.py) and its commit-msg hook           *)
(* (vcs/hook.py): what the command stages into a checkout, the caller      *)
(* workflows it generates from its templates at a pinned ref, and the gate *)
(* (--check) that says whether a checkout carries them.  The package moves *)
(* on too: each release brings another common.just and another anchor, and *)
(* some change a template.                                                 *)
(* Then the two audits over what init generates: ci-audit                  *)
(* (ci/workflow_audit.py) reads the workflow files of one checkout, and    *)
(* fleet-audit (repo/fleet_audit.py) reads the callers at the remote branch *)
(* of every checkout of a workspace, here of one.                          *)
(***************************************************************************)
EXTENDS Naturals, Sequences

CONSTANTS
    Anchors,       \* PINNED_DEVTOOLS_REF of each release, in the order they come out
    TemplateChanges, \* the sets of templates that a release may change
    MaxRepoEdits,  \* bound: edits by the people of the repository
    MaxInits,      \* bound: runs of the commands
    NoText         \* there is no such file

ASSUME RepoInitAssumption ==
    /\ Anchors \in Seq(STRING) /\ Anchors # <<>>
    /\ MaxRepoEdits \in Nat /\ MaxInits \in Nat

(* REQUIRED_WORKFLOWS, of which the third is like the second, and the gates, *)
(* in the order in which they are written.                                  *)
Required  == {"commit-msg-lint", "ci-cache"}
OptIn     == {"p0"}                           \* OPT_IN_GATES
Later(n)  == CASE n = "commit-msg-lint" -> {"ci-cache", "p0"}
               [] n = "ci-cache"        -> {"p0"}
               [] OTHER                 -> {}
FileNames == Required \cup OptIn \cup {"other"}
Floating  == {"master", "main"}
Pins      == {Anchors[i] : i \in DOMAIN Anchors}

ASSUME TemplateChangesAssumption == TemplateChanges \subseteq SUBSET (Required \cup OptIn)

(* A caller workflow: the template it comes from and which edition of it, the *)
(* ref of its uses: line, the devtools-ref it passes on, what was done to the *)
(* text since, and whether it has a second job, a floating one, written as a  *)
(* flow mapping.                                                              *)
Forms == {"exact", "comment", "edited", "callee", "flow", "broken", "legacy"}
Texts == [template : Required \cup OptIn, edition : Nat, ref : Pins \cup Floating,
          input : Pins \cup Floating \cup {"none"}, form : Forms, also : BOOLEAN]

ASSUME NoTextAssumption == NoText \notin Texts

VARIABLES
    release,    \* the release of the package that is installed
    edition,    \* the edition of each template in that release
    work,       \* the workflow files of the checkout
    staged,     \* the release whose common.just is in .just/, 0 for none
    ignored,    \* whether .gitignore carries the rules
    justfile,   \* what the repository's own justfile holds that it should not
    hook,       \* the commit-msg hook
    initRun,    \* how the last init or hook command ended, and (history) which callers
                \* it found under the name of another only
    repoEdits, initRuns

checkoutVars == <<work, staged, ignored, justfile, hook>>
repoInitVars == <<release, edition, work, staged, ignored, justfile, hook, initRun, repoEdits, initRuns>>

Baseline == Anchors[release]

RenderCaller(t, ref) ==
    [template |-> t, edition |-> edition[t], ref |-> ref, input |-> IF ref = "master" THEN "none" ELSE ref,
     form |-> "exact", also |-> FALSE]

\* devtools_refs_in reads lines that begin with uses:, so no flow mapping.
RefsIn(x) == IF x.form = "flow" THEN {} ELSE {x.ref}

\* Variant: bytes at another pin count as edited.
CallerRenderState_OnePin(x, t) == IF x = RenderCaller(t, Baseline) THEN "clean" ELSE "drifted"

CallerRenderState(x, t) ==
    CASE x = RenderCaller(t, Baseline) -> "clean"
      [] x # RenderCaller(t, Baseline) /\ (\E ref \in RefsIn(x) : x = RenderCaller(t, ref)) ->
            IF x.ref = "master" THEN "master" ELSE "stale"
      [] OTHER -> "drifted"

\* A trigger of the parsed document, so nothing that cannot be parsed.
IsCalleeDefinition(x) == x.form = "callee"

CanonicalAlias(files, text, name) ==
    \E m \in FileNames \ {name} : files[m] = text

\* workflow_drift_problems: the mandatory callers that are missing or drifted.
DriftProblems(files) ==
    {n \in Required :
        IF files[n] = NoText THEN ~CanonicalAlias(files, RenderCaller(n, Baseline), n)
        ELSE /\ ~IsCalleeDefinition(files[n])
             /\ CallerRenderState(files[n], n) = "drifted"}

PinWarnings(files) ==
    {n \in FileNames : /\ files[n] # NoText
                       /\ ~IsCalleeDefinition(files[n])
                       /\ IF n = "other" THEN "master" \in RefsIn(files[n])
                          ELSE CallerRenderState(files[n], n) \in {"master", "stale"}}

OptInWarnings(files) ==
    {n \in OptIn : /\ files[n] # NoText
                   /\ ~IsCalleeDefinition(files[n])
                   /\ CallerRenderState(files[n], n) = "drifted"}

CheckOk ==
    /\ staged = release /\ ignored
    /\ DriftProblems(work) = {} /\ justfile = {}

-----------------------------------------------------------------------------
(* The hook: ours and current, ours of another installation, noa's, or one  *)
(* the repository wrote itself.                                             *)
Hooks == {"none", "ours", "ours elsewhere", "noa", "own"}
HookInstalls(force) == force \/ hook \in {"none", "ours", "ours elsewhere"}

StartInit == initRuns < MaxInits /\ initRuns' = initRuns + 1
NoRun == [did |-> "none", exit |-> 0, parked |-> {}]
Ended(did, exit) == initRun' = [NoRun EXCEPT !.did = did, !.exit = exit]

\* Variant: --force leaves what is there.
EnsuredOne_Missing(files, n, force, ref) ==
    IF files[n] = NoText THEN [files EXCEPT ![n] = RenderCaller(n, ref)] ELSE files

\* One file: an alias counts as it stands by then, though a later file may overwrite it.
EnsuredOne(files, n, force, ref) ==
    IF /\ files[n] # NoText => force
       /\ files[n] = NoText => ~CanonicalAlias(files, RenderCaller(n, ref), n)
    THEN [files EXCEPT ![n] = RenderCaller(n, ref)] ELSE files

\* _ensure_workflows over the names that are wanted, at the ref that is asked for.
Ensured(files, wanted, force, ref) ==
    LET Do(done, n) == IF n \in wanted THEN EnsuredOne(done, n, force, ref) ELSE done
    IN  Do(Do(Do(files, "commit-msg-lint"), "ci-cache"), "p0")

(* The missing callers whose bytes stand under wanted names only, one of     *)
(* them written later: skipped for that one, which then is overwritten.     *)
Parked(files, wanted) ==
    {n \in Required :
        LET under == {m \in FileNames \ {n} : files[m] = RenderCaller(n, Baseline)}
        IN  files[n] = NoText /\ under \subseteq wanted /\ under \cap Later(n) # {}}

\* What init does before the workflows: all of it also when --gate is misused.
Stages(force, hooks) ==
    /\ staged' = release
    /\ ignored' = TRUE
    /\ hook' = IF hooks /\ HookInstalls(force) THEN "ours" ELSE hook
    /\ UNCHANGED <<release, edition, justfile, repoEdits>>

Init_(force, hooks, withWorkflows, gates, ref) ==
    /\ StartInit
    /\ Stages(force, hooks)
    /\ work' = IF withWorkflows THEN Ensured(work, Required \cup gates, force, ref) ELSE work
    /\ \/ gates # {} /\ ~withWorkflows /\ Ended("usage", 2)
       \/ /\ withWorkflows /\ force /\ ref = Baseline
          /\ initRun' = [did |-> "regenerated", exit |-> 0, parked |-> Parked(work, Required \cup gates)]
       \/ /\ withWorkflows => ~(force /\ ref = Baseline)
          /\ ~withWorkflows => gates = {}
          /\ Ended("staged", 0)

\* Interrupted among the files: the first of the mandatory ones are written.
InitCut(force, ref) ==
    /\ StartInit
    /\ Stages(force, FALSE)
    /\ work' = Ensured(work, {"commit-msg-lint"}, force, ref)
    /\ Ended("cut", 1)

InitCheck ==
    /\ StartInit
    /\ Ended("check", IF CheckOk THEN 0 ELSE 1)
    /\ UNCHANGED <<release, edition, work, staged, ignored, justfile, hook, repoEdits>>

HookInstall(force) ==
    /\ StartInit
    /\ hook' = IF HookInstalls(force) THEN "ours" ELSE hook
    /\ Ended("hook", IF HookInstalls(force) THEN 0 ELSE 1)
    /\ UNCHANGED <<release, edition, work, staged, ignored, justfile, repoEdits>>

HookUninstall(force) ==
    LET goes == force \/ hook \in {"none", "ours", "ours elsewhere"}
    IN  /\ StartInit
        /\ hook' = IF goes THEN "none" ELSE hook
        /\ Ended("hook", IF goes THEN 0 ELSE 1)
        /\ UNCHANGED <<release, edition, work, staged, ignored, justfile, repoEdits>>

HookCheck ==
    /\ StartInit
    /\ Ended("hook", IF hook = "ours" THEN 0 ELSE 1)
    /\ UNCHANGED <<release, edition, work, staged, ignored, justfile, hook, repoEdits>>

\* The package is upgraded under a checkout nobody touches.
Release ==
    /\ release < Len(Anchors)
    /\ release' = release + 1
    /\ \E changed \in TemplateChanges :
          edition' = [t \in Required \cup OptIn |->
                         IF t \in changed THEN edition[t] + 1 ELSE edition[t]]
    /\ Ended("released", 0)
    /\ UNCHANGED <<work, staged, ignored, justfile, hook, repoEdits, initRuns>>

\* People edit a caller, float it by hand, rename it, or copy it, onto another also; and the rest.
EditCaller(n) ==
    /\ work[n] # NoText
    /\ \/ \E form \in Forms \ {work[n].form} : work' = [work EXCEPT ![n].form = form]
       \/ \E ref \in {"master", "main"} : work' = [work EXCEPT ![n].ref = ref]
       \/ work' = [work EXCEPT ![n].input = "master"]
       \/ work' = [work EXCEPT ![n].also = TRUE]
       \/ \E m \in FileNames \ {n}, keep \in {NoText, work[n]},
             copy \in {work[n], [work[n] EXCEPT !.form = "flow", !.ref = "master"]} :
                work' = [work EXCEPT ![m] = copy, ![n] = keep]
    /\ UNCHANGED <<staged, ignored, justfile, hook>>

EditRest ==
    /\ UNCHANGED <<work, staged>>
    /\ \/ justfile' \in (SUBSET {"fetch", "interop"}) \ {justfile} /\ UNCHANGED <<ignored, hook>>
       \/ ignored /\ ignored' = FALSE /\ UNCHANGED <<justfile, hook>>
       \/ \E h \in {"ours elsewhere", "noa", "own"} : hook' = h /\ UNCHANGED <<ignored, justfile>>

EditRepo ==
    /\ repoEdits < MaxRepoEdits
    /\ repoEdits' = repoEdits + 1
    /\ (\E n \in FileNames : EditCaller(n)) \/ EditRest
    /\ Ended("edited", 0)
    /\ UNCHANGED <<release, edition, initRuns>>

RepoInitInit ==
    /\ release = 1 /\ edition = [t \in Required \cup OptIn |-> 1]
    /\ work = [n \in FileNames |-> NoText]
    /\ staged = 0 /\ ignored = FALSE /\ justfile = {} /\ hook = "none"
    /\ initRun = NoRun
    /\ repoEdits = 0 /\ initRuns = 0

RepoInitNext ==
    \/ \E force, withWorkflows \in BOOLEAN, gates \in SUBSET OptIn, ref \in {Baseline, "master"} :
          Init_(force, withWorkflows, withWorkflows, gates, ref)   \* bound: --hooks and the workflows together
    \/ \E force \in BOOLEAN : InitCut(force, Baseline) \/ HookInstall(force) \/ HookUninstall(force)
    \/ InitCheck \/ HookCheck \/ Release \/ EditRepo

RepoInitTypeOK ==
    /\ release \in DOMAIN Anchors /\ staged \in 0..release
    /\ edition \in [Required \cup OptIn -> Nat]
    /\ work \in [FileNames -> Texts \cup {NoText}]
    /\ ignored \in BOOLEAN /\ justfile \subseteq {"fetch", "interop"} /\ hook \in Hooks
    /\ initRun.exit \in 0..2
    /\ repoEdits \in 0..MaxRepoEdits /\ initRuns \in 0..MaxInits

(* Regenerating settles a checkout whatever was done to it: after an init   *)
(* --force --with-workflows that ended well, --check finds no caller to     *)
(* complain of; and an interrupted one is finished by the next.  A caller   *)
(* that was parked under the name of another is missing all the same       *)
(* (_ensure_workflows passes it by for its alias and then overwrites the    *)
(* alias); a second run generates that one too.                             *)
RegenerationSettles ==
    initRun.did = "regenerated" =>
        /\ staged = release /\ ignored
        /\ DriftProblems(work) = initRun.parked
        /\ DriftProblems(Ensured(work, Required, TRUE, Baseline)) = {}

(* A release reddens no checkout but for the templates it changes: that the *)
(* anchor moves alone makes no problem of a caller that stands under its    *)
(* own name, whatever was generated or done to it before                    *)
(* (caller_render_state: a pin migration that reddens every repository at   *)
(* once would be reverted, not adopted).                                    *)
ReleaseIsQuiet ==
    initRun'.did = "released" =>
        \A n \in DriftProblems(work)' \ DriftProblems(work) :
            work[n] = NoText \/ edition'[n] # edition[n]

ReleaseReddensNone == [][ReleaseIsQuiet]_repoInitVars

-----------------------------------------------------------------------------
(* The audits                                                               *)

VARIABLES
    origin,    \* the workflow files of the remote branch
    verdict    \* what the last audit said, and how it was asked

fleetVars == <<release, edition, work, staged, ignored, justfile, hook, initRun, repoEdits, initRuns,
               origin, verdict>>

NoVerdict == [by |-> "none", strict |-> FALSE, exit |-> 0, runs |-> TRUE]

\* Bound: one audit of what is there, as an audit changes nothing.
StartAudit == verdict = NoVerdict /\ StartInit

(* A workflow that calls nothing of devtools, as far as the rules tell one  *)
(* from another: the trigger matters to jobs that may be on the farm, their *)
(* guard to those of a pull request.  The keys are those of its one job.    *)
OwnWorkflows ==
    LET all == [on : {"push", "pull_request", "workflow_call"},
                job : {"calls", "calls and more", "hosted", "label", "vars"},
                timeout : BOOLEAN, guard : BOOLEAN, readable : {"yes", "twice", "no"}]
    IN  {w \in all : /\ w.readable = "yes" \/ w.job = "hosted"
                     /\ w.on = "push" \/ w.job \in {"label", "vars"}
                     /\ w.guard \/ w.on = "pull_request"
                     /\ w.timeout \/ w.job \in {"calls", "label", "vars"}}

BadKey(w)  == w.job = "calls and more" \/ (w.job = "calls" /\ w.timeout)

\* What GitHub makes of it: no job at all, and so nothing that could fail.
Runs(w)    == /\ w.readable = "yes"
              /\ CASE w.job = "calls" -> ~w.timeout      \* a job that calls takes few keys
                   [] w.job = "calls and more" -> FALSE
                   [] OTHER -> TRUE

\* A job that runs where a variable says may be on the farm too: no rule for its timeout.
Bounded(w) == w.job = "label" => w.timeout

Found(rule, severity) == [rule |-> rule, severity |-> severity]

(* A job that calls is checked for its keys alone; another by where it runs. *)
OwnFindings(w) ==
    IF w.readable = "no" THEN {Found("yaml-parse-error", "error")}
    ELSE {f \in {Found("yaml-duplicate-key", "error")} : w.readable = "twice"}
         \cup {f \in {Found("invalid-caller-key", "error")} : BadKey(w)}
         \cup {f \in {Found("self-hosted-pr-without-fork-guard", "warning")} :
                  w.on = "pull_request" /\ w.job \in {"label", "vars"} /\ ~w.guard}
         \cup {f \in {Found(IF w.on = "workflow_call" THEN "callee-missing-timeout"
                            ELSE "self-hosted-missing-timeout", "error")} :
                  ~Bounded(w)}

\* The commit-lint caller under its own name: by its bytes, then by what it declares.
CanonicalFindings(x) ==
    LET declares(ref) == /\ x.form \in {"exact", "comment"} /\ ~x.also
                         /\ [x EXCEPT !.form = "exact"] = RenderCaller("commit-msg-lint", ref)
    IN  CASE x = RenderCaller("commit-msg-lint", Baseline) -> {}
          [] x.form = "legacy" -> {Found("caller-not-canonical", "warning")}
          [] CallerRenderState(x, "commit-msg-lint") \in {"master", "stale"} ->
                {Found("devtools-ref-not-pinned", "warning")}
          [] OTHER ->
                {Found("caller-not-canonical",
                       IF declares(Baseline) \/ declares("master") THEN "warning" ELSE "error")}

CallsCommitLint(x) == x.template = "commit-msg-lint"
UnpinnedFindings(x) ==
    {f \in {Found("devtools-ref-not-pinned", "warning")} : x.ref = "master" \/ x.also}

CallerFindings(n, x) ==
    IF x.form = "broken" THEN {Found("yaml-parse-error", "error")}
    ELSE IF ~CallsCommitLint(x) THEN UnpinnedFindings(x)
    ELSE IF n = "commit-msg-lint" THEN CanonicalFindings(x)
    ELSE UnpinnedFindings(x) \cup {Found("caller-not-canonical", "error")}

Findings(own) ==
    OwnFindings(own)
    \cup UNION {CallerFindings(n, work[n]) : n \in {m \in FileNames : work[m] # NoText}}

HasFailure(findings, strict) ==
    \E f \in findings : f.severity = "error" \/ strict

\* The allow list takes findings away by rule; * takes every one.
CiAudit(own, strict, allowed) ==
    LET reported == {f \in Findings(own) : f.rule \notin allowed /\ "*" \notin allowed}
    IN  /\ StartAudit
        /\ verdict' = [by |-> "ci-audit", strict |-> strict,
                       exit |-> IF HasFailure(reported, strict) THEN 1 ELSE 0,
                       runs |-> allowed # {} \/ (Runs(own) /\ Bounded(own))]
        /\ Ended("audit", 0)
        /\ UNCHANGED <<release, edition, work, staged, ignored, justfile, hook, repoEdits, origin>>

\* The directory of the workflows cannot be listed: unknown is not clean.
CiAuditUnreadable ==
    /\ StartAudit
    /\ verdict' = [NoVerdict EXCEPT !.by = "ci-audit", !.exit = 2]
    /\ Ended("audit", 2)
    /\ UNCHANGED <<release, edition, work, staged, ignored, justfile, hook, repoEdits, origin>>

-----------------------------------------------------------------------------
InputsIn(x) == IF x.form = "flow" \/ x.input = "none" THEN {} ELSE {x.input}

\* A file that invokes a gate, and no ref of it can be read.
PinUnreadable(files) ==
    \E n \in FileNames : files[n] # NoText /\ RefsIn(files[n]) = {}

FloatingIn(files) ==
    \E n \in FileNames :
        /\ files[n] # NoText
        /\ \/ RefsIn(files[n]) \cap Floating # {}
           \/ RefsIn(files[n]) \ Floating # {} /\ InputsIn(files[n]) \cap Floating # {}

Scanned(remote) == IF remote THEN origin ELSE work
FleetOk(files) ==
    /\ \E n \in FileNames : files[n] # NoText
    /\ DriftProblems(files) = {} /\ ~PinUnreadable(files)

\* remote: the checkout has an origin ref that git can read.
FleetScan(remote, strict, warnOnly) ==
    LET files == Scanned(remote)
    IN  /\ StartAudit
        /\ ~(strict /\ warnOnly)
        /\ verdict' = [by |-> IF remote THEN "fleet" ELSE "fleet here", strict |-> strict, runs |-> TRUE,
                       exit |-> IF warnOnly \/ (FleetOk(files) /\ (strict => ~FloatingIn(files))) THEN 0 ELSE 1]
        /\ Ended("audit", 0)
        /\ UNCHANGED <<release, edition, work, staged, ignored, justfile, hook, repoEdits, origin>>

Push ==
    /\ origin # work
    /\ origin' = work
    /\ verdict' = NoVerdict
    /\ UNCHANGED repoInitVars

FleetInit == RepoInitInit /\ origin = work /\ verdict = NoVerdict

NothingPushed == \A n \in FileNames : origin[n] = NoText

FleetNext ==
    \/ RepoInitNext /\ verdict' = NoVerdict /\ UNCHANGED origin
    \/ \E own \in OwnWorkflows, strict \in BOOLEAN,   \* bound: before a push, which it does not see
          allowed \in {{}, {"self-hosted-pr-without-fork-guard"}, {"*"}} : NothingPushed /\ CiAudit(own, strict, allowed)
    \/ CiAuditUnreadable
    \/ \E remote, strict, warnOnly \in BOOLEAN : FleetScan(remote, strict, warnOnly)
    \/ Push

FleetTypeOK ==
    /\ RepoInitTypeOK
    /\ origin \in [FileNames -> Texts \cup {NoText}]
    /\ verdict.exit \in 0..2 /\ verdict.strict \in BOOLEAN /\ verdict.runs \in BOOLEAN

(* The uses: ref and the devtools-ref of every job, as a reader of YAML sees *)
(* them: the two layers a pin has to freeze.                                *)
Floats(files) ==
    \E n \in FileNames : /\ files[n] # NoText /\ files[n].form # "broken" /\ ~files[n].also
                         /\ {files[n].ref, files[n].input} \cap Floating # {}

(* A green audit has looked at everything it vouches for.  fleet-audit      *)
(* --strict-pins passes no branch in either layer, however the job is       *)
(* written; ci-audit without an exemption passes no workflow that GitHub    *)
(* drops without a sound or that can hold a runner of the farm for ever, as *)
(* far as the file names the farm.  A file with one readable caller and a   *)
(* second in a flow mapping is what the scan by file does let through.      *)
GreenAuditLooked ==
    verdict.exit = 0 =>
        /\ (verdict.by = "ci-audit" => verdict.runs)
        /\ (verdict.by = "fleet" /\ verdict.strict => ~Floats(origin))
        /\ (verdict.by = "fleet here" /\ verdict.strict => ~Floats(work))
=============================================================================
