---------------------------- MODULE LedgerGates ----------------------------
(***************************************************************************)
(* The three gates whose verdict rests on a ledger kept beside the code.   *)
(* type-escapes (lint/type_escapes.py): the gate that keeps TypeScript's   *)
(* escape hatches out of a tree, and the ledger that lets the shapes too   *)
(* frequent to ban only shrink.  A file is what the rules can tell apart   *)
(* of it: its header, its file marker, how many counted assertions it      *)
(* carries, and one line that may break an enforced rule.                  *)
(* p0-gate (lint/p0_gate.py): a repository that an open finding of the     *)
(* ledger covers does not pass until the finding is closed or someone has  *)
(* acknowledged it by name.  The ledger has four places, the               *)
(* acknowledgement three channels.                                         *)
(* domain-leak (lint/domain_leak.py): a host-core repository names no      *)
(* industry vocabulary but in the files of a baseline.  A full scan walks  *)
(* the workspace while people work in it and may strike what is clean off  *)
(* the baseline; the hooks look at what a commit or a push changes.        *)
(***************************************************************************)
EXTENDS Naturals, Sequences, FiniteSets

CONSTANTS
    TsFiles,      \* paths of the tree
    TsProfile,    \* what the path alone makes of each: src, test or dts
    MaxCasts,     \* bound: counted assertions of a file
    MaxTsEdits,   \* bound: edits of the tree
    MaxTsRuns,    \* bound: runs of the gate
    NoTsFile,     \* there is no such file
    NoLedger      \* there is no baseline, or it is not JSON

ASSUME TypeEscapesAssumption ==
    /\ TsProfile \in [TsFiles -> {"src", "test", "dts"}] /\ IsFiniteSet(TsFiles)
    /\ MaxCasts \in Nat /\ MaxTsEdits \in Nat /\ MaxTsRuns \in Nat

\* One rule of each tier and scope: RULES has more of the same.
TsRules == {"cast-any", "cast-never", "any-source", "suppress"}
Tier(rule) == IF rule = "any-source" THEN "strict" ELSE "core"
InProfile(rule, profile) ==
    rule \in {"cast-never", "any-source"} => profile \in {"src", "generated"}

(* ok: the line ends in the marker that excuses it; split: the formatter    *)
(* broke the shape over two lines, and the marker is on the first.          *)
TsLines  == [rule : TsRules, ok : BOOLEAN, split : BOOLEAN]
CleanLine == [rule |-> "none", ok |-> FALSE, split |-> FALSE]

TsContents == [generated : BOOLEAN, marker : {"none", "reason", "ledger"},
               casts : 0..MaxCasts, line : TsLines \cup {CleanLine}]

TsEmpty == [generated |-> FALSE, marker |-> "none", casts |-> 0, line |-> CleanLine]

VARIABLES
    tree,        \* the files
    ledgerFile,  \* the baseline: the casts of each file it names, and their total
    gateRun,     \* the verdict of the last run of the gate, and what it was asked
    tsEdits, tsRuns

escapeVars == <<tree, ledgerFile, gateRun, tsEdits, tsRuns>>

IsLedger(l) == /\ DOMAIN l.files \subseteq TsFiles
               /\ \A f \in DOMAIN l.files : l.files[f] \in 1..MaxCasts
               /\ l.total \in Nat
Asked   == [strict : BOOLEAN, dts : BOOLEAN, baseline : BOOLEAN, update : BOOLEAN,
            allowNew : BOOLEAN, allowEmpty : BOOLEAN]

NotRun == [exit |-> 0, unread |-> TsFiles]

TypeEscapesTypeOK ==
    /\ tree \in [TsFiles -> TsContents \cup {NoTsFile}]
    /\ ledgerFile # NoLedger => IsLedger(ledgerFile)
    /\ gateRun.exit \in 0..2 /\ gateRun.unread \subseteq TsFiles
    /\ tsEdits \in 0..MaxTsEdits /\ tsRuns \in 0..MaxTsRuns

-----------------------------------------------------------------------------
\* The declaration file wins over the test, the test over the generated file.
ProfileOf(f) == IF TsProfile[f] = "src" /\ tree[f].generated THEN "generated"
                ELSE TsProfile[f]

\* _allowed_file: a marker with a ledger entry, in a file a generator owns.
AllowedFile(f) == tree[f].marker = "ledger" /\ tree[f].generated

\* The pass over single lines and the pass over the joined text between them see
\* a shape wherever the formatter broke it, but for a directive, which is a
\* comment and is looked for on single lines only.
Matches(f, strict) ==
    LET l == tree[f].line
    IN  /\ l # CleanLine /\ ~l.ok
        /\ InProfile(l.rule, ProfileOf(f))
        /\ Tier(l.rule) = "core" \/ strict
        /\ l.rule = "suppress" => ~l.split

ScannedFiles(unread) == {f \in TsFiles \ unread : tree[f] # NoTsFile}

\* Declarations are reported, and enforced only when that is asked for.
Enforced(strict, dts, unread) ==
    {f \in ScannedFiles(unread) : /\ ~AllowedFile(f)
                             /\ Matches(f, strict)
                             /\ TsProfile[f] = "dts" => dts}

CountByFile(unread) ==
    LET counted == {f \in ScannedFiles(unread) : ~AllowedFile(f) /\ tree[f].casts > 0}
    IN  [f \in counted |-> tree[f].casts]

\* The sum of the counts: each cast of a file is one of its pairs.
Total(counts) ==
    Cardinality({p \in TsFiles \X (1..MaxCasts) : p[1] \in DOMAIN counts /\ p[2] <= counts[p[1]]})

BuildBaseline(unread) == [files |-> CountByFile(unread), total |-> Total(CountByFile(unread))]

(* ratchet_violations: the total of the rule, unless new files may add to   *)
(* it, and every file.  A file the ledger does not name is a new one.       *)
Ratchet(base, counts, allowNew) ==
    \/ ~allowNew /\ Total(counts) > base.total
    \/ \E f \in DOMAIN counts :
          IF f \in DOMAIN base.files THEN counts[f] > base.files[f] ELSE ~allowNew

-----------------------------------------------------------------------------
EditTs(f) ==
    /\ tsEdits < MaxTsEdits
    /\ tsEdits' = tsEdits + 1
    /\ LET c == IF tree[f] = NoTsFile THEN TsEmpty ELSE tree[f]
       IN  \/ \E n \in 0..MaxCasts : tree' = [tree EXCEPT ![f] = [c EXCEPT !.casts = n]]
           \/ \E l \in TsLines \cup {CleanLine} : tree' = [tree EXCEPT ![f] = [c EXCEPT !.line = l]]
           \/ \E m \in {"reason", "ledger"}, g \in BOOLEAN :
                tree' = [tree EXCEPT ![f] = [c EXCEPT !.marker = m, !.generated = g]]
           \/ tree' = [tree EXCEPT ![f] = NoTsFile]
    /\ UNCHANGED <<ledgerFile, gateRun, tsRuns>>

LedgerLost ==
    /\ tsEdits < MaxTsEdits
    /\ tsEdits' = tsEdits + 1
    /\ ledgerFile' = NoLedger
    /\ UNCHANGED <<tree, gateRun, tsRuns>>

\* main.  A file that cannot be read is not scanned.  The comparison comes before
\* the rewriting of the ledger, and a violation of it forbids that.
GateTs(asked, unread) ==
    LET counts  == CountByFile(unread)
        usage   == \/ ScannedFiles(unread) = {} /\ ~asked.allowEmpty
                   \/ asked.baseline /\ ledgerFile = NoLedger
        ratchet == asked.baseline /\ Ratchet(ledgerFile, counts, asked.allowNew)
        red     == Enforced(asked.strict, asked.dts, unread) # {}
    IN  /\ tsRuns < MaxTsRuns
        /\ tsRuns' = tsRuns + 1
        /\ gateRun' = [exit |-> IF usage THEN 2 ELSE IF red \/ ratchet THEN 1 ELSE 0,
                       unread |-> unread]
        /\ ledgerFile' = IF ~usage /\ asked.update /\ ~ratchet THEN BuildBaseline(unread)
                         ELSE ledgerFile
        /\ UNCHANGED <<tree, tsEdits>>

TypeEscapesInit ==
    /\ \E n \in 0..MaxCasts : tree = [f \in TsFiles |-> [TsEmpty EXCEPT !.casts = n]]
    /\ ledgerFile = NoLedger
    /\ gateRun = NotRun
    /\ tsEdits = 0 /\ tsRuns = 0

TypeEscapesNext ==
    \/ \E f \in TsFiles : EditTs(f)
    \/ LedgerLost
    \/ \E asked \in Asked, unread \in SUBSET TsFiles : GateTs(asked, unread)

TypeEscapesSpec == TypeEscapesInit /\ [][TypeEscapesNext]_escapeVars

-----------------------------------------------------------------------------
(* p0-gate                                                                  *)

CONSTANTS
    P0Findings,      \* the ids of the ledger
    MarkerIds,       \* those that begin with P0: a marker in a PR body names only these
    P0Repos,         \* the repositories
    MaxLedgerEdits,  \* bound: edits of the ledgers
    NoP0Ledger,      \* no such file
    BadLedger,       \* unreadable, no TOML, an unknown key, a duplicate id, no entry, ...
    Because          \* a word of a reason that is no id

\* The ledger that comes with the tools has an entry: an empty one is no ledger.
ASSUME P0GateAssumption ==
    MarkerIds \subseteq P0Findings /\ P0Findings # {} /\ MaxLedgerEdits \in Nat

LedgerPlaces == {"env", "local", "bundled"}
\* A parsed ledger, which has at least one entry: of each id, open or closed over a scope.
P0Entries == [status : {"open", "closed"}, scope : (SUBSET P0Repos) \ {{}}]
Ledgers == UNION {[ids -> P0Entries] : ids \in (SUBSET P0Findings) \ {{}}}

VARIABLES
    ledgers,         \* what lies at each place
    pinnedByEnv,     \* $CELESTIA_P0_LEDGER is set
    p0Verdict,       \* how the last run ended, and what it was asked
    ledgerEdits

p0Vars == <<ledgers, pinnedByEnv, p0Verdict, ledgerEdits>>
NotGated == [exit |-> 3]

\* The environment wins even when nothing is there; the local copy must be a file.
ResolveLedgerPath ==
    IF pinnedByEnv THEN "env" ELSE IF ledgers["local"] # NoP0Ledger THEN "local" ELSE "bundled"
InForce == ledgers[ResolveLedgerPath]
Usable_(ledger) == ledger \notin {NoP0Ledger, BadLedger}

\* Of a line "P0-ACK: word word ...": every id in it, those in the reason as well.
ParseAckMarkers(words) == {words[i] : i \in 1..Len(words)} \cap MarkerIds
CollectAcks(named, words) == named \cup ParseAckMarkers(words)

OpenFor(ledger, repos) ==
    {id \in DOMAIN ledger : ledger[id].status = "open" /\ ledger[id].scope \cap repos # {}}

\* No --repo: the name of origin, which may not be there.
RunP0Gate(repos, named, words, bodyReadable) ==
    /\ p0Verdict = NotGated   \* bound: asked once of the ledgers as they are
    /\ p0Verdict' =
          IF ~Usable_(InForce) \/ repos = {} \/ ~bodyReadable THEN [exit |-> 2]
          ELSE LET blocked == OpenFor(InForce, repos) \ CollectAcks(named, words)
               IN  [exit |-> IF blocked # {} THEN 1 ELSE 0, repos |-> repos,
                    written |-> named \cup {words[i] : i \in 1..Len(words)}]
    /\ UNCHANGED <<ledgers, pinnedByEnv, ledgerEdits>>

EditLedger ==
    /\ ledgerEdits < MaxLedgerEdits /\ ledgerEdits' = ledgerEdits + 1
    /\ p0Verdict' = NotGated
    /\ \/ \E place \in LedgerPlaces, ledger \in Ledgers \cup {BadLedger, NoP0Ledger} :
             ledgers' = [ledgers EXCEPT ![place] = ledger]
          /\ UNCHANGED pinnedByEnv
       \/ pinnedByEnv' = ~pinnedByEnv /\ UNCHANGED ledgers

P0Init ==
    /\ \E scope \in (SUBSET P0Repos) \ {{}} :
          ledgers = [p \in LedgerPlaces |-> IF p = "bundled"
                        THEN [id \in P0Findings |-> [status |-> "open", scope |-> scope]] ELSE NoP0Ledger]
    /\ pinnedByEnv = FALSE /\ p0Verdict = NotGated /\ ledgerEdits = 0

AckWords == {<<>>} \cup {<<w>> : w \in P0Findings} \cup {<<w, Because, v>> : w, v \in MarkerIds}
P0Next ==
    \/ \E repos \in SUBSET P0Repos, named \in SUBSET P0Findings, words \in AckWords, readable \in BOOLEAN :
          RunP0Gate(repos, named, words, readable)
    \/ EditLedger

P0TypeOK ==
    /\ ledgers \in [LedgerPlaces -> Ledgers \cup {BadLedger, NoP0Ledger}]
    /\ pinnedByEnv \in BOOLEAN /\ p0Verdict.exit \in 0..3 /\ ledgerEdits \in 0..MaxLedgerEdits

(* A gate that passed did so on a ledger it could read, and every finding   *)
(* of it that is open and covers one of the repositories asked for has been *)
(* written down by someone.                                                 *)
ClearMeansAnswered ==
    p0Verdict.exit = 0 =>
        /\ Usable_(InForce)
        /\ \A id \in DOMAIN InForce :
              \/ InForce[id].status = "closed"
              \/ InForce[id].scope \cap p0Verdict.repos = {}
              \/ id \in p0Verdict.written

-----------------------------------------------------------------------------
(* domain-leak                                                              *)

CONSTANTS
    LeakRepos,     \* SCOPE
    OtherRepo,     \* a repository outside of it
    LeakFiles,     \* paths, the same in every repository
    LeakPlace,     \* of each: core, zone (a domain_* package) or skipped (below SKIP_DIRS)
    TermNames,     \* the paths that carry a term themselves
    QuotedNames,   \* the paths git prints in quotes, with escapes: those beyond ASCII
    MaxLeakEdits,  \* bound: changes of the workspace and of the baseline
    NoCheckout,    \* the repository is not checked out
    NoBase,        \* no merge base
    UnknownBase,   \* the remote's commit is not here
    BadBaseline    \* missing, no JSON, or without a list of entries

ASSUME DomainLeakAssumption ==
    /\ OtherRepo \notin LeakRepos /\ TermNames \subseteq LeakFiles /\ QuotedNames \subseteq LeakFiles
    /\ LeakPlace \in [LeakFiles -> {"core", "zone", "skipped"}]
    /\ MaxLeakEdits \in Nat
    /\ {NoBase, UnknownBase} \cap [LeakFiles -> {"none", "clean", "leaks"}] = {}

LeakTreesAtFirst == [repo \in LeakRepos |-> [f \in LeakFiles |-> "leaks"]]
LeakTexts == {"none", "clean", "leaks"}   \* none: there is no such file
LeakTrees == [LeakFiles -> LeakTexts]
Entries_  == LeakRepos \X LeakFiles

VARIABLES
    leakTrees,     \* the workspace
    leakBaseline,  \* the entries of the baseline file
    leakScan,      \* the full scan that runs
    leakVerdict,   \* how the last command ended, and what it should not have passed
    struckOff,     \* history: entries a prune dropped although their files leak
    overlooked,    \* history: what a hook was asked of and git did not show it
    leakEdits

leakVars == <<leakTrees, leakBaseline, leakScan, leakVerdict, struckOff, overlooked, leakEdits>>

LeakScans == [step : {"scan", "prune", "write"}, prune : BOOLEAN, left : SUBSET LeakRepos,
              base : SUBSET Entries_, hits : SUBSET Entries_,
              excused : SUBSET Entries_]   \* history: not seen, or changed since
NoLeakScan == [step |-> "none"]
Unjudged   == [exit |-> 3, missed |-> {}]

LeakTypeOK ==
    /\ leakTrees \in [LeakRepos -> LeakTrees \cup {NoCheckout}]
    /\ leakBaseline = BadBaseline \/ leakBaseline \subseteq Entries_
    /\ leakScan = NoLeakScan \/ leakScan \in LeakScans
    /\ leakVerdict.exit \in 0..3 /\ leakVerdict.missed \subseteq Entries_
    /\ struckOff \cup overlooked \subseteq Entries_ /\ leakEdits \in 0..MaxLeakEdits

\* A file that has a term in its name leaks whatever it holds.
FindTerms(f, text) == text # "none" /\ (text = "leaks" \/ f \in TermNames)

\* The hooks filter by prefix and suffix; the walk enters no skipped directory.
InLeakScope(f) == LeakPlace[f] # "zone"
Walked(f)      == LeakPlace[f] = "core"

\* A baseline that cannot be read is an empty one: every hit is new.
LoadBaseline == IF leakBaseline = BadBaseline THEN {} ELSE leakBaseline

-----------------------------------------------------------------------------
\* The root of the full scan: declared, found by its markers, or a last resort.
ResolveWorkspaceSource(flag, env, marker) ==
    IF flag THEN "flag" ELSE IF env THEN "env" ELSE IF marker THEN "marker" ELSE "fallback"

LeakScanFrom(prune) ==
    [step |-> "scan", prune |-> prune, left |-> LeakRepos, base |-> LoadBaseline,
     hits |-> {}, excused |-> {}]

\* Nothing vouches for the last resort.
StartLeakScan(source, prune) ==
    /\ leakScan = NoLeakScan /\ leakVerdict = Unjudged  \* bound: one command
    /\ IF source = "fallback"
       THEN leakVerdict' = [exit |-> 2, missed |-> {}] /\ UNCHANGED leakScan
       ELSE leakScan' = LeakScanFrom(prune) /\ UNCHANGED leakVerdict
    /\ UNCHANGED <<leakTrees, leakBaseline, struckOff, overlooked, leakEdits>>

\* scan_repo: a file that cannot be read is no hit.
ScanLeakRepo(repo, unread) ==
    /\ leakScan # NoLeakScan /\ leakScan.step = "scan" /\ repo \in leakScan.left
    /\ LET here == leakTrees[repo] # NoCheckout
           read == {f \in LeakFiles : here /\ Walked(f) /\ f \notin unread}
           hit  == {f \in read : FindTerms(f, leakTrees[repo][f])}
       IN  leakScan' = [leakScan EXCEPT
               !.left = @ \ {repo},
               !.hits = @ \cup ({repo} \X hit),
               !.excused = @ \cup (IF here THEN {repo} \X (LeakFiles \ read) ELSE {})]
    /\ UNCHANGED <<leakTrees, leakBaseline, leakVerdict, struckOff, overlooked, leakEdits>>

\* What a scan that looked now would find, whatever place it is in.
LeaksNow == {e \in Entries_ : /\ leakTrees[e[1]] # NoCheckout
                              /\ FindTerms(e[2], leakTrees[e[1]][e[2]])}
NotHere  == {e \in Entries_ : leakTrees[e[1]] = NoCheckout}

NewLeaks   == leakScan.hits \ leakScan.base
StaleLeaks == leakScan.base \ leakScan.hits

EndLeakScan ==
    /\ leakScan # NoLeakScan /\ leakScan.step = "scan" /\ leakScan.left = {}
    /\ IF leakScan.prune
       THEN leakScan' = [leakScan EXCEPT !.step = "prune"] /\ UNCHANGED leakVerdict
       ELSE /\ leakScan' = NoLeakScan
            /\ leakVerdict' = [exit |-> IF NewLeaks # {} THEN 1 ELSE 0,
                                missed |-> LeaksNow \ (leakScan.base \cup leakScan.excused)]
    /\ UNCHANGED <<leakTrees, leakBaseline, struckOff, overlooked, leakEdits>>

\* main --prune-baseline: part of the reach is not enough to tell what is stale.
CheckReach ==
    /\ leakScan # NoLeakScan /\ leakScan.step = "prune"
    /\ IF \E repo \in LeakRepos : leakTrees[repo] = NoCheckout
       THEN leakScan' = NoLeakScan /\ leakVerdict' = [exit |-> 2, missed |-> {}]
       ELSE leakScan' = [leakScan EXCEPT !.step = "write"] /\ UNCHANGED leakVerdict
    /\ UNCHANGED <<leakTrees, leakBaseline, struckOff, overlooked, leakEdits>>

\* The file is read again, so that what was added meanwhile stays; then a new scan.
PruneBaseline ==
    /\ leakScan # NoLeakScan /\ leakScan.step = "write"
    /\ leakBaseline' = IF StaleLeaks # {} THEN LoadBaseline \ StaleLeaks ELSE leakBaseline
    /\ struckOff' = struckOff \cup
          ((LoadBaseline \cap StaleLeaks \cap (LeaksNow \cup NotHere)) \ leakScan.excused)
    /\ leakScan' = [LeakScanFrom(FALSE) EXCEPT !.base = LoadBaseline \ StaleLeaks]
    /\ UNCHANGED <<leakTrees, leakVerdict, overlooked, leakEdits>>

-----------------------------------------------------------------------------
(* The hooks.  A clone is of one repository, lies in the workspace or       *)
(* elsewhere, and has an origin of the family, of someone else, or none.    *)
Clones == [is : LeakRepos \cup {OtherRepo}, inside : BOOLEAN, origin : {"family", "foreign"}]

RepoFromToplevel(clone) == clone.inside
RepoFromOrigin(clone)   == clone.origin = "family"
Identified(clone)       == RepoFromToplevel(clone) \/ RepoFromOrigin(clone)

\* git show, unchecked: the text of what it failed on is empty.
Shown(head, failed, f) == IF f \in failed THEN "clean" ELSE head[f]

\* git diff --diff-filter=ACMR, which passes over a file that turns into another type (a
\* link, say), and the whole tree when there is no base.
DiffPairs(base, head, failed, retyped) ==
    {<<f, Shown(head, failed, f)>> :
        f \in {g \in LeakFiles \ retyped : head[g] \notin {"none", base[g]}}}
TreePairs(head, failed) ==
    {<<f, Shown(head, failed, f)>> : f \in {g \in LeakFiles : head[g] # "none"}}

\* A name in quotes has no suffix of EXTS: its last is "rs\"" and the like.
HookScope(f) == InLeakScope(f) /\ f \notin QuotedNames

NewHits(repo, pairs) ==
    {<<repo, p[1]>> : p \in {q \in pairs : HookScope(q[1]) /\ FindTerms(q[1], q[2])}}
        \ LoadBaseline

\* A ref line of the push: the remote's commit, or its lack, and the new one.
EmptyLines == [kind : {"delete", "malformed"}]
RefLines == EmptyLines
            \cup [kind : {"new"}, base : LeakTrees \cup {NoBase}, head : LeakTrees]
            \cup [kind : {"update"}, base : LeakTrees \cup {UnknownBase}, head : LeakTrees]

LinePairs(line, failed, retyped) ==
    CASE line.kind \in {"delete", "malformed"} -> {}
      [] line.kind = "new"    -> IF line.base = NoBase THEN TreePairs(line.head, failed)
                                 ELSE DiffPairs(line.base, line.head, failed, retyped)
      [] line.kind = "update" -> DiffPairs(line.base, line.head, failed, retyped)

GitFails(line) == line.kind = "update" /\ line.base = UnknownBase

\* What a line brings that the remote had not, in fact.
Brings(line) ==
    IF line.kind \in {"delete", "malformed"} THEN {}
    ELSE {f \in LeakFiles : /\ FindTerms(f, line.head[f]) /\ InLeakScope(f)
                            /\ line.base \in {NoBase, UnknownBase} \/ line.base[f] # line.head[f]}

\* What git keeps from the hook; a term in the name it finds without the text.
Overlooked(failed, retyped) == QuotedNames \cup retyped \cup (failed \ TermNames)

RunPushed(clone, lines, failed, retyped) ==
    /\ LET brought == {clone.is} \X UNION {Brings(line) : line \in lines}
           seen    == UNION {LinePairs(line, failed, retyped) : line \in lines}
       IN  leakVerdict' =
             IF ~Identified(clone) THEN [exit |-> 2, missed |-> {}]
             ELSE IF clone.is = OtherRepo THEN [exit |-> 0, missed |-> {}]
             ELSE IF \E line \in lines : GitFails(line) THEN [exit |-> 2, missed |-> {}]
             ELSE [exit |-> IF NewHits(clone.is, seen) # {} THEN 1 ELSE 0,
                   missed |-> brought \ LoadBaseline]
    /\ overlooked' = (LeakRepos \cap {clone.is}) \X Overlooked(failed, retyped)
    /\ UNCHANGED <<leakTrees, leakBaseline, leakScan, struckOff, leakEdits>>

\* run_staged: the index against HEAD, which is a push of one commit to the same ref.
RunStaged(clone, head, index, failed, retyped) ==
    RunPushed(clone, {[kind |-> "update", base |-> head, head |-> index]}, failed, retyped)

-----------------------------------------------------------------------------
\* A file changes, or the checkout comes or goes.
CheckoutsFrom(t) ==
    IF t = NoCheckout THEN LeakTrees
    ELSE {[t EXCEPT ![f] = text] : f \in LeakFiles, text \in LeakTexts} \cup {NoCheckout}

\* What changes while a scan runs is not held against it.
WorkInRepo(repo) ==
    /\ leakEdits < MaxLeakEdits /\ leakEdits' = leakEdits + 1
    /\ \E tree_ \in CheckoutsFrom(leakTrees[repo]) :
          /\ leakTrees' = [leakTrees EXCEPT ![repo] = tree_]
          /\ leakScan' = IF leakScan = NoLeakScan THEN leakScan
                         ELSE [leakScan EXCEPT !.excused = @ \cup
                                 {<<repo, f>> : f \in {g \in LeakFiles :
                                     \/ NoCheckout \in {tree_, leakTrees[repo]}
                                     \/ tree_[g] # leakTrees[repo][g]}}]
    /\ UNCHANGED <<leakBaseline, leakVerdict, struckOff, overlooked>>

BaselineChanges ==
    /\ leakEdits < MaxLeakEdits /\ leakEdits' = leakEdits + 1
    /\ \/ leakBaseline' = BadBaseline
       \/ \E e \in Entries_ : leakBaseline' = LoadBaseline \cup {e}
    /\ UNCHANGED <<leakTrees, leakScan, leakVerdict, struckOff, overlooked>>

\* Bound: hooks, to which the workspace is nothing, are run in the first one, with a baseline
\* of nothing, of one file, of all, or a broken one.
HookRuns == /\ leakVerdict = Unjudged /\ leakScan = NoLeakScan /\ leakTrees = LeakTreesAtFirst
            /\ leakEdits = 0 \/ (leakEdits = 1 /\ leakBaseline \in {BadBaseline, {CHOOSE e \in Entries_ : TRUE}})
\* Bound: one file at most is not shown or not listed.
FewFiles(failed, retyped) == Cardinality(failed) + Cardinality(retyped) <= 1

LeakInit ==
    /\ leakTrees = LeakTreesAtFirst /\ leakBaseline \in {{}, Entries_}
    /\ leakScan = NoLeakScan /\ leakVerdict = Unjudged
    /\ struckOff = {} /\ overlooked = {} /\ leakEdits = 0

LeakNext ==
    \/ \E flag, env, marker, prune \in BOOLEAN :
          StartLeakScan(ResolveWorkspaceSource(flag, env, marker), prune)
    \/ \E repo \in LeakRepos, unread \in SUBSET LeakFiles : ScanLeakRepo(repo, unread)
    \/ EndLeakScan \/ CheckReach \/ PruneBaseline
    \/ \E failed, retyped \in SUBSET LeakFiles :
          /\ HookRuns /\ FewFiles(failed, retyped)
          /\ \/ \E clone \in Clones, line \in RefLines :
                   RunPushed(clone, {line, [kind |-> "delete"]}, failed, retyped)
             \/ \E clone \in Clones, head \in LeakTrees, index \in LeakTrees :
                   RunStaged(clone, head, index, failed, retyped)
    \/ \E repo \in LeakRepos : WorkInRepo(repo)
    \/ BaselineChanges

LeakSpec == LeakInit /\ [][LeakNext]_leakVars

(* A scan, a staged check or a push that passes has looked: of what it      *)
(* could read, nothing that names the industry is outside of the baseline;  *)
(* of a push, nothing the remote did not have, whatever else its other ref  *)
(* lines do and wherever the clone lies, but for the files that git keeps   *)
(* from the hook: their name is quoted, their type changed, or git show     *)
(* failed, and they pass whatever they hold (run_pushed, _diff_pairs).  And *)
(* a prune strikes nothing off the baseline that still leaks, or that it    *)
(* could not look at because a repository is not here.                      *)
LeakGreenLooked ==
    /\ leakVerdict.exit = 0 => leakVerdict.missed \subseteq overlooked
    /\ struckOff = {}
=============================================================================
