----------------------------- MODULE GateSweep ----------------------------
(***************************************************************************)
(* gate credential-scan (build/gate_sweep.py): a sweep walks checkouts     *)
(* that are being written to, and whatever it does not read it has to      *)
(* account for: listed as skipped, in a tree excluded by name, or binary.  *)
(***************************************************************************)
EXTENDS Naturals, FiniteSets

CONSTANTS
    SweepRepos,      \* the checkouts under the scan root
    SweepPaths,      \* the paths of a checkout
    MaxTreeEdits,    \* bound: what others do to a tree while it is swept
    MaxSweepRuns     \* bound: sweeps

ASSUME GateSweepAssumption == MaxTreeEdits \in Nat /\ MaxSweepRuns \in Nat

(* Of a path: a text without and with a literal, a file that is binary at   *)
(* its head or only later, one that cannot be read (a broken or looping     *)
(* link, a socket, an oversized file, a locked file or directory, a linked  *)
(* directory), one below an excluded name, and none.                        *)
FileKinds    == {"plain", "literal", "binary", "lateBinary", "unreadable", "excluded", "gone"}
DotGit   == {"dir", "pointer", "badPointer", "locked", "none"}
CheckoutState == [git : DotGit, config : {"plain", "literal", "unreadable", "gone"}, ours : BOOLEAN]

VARIABLES
    checkouts,   \* their .git, and whether they are langyo's
    trees,       \* what lies at each path
    gateReport,  \* the sweep under way, or how the last one ended
    treeEdits, sweepRuns

sweepVars == <<checkouts, trees, gateReport, treeEdits, sweepRuns>>

At_(r, p)  == <<r, p>>
Config_(r) == <<r, "config">>
EmptySweep == [on |-> FALSE, todo |-> {}, found |-> {}, scanned |-> {}, skipped |-> {},
               meant |-> {}, strict |-> FALSE, exit |-> 2]

GitConfigPaths(r) ==
    IF checkouts[r].git \in {"dir", "pointer"} /\ checkouts[r].config # "gone" THEN {Config_(r)} ELSE {}
GitSkips(r) == IF checkouts[r].git \in {"badPointer", "locked"} THEN {<<r, ".git">>} ELSE {}

\* A checkout whose .git cannot be probed is listed and not taken for one of langyo's.
IsLangyoRepo(r) == checkouts[r].ours /\ checkouts[r].git \in {"dir", "pointer"} /\ checkouts[r].config \in {"plain", "literal"}
DiscoverSkips ==
    {<<r, ".git">> : r \in {c \in SweepRepos : checkouts[c].git \in {"badPointer", "locked"}}}
    \cup {Config_(r) : r \in {c \in SweepRepos : checkouts[c].git \in {"dir", "pointer"} /\ checkouts[c].config = "unreadable"}}

\* Those that are langyo's, whether or not they can be probed.
Langyo(r) == checkouts[r].ours /\ checkouts[r].git # "none" /\ checkouts[r].config # "gone"

-----------------------------------------------------------------------------
StartSweep ==
    /\ ~gateReport.on /\ sweepRuns < MaxSweepRuns
    /\ sweepRuns' = sweepRuns + 1
    /\ \E all \in BOOLEAN, one \in SweepRepos, configs \in BOOLEAN, sources \in BOOLEAN, strict \in BOOLEAN :
          LET targets == IF all THEN {r \in SweepRepos : IsLangyoRepo(r)} ELSE {one}
          IN  IF targets = {} \/ (~configs /\ ~sources) THEN gateReport' = EmptySweep
              ELSE gateReport' = [EmptySweep EXCEPT
                     !.on = TRUE, !.strict = strict,
                     !.meant = (IF all THEN {r \in SweepRepos : Langyo(r)} ELSE {one})
                               \X (IF sources THEN SweepPaths ELSE {}),
                     !.skipped = (IF all THEN DiscoverSkips ELSE {})
                                 \cup (IF configs THEN UNION {GitSkips(r) : r \in targets} ELSE {}),
                     !.todo = (IF configs THEN UNION {GitConfigPaths(r) : r \in targets} ELSE {})
                              \cup (IF sources THEN targets \X SweepPaths ELSE {})]
    /\ UNCHANGED <<checkouts, trees, treeEdits>>

KindOf(path) ==
    IF path[2] = "config" THEN checkouts[path[1]].config ELSE trees[path[1]][path[2]]

(* The walk meets a path, judges it and reads it; a path that is gone by    *)
(* then is not met, or skipped when it went between the two.                *)
SweepPath(path) ==
    /\ gateReport.on /\ path \in gateReport.todo
    /\ LET kind == KindOf(path)
       IN  \/ /\ kind \in {"plain", "literal"}
              /\ gateReport' = [gateReport EXCEPT !.todo = @ \ {path}, !.scanned = @ \cup {path},
                                        !.found = IF kind = "literal" THEN @ \cup {path} ELSE @]
           \/ /\ kind \in {"unreadable", "lateBinary"} \/ (kind = "gone" /\ path[2] # "config")
              /\ gateReport' = [gateReport EXCEPT !.todo = @ \ {path}, !.skipped = @ \cup {path}]
           \/ /\ kind \in {"excluded", "binary", "gone"}
              /\ gateReport' = [gateReport EXCEPT !.todo = @ \ {path}]
    /\ UNCHANGED <<checkouts, trees, treeEdits, sweepRuns>>

\* That no source was scanned, and that a checkout is stale, is said and not more.
EndSweep ==
    /\ gateReport.on /\ gateReport.todo = {}
    /\ gateReport' = [gateReport EXCEPT !.on = FALSE,
          !.exit = IF gateReport.found # {} \/ (gateReport.skipped # {} /\ gateReport.strict) THEN 1 ELSE 0]
    /\ UNCHANGED <<checkouts, trees, treeEdits, sweepRuns>>

EditTree ==
    /\ treeEdits < MaxTreeEdits /\ treeEdits' = treeEdits + 1
    /\ \/ /\ \E r \in SweepRepos, p \in SweepPaths, k \in FileKinds : trees' = [trees EXCEPT ![r][p] = k]
          /\ UNCHANGED checkouts
       \/ /\ \E r \in SweepRepos, c \in {"plain", "literal", "unreadable", "gone"} :
                checkouts' = [checkouts EXCEPT ![r].config = c]
          /\ UNCHANGED trees
    /\ UNCHANGED <<gateReport, sweepRuns>>

SweepInit ==
    /\ \E git \in [SweepRepos -> DotGit] : checkouts =
          [r \in SweepRepos |-> [git |-> git[r], config |-> "plain", ours |-> TRUE]]
    /\ \E kind \in [SweepRepos -> {"plain", "literal"}] :
          trees = [r \in SweepRepos |-> [p \in SweepPaths |-> kind[r]]]
    /\ gateReport = EmptySweep /\ treeEdits = 0 /\ sweepRuns = 0

SweepNext == StartSweep \/ (\E path \in gateReport.todo : SweepPath(path)) \/ EndSweep \/ EditTree

SweepTypeOK ==
    /\ checkouts \in [SweepRepos -> CheckoutState] /\ trees \in [SweepRepos -> [SweepPaths -> FileKinds]]
    /\ gateReport.exit \in 0..2 /\ gateReport.found \subseteq gateReport.scanned
    /\ treeEdits \in 0..MaxTreeEdits /\ sweepRuns \in 0..MaxSweepRuns

(* A strict sweep that is green missed nothing: as long as nobody has       *)
(* written to the trees, no path of a checkout it was to sweep holds a      *)
(* literal, whatever of it could not be probed, walked or read.             *)
StrictGreenMissesNothing ==
    ~gateReport.on /\ gateReport.exit = 0 /\ gateReport.strict /\ treeEdits = 0 =>
        \A path \in gateReport.meant : KindOf(path) # "literal"
=============================================================================
