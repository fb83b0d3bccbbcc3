---------------------------- MODULE Credentials ----------------------------
(***************************************************************************)
(* tools/ci_runner_credentials.py: deploy keys, ssh, git and cargo         *)
(* settings, the runner's environment and packages, brought to every       *)
(* runner by one script that is sent over ssh, and again after a failure,  *)
(* a cut connection or a revert of the runner.                             *)
(***************************************************************************)
EXTENDS Naturals, Sequences, FiniteSets

CONSTANTS
    Runners,      \* CI_RUNNER_ALL_HOSTS, in its order
    MaxApplies,   \* bound: commands
    MaxMishaps    \* bound: what happens to the runners besides

ASSUME CredentialsAssumption == Runners \in Seq(STRING) \ {<<>>} /\ MaxApplies \in Nat /\ MaxMishaps \in Nat

ApplySteps == <<"keys", "strip", "append", "git", "cargo", "unit", "summary", "packages">>
Hosts == {Runners[i] : i \in DOMAIN Runners}
Block == <<"begin", "end">>

VARIABLES
    runner,     \* what is on each runner
    applying,   \* the script that runs: host, step, switches, REMOTE_FAIL
    refused,    \* the hosts that failed in this command
    credExit,   \* how the last command ended
    applies, mishaps

credVars == <<runner, applying, refused, credExit, applies, mishaps>>

(* ownLines, torn and owed are history: the lines others wrote to the ssh   *)
(* config, a file cut short, and a restart that never came.                 *)
Reverted == [keys |-> "none", config |-> <<"own">>, git |-> FALSE, cargoOwn |-> TRUE, cargoNet |-> FALSE,
          dropin |-> FALSE, active |-> FALSE, packages |-> FALSE,
          ownLines |-> 1, torn |-> FALSE, owed |-> FALSE]
NotApplying == [host |-> 0, at |-> 0, restart |-> "ask", skipPackages |-> FALSE, fail |-> FALSE]

Host == Runners[applying.host]
Remotely(step) == applying.at > 0 /\ ApplySteps[applying.at] = step
Advance == applying' = [applying EXCEPT !.at = @ + 1] /\ UNCHANGED <<refused, credExit>>
Leaves(changed) == runner' = [runner EXCEPT ![Host] = changed]

\* A host that fails stops none of the others.
HostEnds(ok) ==
    /\ refused' = IF ok THEN refused ELSE refused \cup {Host}
    /\ IF applying.host < Len(Runners)
       THEN applying' = [applying EXCEPT !.host = @ + 1, !.at = 1, !.fail = FALSE] /\ UNCHANGED credExit
       ELSE applying' = NotApplying /\ credExit' = IF refused' = {} THEN "ok" ELSE "failed"

-----------------------------------------------------------------------------
\* Keys, sshpass and the list of hosts are looked at before anything is sent.
StartConfigure ==
    /\ applying = NotApplying /\ applies < MaxApplies /\ applies' = applies + 1 /\ refused' = {}
    /\ \/ credExit' = "failed" /\ UNCHANGED applying
       \/ \E restart \in {"ask", "never", "force"}, skip \in BOOLEAN :
             /\ applying' = [NotApplying EXCEPT !.host = 1, !.at = 1, !.restart = restart, !.skipPackages = skip]
             /\ credExit' = "none"
    /\ UNCHANGED <<runner, mishaps>>

WriteKeys == Remotely("keys") /\ Leaves([runner[Host] EXCEPT !.keys = "whole"]) /\ Advance /\ UNCHANGED <<applies, mishaps>>

\* Everything from a begin to the next end, or to the end of the file, is dropped;
\* what stays are lines of another hand.
Managed(config, i) ==
    \/ config[i] \in {"begin", "end"}
    \/ \E j \in 1..(i - 1) : config[j] = "begin" /\ \A k \in j..i : config[k] # "end"
OutsideBlock(config) ==
    [i \in 1..Cardinality({k \in DOMAIN config : ~Managed(config, k)}) |-> "own"]

StripBlock ==
    /\ Remotely("strip") /\ Leaves([runner[Host] EXCEPT !.config = OutsideBlock(@)]) /\ Advance
    /\ UNCHANGED <<applies, mishaps>>
AppendBlock ==
    /\ Remotely("append") /\ Leaves([runner[Host] EXCEPT !.config = @ \o Block]) /\ Advance
    /\ UNCHANGED <<applies, mishaps>>

SetGit == Remotely("git") /\ Leaves([runner[Host] EXCEPT !.git = TRUE]) /\ Advance /\ UNCHANGED <<applies, mishaps>>
PatchCargo ==
    /\ Remotely("cargo") /\ Leaves([runner[Host] EXCEPT !.cargoNet = TRUE]) /\ Advance
    /\ UNCHANGED <<applies, mishaps>>

-----------------------------------------------------------------------------
\* A drop-in that is as it should be is taken for one that is in force.
UnitInPlace == runner[Host].dropin /\ UNCHANGED runner /\ Advance
UnitMissing == UNCHANGED runner /\ applying' = [applying EXCEPT !.at = @ + 1, !.fail = TRUE]
               /\ UNCHANGED <<refused, credExit>>
RestartLeftOut ==
    /\ ~runner[Host].dropin /\ applying.restart # "force"
    /\ Leaves([runner[Host] EXCEPT !.dropin = TRUE, !.owed = TRUE]) /\ Advance
Restarted ==
    /\ ~runner[Host].dropin /\ applying.restart # "never"
    /\ Leaves([runner[Host] EXCEPT !.dropin = TRUE, !.active = TRUE, !.owed = FALSE]) /\ Advance
RestartFailed ==
    /\ ~runner[Host].dropin /\ applying.restart # "never"
    /\ Leaves([runner[Host] EXCEPT !.dropin = TRUE, !.owed = TRUE])
    /\ applying' = [applying EXCEPT !.at = @ + 1, !.fail = TRUE] /\ UNCHANGED <<refused, credExit>>

UnitEnvironment ==
    /\ Remotely("unit")
    /\ UnitInPlace \/ UnitMissing \/ RestartLeftOut \/ Restarted \/ RestartFailed
    /\ UNCHANGED <<applies, mishaps>>

SummaryStep ==
    /\ Remotely("summary") /\ UNCHANGED <<runner, applies, mishaps>>
    /\ IF applying.fail THEN HostEnds(FALSE) ELSE Advance

InstallPackages ==
    /\ Remotely("packages") /\ UNCHANGED <<applies, mishaps>>
    /\ \/ applying.skipPackages /\ UNCHANGED runner /\ HostEnds(TRUE)
       \/ ~applying.skipPackages /\ Leaves([runner[Host] EXCEPT !.packages = TRUE]) /\ HostEnds(TRUE)
       \/ ~applying.skipPackages /\ UNCHANGED runner /\ HostEnds(FALSE)

(* A command of the script fails, or the connection is cut, inside a step:  *)
(* what is written in place is left as far as it has come.                  *)
CutShort(r) ==
    {r} \cup {s \in {[r EXCEPT !.keys = "torn"]} : Remotely("keys")}
        \cup {s \in {[r EXCEPT !.config = @ \o <<"begin">>, !.torn = TRUE]} : Remotely("append")}
        \cup {s \in {[r EXCEPT !.cargoOwn = FALSE, !.cargoNet = FALSE, !.torn = TRUE]} : Remotely("cargo")}
        \cup {s \in {[r EXCEPT !.dropin = TRUE, !.owed = TRUE]} : Remotely("unit") /\ ~r.dropin}
HostCut ==
    /\ applying # NotApplying /\ mishaps < MaxMishaps /\ mishaps' = mishaps + 1
    /\ \E left \in CutShort(runner[Host]) : Leaves(left)
    /\ HostEnds(FALSE) /\ UNCHANGED applies

\* Between two commands: a revert, a reboot, a restored ~/.cargo, a line of another hand.
RunnerChanges ==
    /\ applying = NotApplying /\ mishaps < MaxMishaps /\ mishaps' = mishaps + 1
    /\ \E h \in Hosts : \E changed \in {Reverted,
             [runner[h] EXCEPT !.active = @ \/ runner[h].dropin, !.owed = @ /\ ~runner[h].dropin],
             [runner[h] EXCEPT !.cargoNet = FALSE],
             [runner[h] EXCEPT !.config = Append(@, "own"), !.ownLines = @ + 1]} :
          runner' = [runner EXCEPT ![h] = changed]
    /\ credExit' = "none" /\ UNCHANGED <<applying, refused, applies>>

-----------------------------------------------------------------------------
CredentialsInit ==
    /\ runner = [h \in Hosts |-> Reverted] /\ applying = NotApplying /\ refused = {}
    /\ credExit = "none" /\ applies = 0 /\ mishaps = 0

CredentialsNext ==
    \/ StartConfigure \/ WriteKeys \/ StripBlock \/ AppendBlock \/ SetGit \/ PatchCargo
    \/ UnitEnvironment \/ SummaryStep \/ InstallPackages \/ HostCut \/ RunnerChanges

CredentialsTypeOK ==
    /\ applying \in [host : 0..Len(Runners), at : 0..Len(ApplySteps), restart : {"ask", "never", "force"},
                     skipPackages : BOOLEAN, fail : BOOLEAN]
    /\ refused \subseteq Hosts /\ credExit \in {"none", "ok", "failed"}
    /\ \A h \in Hosts : runner[h].keys \in {"none", "torn", "whole"} /\ runner[h].ownLines \in Nat

BlockIsOnce(config) ==
    \E i \in DOMAIN config : /\ i + 1 \in DOMAIN config /\ config[i] = "begin" /\ config[i + 1] = "end"
                             /\ \A k \in DOMAIN config \ {i, i + 1} : config[k] = "own"

(* Exit status 0 means that every runner has all of it, whatever an earlier *)
(* command left behind: whole keys, the block once and closed, the rules of *)
(* git and cargo, the environment in force unless its restart was left out  *)
(* or failed; and that no line of another hand is gone, unless a file was   *)
(* cut short.                                                               *)
ConfiguredMeansWhole ==
    credExit = "ok" => \A h \in Hosts :
        LET r == runner[h] IN
        /\ r.keys = "whole" /\ r.git /\ r.cargoNet /\ r.dropin /\ (r.active \/ r.owed)
        /\ BlockIsOnce(r.config)
        /\ r.torn \/ (r.cargoOwn /\ Len(r.config) = r.ownLines + 2)
=============================================================================
