------------------------------- MODULE Sandbox -------------------------------
(***************************************************************************)
(* The temporary directories of the browser tests (env/e2e_sandbox.py): a  *)
(* run makes a box, gives it to its command as TMPDIR and removes it       *)
(* however the command ends; two sweeps remove what killed runs leave.  A  *)
(* box's age is that of the directory itself: writes inside its tmp/ do    *)
(* not refresh it.                                                         *)
(***************************************************************************)
EXTENDS Naturals

CONSTANTS
    Wrappers,      \* the runs
    MAX_AGE,       \* the sweep's age
    Keepers        \* the runs given --keep

ASSUME SandboxAssumption == MAX_AGE \in Nat \ {0} /\ Keepers \subseteq Wrappers

VARIABLES
    box,       \* run -> its box: whether it is there, and its age
    wrapper,   \* run -> where cmd_run is
    command    \* run -> the wrapped command's group: its leader, others

sandboxVars == <<box, wrapper, command>>

SandboxTypeOK ==
    /\ box \in [Wrappers -> [there : BOOLEAN, age : 0..MAX_AGE]]
    /\ wrapper \in [Wrappers -> {"none", "box", "runs", "ends", "cleans", "done", "killed"}]
    /\ command \in [Wrappers -> [leader : BOOLEAN, others : BOOLEAN]]

WrapperGoes(r, step) == wrapper' = [wrapper EXCEPT ![r] = step]

NewSandbox(r) ==
    /\ wrapper[r] = "none"
    /\ box' = [box EXCEPT ![r] = [there |-> TRUE, age |-> 0]]
    /\ WrapperGoes(r, "box")
    /\ UNCHANGED command

\* Handlers are installed and the command starts; Popen that throws goes to the cleaning.
RunCommand(r) ==
    /\ wrapper[r] = "box"
    /\ \/ /\ WrapperGoes(r, "runs")
          /\ command' = [command EXCEPT ![r] = [leader |-> TRUE, others |-> FALSE]]
       \/ WrapperGoes(r, "cleans") /\ UNCHANGED command
    /\ UNCHANGED box

CommandForks(r) ==
    /\ command[r].leader /\ ~command[r].others
    /\ command' = [command EXCEPT ![r].others = TRUE]
    /\ UNCHANGED <<box, wrapper>>

CommandExits(r) ==
    /\ command[r].leader
    /\ command' = [command EXCEPT ![r].leader = FALSE]
    /\ UNCHANGED <<box, wrapper>>

OthersExit(r) ==
    /\ command[r].others
    /\ command' = [command EXCEPT ![r].others = FALSE]
    /\ UNCHANGED <<box, wrapper>>

\* The command ended by itself: nothing is signalled.
SeesExit(r) ==
    /\ wrapper[r] = "runs" /\ ~command[r].leader
    /\ WrapperGoes(r, "cleans")
    /\ UNCHANGED <<box, command>>

\* --timeout: SIGKILL to the whole group.
TimesOut(r) ==
    /\ wrapper[r] = "runs" /\ command[r].leader
    /\ command' = [command EXCEPT ![r] = [leader |-> FALSE, others |-> FALSE]]
    /\ WrapperGoes(r, "cleans")
    /\ UNCHANGED box

\* SIGTERM, SIGHUP or SIGINT is passed on to the group, and the leader waited for.
Interrupted(r) ==
    /\ wrapper[r] = "runs" /\ command[r].leader
    /\ command' \in {command, [command EXCEPT ![r].others = FALSE]}
    /\ WrapperGoes(r, "ends")
    /\ UNCHANGED box

LeaderEnded(r) ==
    /\ wrapper[r] = "ends" /\ ~command[r].leader
    /\ WrapperGoes(r, "cleans")
    /\ UNCHANGED <<box, command>>

\* rmtree(ignore_errors): what others still write may keep the directory there.
CleansUp(r) ==
    /\ wrapper[r] = "cleans"
    /\ box' \in {b \in {box, [box EXCEPT ![r].there = FALSE]} :
                    \/ r \in Keepers /\ b = box
                    \/ r \notin Keepers /\ (b # box \/ command[r].others \/ ~box[r].there)}
    /\ WrapperGoes(r, "done")
    /\ UNCHANGED command

\* SIGKILL at any time; any signal before the handlers are there, or after they are gone.
WrapperKilled(r) ==
    /\ wrapper[r] \in {"box", "runs", "ends", "cleans"}
    /\ WrapperGoes(r, "killed")
    /\ UNCHANGED <<box, command>>

BoxAges ==
    /\ \E r \in Wrappers : box[r].there /\ box[r].age < MAX_AGE
    /\ box' = [r \in Wrappers |->
                 IF box[r].there /\ box[r].age < MAX_AGE THEN [box[r] EXCEPT !.age = @ + 1]
                 ELSE box[r]]
    /\ UNCHANGED <<wrapper, command>>

\* cmd_sweep and cmd_sweep_tmp: by the age of the directory, whoever uses it.
SweepBoxes(r) ==
    /\ box[r].there /\ box[r].age = MAX_AGE
    /\ box' = [box EXCEPT ![r].there = FALSE]
    /\ UNCHANGED <<wrapper, command>>

SandboxInit ==
    /\ box = [r \in Wrappers |-> [there |-> FALSE, age |-> 0]]
    /\ wrapper = [r \in Wrappers |-> "none"]
    /\ command = [r \in Wrappers |-> [leader |-> FALSE, others |-> FALSE]]

SandboxNext ==
    \/ BoxAges
    \/ \E r \in Wrappers :
          \/ NewSandbox(r) \/ RunCommand(r) \/ CommandForks(r) \/ CommandExits(r)
          \/ OthersExit(r) \/ SeesExit(r) \/ TimesOut(r) \/ Interrupted(r) \/ LeaderEnded(r)
          \/ CleansUp(r) \/ WrapperKilled(r) \/ SweepBoxes(r)

SandboxSpec == SandboxInit /\ [][SandboxNext]_sandboxVars
=============================================================================
