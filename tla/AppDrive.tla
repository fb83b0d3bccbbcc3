------------------------------- MODULE AppDrive -------------------------------
(***************************************************************************)
(* app-drive launch and close for one app key (env/app_drive_cli.py,       *)
(* app_drive_proc.py, app_drive_state.py): a launch leaves a state file    *)
(* that names the app it spawned by pid, image and creation token, and a   *)
(* later command terminates the process that answers to that name.  To     *)
(* look at it and to signal its pid are two steps.  Commands run one after *)
(* the other; processes die, and their pids are reused, between any two    *)
(* steps of a command.  The port claim that launch and close keep beside   *)
(* the state is PortRegistry's.                                            *)
(***************************************************************************)
EXTENDS Naturals

CONSTANTS
    Pids,        \* pids, positive
    Images,      \* executables
    MaxBorn,     \* bound: how many processes are ever started
    NoProc,      \* no process has the pid
    NoState      \* there is no state file

Tokens == 1..MaxBorn

\* A hidden process cannot be signalled or inspected: pid_alive says no.
Processes == [image : Images, token : Tokens, hidden : BOOLEAN]

\* token 0: a state without an identity; old: a state of an earlier schema.
States == [pid : Pids, image : Images, token : {0} \cup Tokens, old : BOOLEAN]

ASSUME AppDriveAssumption ==
    /\ Pids \subseteq Nat \ {0}
    /\ MaxBorn \in Nat \ {0}
    /\ NoProc \notin Processes
    /\ NoState \notin States

VARIABLES
    proc,        \* the process that has a pid
    born,        \* how many processes were started
    file,        \* the state file
    pc,          \* where the command is
    why,         \* what the termination under way is for
    target,      \* the state whose process it terminates
    want,        \* the image launch was asked for
    child,       \* the pid of the app this command spawned; 0: none
    mine,        \* the state launch has built
    launched,    \* history: the tokens of the apps that were launched
    excused,     \* history: the tokens of the apps the user was told of, or gave up
    seen,        \* history: how many processes there had been when the last look was due
    strayed      \* history: was another process signalled that a look would have shown

vars == <<proc, born, file, pc, why, target, want, child, mine, launched, excused,
          seen, strayed>>

environment == <<proc, born>>
command     == <<why, target, want, child, mine>>
history     == <<launched, excused, seen, strayed>>

HasIdentity(s) == s # NoState /\ s.token # 0

\* Where a termination is.
Terminations == {"ask", "send", "grace", "strike", "killed"}

TypeOK ==
    /\ proc \in [Pids -> Processes \cup {NoProc}]
    /\ born \in 0..MaxBorn
    /\ file \in States \cup {NoState}
    /\ pc \in Terminations \cup
              {"idle", "spawn", "probe", "record", "claim", "page", "abort", "keep"}
    /\ why \in {"close", "force", "replace", "abort"}
    /\ target \in States \cup {NoState}
    /\ want \in Images
    /\ child \in {0} \cup Pids
    /\ mine \in States \cup {NoState}
    /\ launched \subseteq Tokens
    /\ excused \subseteq Tokens
    /\ seen \in 0..born
    /\ strayed \in BOOLEAN
    /\ pc \in Terminations => HasIdentity(target) \/ why \in {"close", "force"}
    /\ pc \in {"record", "claim", "page"} => HasIdentity(mine) /\ child = mine.pid

Exists(n)   == proc[n] # NoProc
PidAlive(n) == Exists(n) /\ ~ proc[n].hidden

\* poll() of the launched app: its pid is its own until the command has ended.
ChildExited == child # 0 /\ proc[child] = NoProc

\* verify_process_identity, when the process can be inspected.
Verified(s) ==
    /\ HasIdentity(s)
    /\ PidAlive(s.pid)
    /\ proc[s.pid].image = s.image
    /\ proc[s.pid].token = s.token

Goto(l) == pc' = l

\* The command has ended: its child is no longer a child.
Done == Goto("idle") /\ child' = 0 /\ mine' = NoState /\ target' = NoState

\* remove_state: an OSError is swallowed.
RemoveState == file' \in {NoState, file}

\* An app that runs and that no state names is given up knowingly.
GiveUp(s) == excused' = IF Exists(s.pid) THEN excused \cup {proc[s.pid].token} ELSE excused

-----------------------------------------------------------------------------
(* Termination: terminate_verified and terminate_tree *)

Terminate(s, reason) ==
    /\ target' = s
    /\ why' = reason
    /\ Goto("ask")

Verifies == why # "force"

\* Is the process that a wait is for gone?  The launcher's own child is waited for by
\* its handle, any other process by its pid.
Gone == IF why = "abort" THEN ChildExited ELSE ~ PidAlive(target.pid)

Succeed ==
    /\ RemoveState
    /\ IF why = "replace"
       THEN Goto("spawn") /\ target' = NoState /\ UNCHANGED <<child, mine>>
       ELSE Done
    /\ UNCHANGED <<environment, why, want, history>>

\* close-failed, pid-mismatch, identity-unavailable: the state is kept.
Fail ==
    /\ IF why = "abort"
       THEN Goto("keep") /\ UNCHANGED <<child, mine, target>>
       ELSE Done
    /\ UNCHANGED <<environment, file, why, want, history>>

\* The signal reaches the process that has the pid now.  A launch owns the pid of its
\* child; whoever has another pid was there to be seen, or came since.
Signalled ==
    strayed' = (strayed \/ /\ Verifies /\ PidAlive(target.pid)
                           /\ proc[target.pid].token # target.token
                           /\ why = "abort" \/ proc[target.pid].token <= seen)

\* Variant: the image and the creation token are not compared.
Look_AnyProcess(l) ==
    /\ Verifies => PidAlive(target.pid)
    /\ seen' = born
    /\ Goto(l)
    /\ UNCHANGED <<environment, command, file, launched, excused, strayed>>

\* The recorded process has the pid; a forced termination does not look.
Look(l) ==
    /\ Verifies => Verified(target)
    /\ seen' = born
    /\ Goto(l)
    /\ UNCHANGED <<environment, command, file, launched, excused, strayed>>

\* Verified, twice, before anything is sent.
Ask == pc = "ask" /\ Look("send")

\* Not the recorded process, or not to be inspected at this moment.
Refuse == pc = "ask" /\ Verifies /\ Fail

\* Between the verification and terminate_tree's own look at the pid it has exited.
AlreadyGone == pc = "send" /\ Gone /\ Succeed

\* The graceful signal, to a pid that is taken.
Send ==
    /\ pc = "send"
    /\ ~ Gone
    /\ Signalled
    /\ Goto("grace")
    /\ UNCHANGED <<environment, command, file, launched, excused, seen>>

Exited == pc \in {"grace", "killed"} /\ Gone /\ Succeed

\* The grace has passed: verified once more.
Recheck == pc = "grace" /\ ~ Gone /\ Look("strike")

RefuseKill == pc = "grace" /\ Verifies /\ Fail

\* The kill goes to whatever has the pid, if anything has.
Kill ==
    /\ pc = "strike"
    /\ Signalled
    /\ proc' \in {proc} \cup (IF PidAlive(target.pid)
                             THEN {[proc EXCEPT ![target.pid] = NoProc]} ELSE {})
    /\ Goto("killed")
    /\ UNCHANGED <<born, command, file, launched, excused, seen>>

\* Variant: the exit is waited for without a deadline.
CloseFailed_Never == FALSE

CloseFailed == pc = "killed" /\ Fail

Termination == \/ Ask \/ Refuse \/ AlreadyGone \/ Send \/ Exited
               \/ Recheck \/ RefuseKill \/ Kill \/ CloseFailed

-----------------------------------------------------------------------------
(* cmd_close *)

Close ==
    /\ pc = "idle"
    /\ file # NoState
    /\ ~ file.old
    /\ PidAlive(file.pid)                   \* else process-unconfirmed
    /\ Terminate(file, "close")
    /\ UNCHANGED <<environment, file, want, child, mine, history>>

\* close --force: no verification; a pid that cannot be observed drops the state.
CloseForce ==
    /\ pc = "idle"
    /\ file # NoState
    /\ ~ file.old
    /\ Terminate(file, "force")
    /\ UNCHANGED <<environment, file, want, child, mine, history>>

\* close --force --discard-state, and --discard-state of an earlier schema.
Discard ==
    /\ pc = "idle"
    /\ file # NoState
    /\ RemoveState
    /\ GiveUp(file)
    /\ UNCHANGED <<environment, pc, command, launched, seen, strayed>>

-----------------------------------------------------------------------------
(* cmd_launch *)

\* Variant: a state is overwritten, whether or not its process runs.
Blocks_Never(s) == FALSE

\* A process that has the recorded pid is in the way, whatever it is.
Blocks(s) == s # NoState /\ ~ s.old /\ PidAlive(s.pid)

Launch(x) ==
    /\ pc = "idle"
    /\ file # NoState => ~ file.old            \* state-outdated: --discard-state first
    /\ ~ Blocks(file)                          \* already-running
    /\ want' = x
    /\ Goto("spawn")
    /\ UNCHANGED <<environment, file, why, target, child, mine, history>>

\* launch --replace, which refuses another image.
Replace(x) ==
    /\ pc = "idle"
    /\ Blocks(file)
    /\ HasIdentity(file) /\ file.image = x     \* replace-exe-mismatch
    /\ want' = x
    /\ Terminate(file, "replace")
    /\ UNCHANGED <<environment, file, child, mine, history>>

\* No port, or no log directory.
AcquireFails ==
    /\ pc = "spawn"
    /\ Done
    /\ UNCHANGED <<environment, file, why, want, history>>

NewProcess(n, x, h) ==
    /\ proc[n] = NoProc
    /\ n # child
    /\ born < MaxBorn
    /\ born' = born + 1
    /\ proc' = [proc EXCEPT ![n] = [image |-> x, token |-> born', hidden |-> h]]

Spawn(n) ==
    /\ pc = "spawn"
    /\ NewProcess(n, want, FALSE)
    /\ launched' = launched \cup {born'}
    /\ child' = n
    /\ Goto("probe")
    /\ UNCHANGED <<file, why, target, want, mine, excused, seen, strayed>>

\* Between two polls that find the app running its identity is read.
ReadIdentity ==
    /\ pc = "probe"
    /\ ~ ChildExited
    /\ mine' = [pid |-> child, image |-> want, token |-> proc[child].token, old |-> FALSE]
    /\ Goto("record")
    /\ UNCHANGED <<environment, file, why, target, want, child, history>>

WriteState ==
    /\ pc = "record"
    /\ file' = mine
    /\ Goto("claim")
    /\ UNCHANGED <<environment, command, history>>

ClaimPort ==
    /\ pc = "claim"
    /\ Goto("page")
    /\ UNCHANGED <<environment, command, file, history>>

LaunchDone ==
    /\ pc = "page"
    /\ Done
    /\ UNCHANGED <<environment, file, why, want, history>>

\* Any step of it fails, or is interrupted: the spawn, the identity, the write, the
\* claim, the wait for the page.
LaunchFails ==
    /\ pc \in {"spawn", "probe", "record", "claim", "page"}
    /\ Goto("abort")
    /\ UNCHANGED <<environment, command, file, history>>

-----------------------------------------------------------------------------
(* _abort_launch *)

Dead == child = 0 \/ ChildExited

AbortDead ==
    /\ pc \in {"abort", "keep"}
    /\ pc = "keep" => mine = NoState
    /\ Dead
    /\ RemoveState
    /\ Done
    /\ UNCHANGED <<environment, why, want, history>>

\* Variant: the bare pid of a child without an identity is signalled too.
AbortTerminate_Blind ==
    /\ pc = "abort"
    /\ ~ Dead
    /\ Terminate(mine, "abort")
    /\ UNCHANGED <<environment, file, want, child, mine, history>>

AbortTerminate ==
    /\ pc = "abort"
    /\ ~ Dead
    /\ HasIdentity(mine)
    /\ Terminate(mine, "abort")
    /\ UNCHANGED <<environment, file, want, child, mine, history>>

\* Without an identity no signal is sent.
AbortRefuse ==
    /\ pc = "abort"
    /\ ~ Dead
    /\ mine = NoState
    /\ Goto("keep")
    /\ UNCHANGED <<environment, command, file, history>>

\* The state that is kept: launch's, or one with the identity that can be read now.
Kept(s) ==
    \/ mine # NoState /\ s = mine
    \/ /\ mine = NoState
       /\ \E t \in {0, proc[child].token} :
             s = [pid |-> child, image |-> want, token |-> t, old |-> FALSE]

Keep ==
    /\ pc = "keep"
    /\ mine = NoState => ~ Dead
    /\ \E s \in States : Kept(s) /\ file' = s
    /\ Done
    /\ UNCHANGED <<environment, why, want, history>>

\* state_write_error: reported.
KeepFails ==
    /\ pc = "keep"
    /\ mine = NoState => ~ Dead
    /\ excused' = excused \cup (IF Exists(child) THEN {proc[child].token} ELSE {})
    /\ Done
    /\ UNCHANGED <<environment, file, why, want, launched, seen, strayed>>

Abort == AbortDead \/ AbortTerminate \/ AbortRefuse \/ Keep \/ KeepFails

-----------------------------------------------------------------------------
(* The environment *)

Die(n) ==
    /\ Exists(n)
    /\ proc' = [proc EXCEPT ![n] = NoProc]
    /\ UNCHANGED <<born, pc, command, file, history>>

\* Some other program starts, and may be given a pid that was an app's.
OtherStarts(n, x, h) ==
    /\ NewProcess(n, x, h)
    /\ UNCHANGED <<pc, command, file, history>>

\* The command is killed.  A launch that has not written its state leaves an app that
\* nobody knows of.
Crash ==
    /\ pc # "idle"
    /\ excused' = IF child # 0 /\ Exists(child) /\ (mine = NoState \/ file # mine)
                  THEN excused \cup {proc[child].token} ELSE excused
    /\ Done
    /\ UNCHANGED <<environment, file, why, want, launched, seen, strayed>>

-----------------------------------------------------------------------------

\* A machine without a state, or with one of an earlier schema whose process runs or
\* does not.
Init ==
    /\ \/ born = 0 /\ proc = [n \in Pids |-> NoProc]
       \/ /\ born = 1
          /\ \E n \in Pids, x \in Images :
                proc = [m \in Pids |-> IF m = n
                                       THEN [image |-> x, token |-> 1, hidden |-> FALSE]
                                       ELSE NoProc]
    /\ file \in {NoState} \cup {s \in States : s.old /\ s.token = 0}
    /\ pc = "idle"
    /\ why = "close"
    /\ target = NoState
    /\ want \in Images
    /\ child = 0
    /\ mine = NoState
    /\ launched = {}
    /\ excused = {}
    /\ seen = 0
    /\ strayed = FALSE

Command == Termination \/ Abort \/ ReadIdentity \/ WriteState \/ ClaimPort \/ LaunchDone
             \/ LaunchFails \/ AcquireFails \/ \E n \in Pids : Spawn(n)

User == Close \/ CloseForce \/ Discard \/ \E x \in Images : Launch(x) \/ Replace(x)

Environment == \E n \in Pids :
    \/ Die(n)
    \/ \E x \in Images, h \in BOOLEAN : OtherStarts(n, x, h)

Next == Command \/ User \/ Environment \/ Crash

\* The command itself is scheduled.
Spec == Init /\ [][Next]_vars /\ WF_vars(Command)

-----------------------------------------------------------------------------
(* Properties *)

\* "app-drive only closes the process it launched and can verify": without --force a
\* signal reaches the process the state records, or one that took its pid after the
\* verification right before this signal and that no look could show; the grace between
\* the two signals is no such gap.  A launch that ends its own child reaches no other.
OnlyRecordedSignalled == ~ strayed

\* No app is forgotten: one that was launched and runs is named by the state file when
\* no command is under way, unless the user discarded it, was told of it, or killed
\* its launcher.
NoSilentOrphan ==
    pc = "idle" => \A n \in Pids :
        Exists(n) /\ proc[n].token \in launched \ excused =>
            /\ file # NoState /\ file.pid = n
            /\ file.token \in {0, proc[n].token}

\* Every command ends, whatever the processes do.
CommandEnds == pc # "idle" ~> pc = "idle"
=============================================================================
