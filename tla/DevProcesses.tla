----------------------------- MODULE DevProcesses -----------------------------
(***************************************************************************)
(* The two programs that own processes of the development environment.     *)
(* The malkuth daemon's commands (env/daemon.py) know it by the number in  *)
(* a pid file and take any process of that number for it.  Commands run    *)
(* side by side; daemons die and their numbers are given to other          *)
(* processes.                                                              *)
(* The process manager of the dev scripts (env/serve.py) starts tagged     *)
(* children, each the leader of a process group that may hold a helper     *)
(* more, restarts them, and when one exits or a signal comes ends them     *)
(* all.                                                                    *)
(***************************************************************************)
EXTENDS Naturals

CONSTANTS
    Shells,            \* who runs commands
    DaemonPids,        \* the process numbers there are
    NoPid,             \* no such file, or one without a number in it
    MaxDaemonCommands  \* bound: commands run

ASSUME DaemonAssumption == NoPid \notin DaemonPids /\ MaxDaemonCommands \in Nat

VARIABLES
    processes,   \* pid -> "daemon" or "stranger"
    pidFile,
    shell,       \* what each shell is doing
    pidRead,     \* the number it read
    daemonConfig,
    daemonCommands

daemonVars == <<processes, pidFile, shell, pidRead, daemonConfig, daemonCommands>>

DaemonTypeOK ==
    /\ processes \in [DaemonPids -> {"none", "daemon", "stranger"}]
    /\ pidFile \in DaemonPids \cup {NoPid}
    /\ shell \in [Shells -> {"idle", "start", "opened", "spawned", "stop", "term", "kill", "unlink"}]
    /\ pidRead \in [Shells -> DaemonPids \cup {NoPid}]
    /\ daemonConfig \in BOOLEAN
    /\ daemonCommands \in 0..MaxDaemonCommands

Exists(p) == p # NoPid /\ processes[p] # "none"

\* _daemon_running
DaemonRunning == Exists(pidFile)

\* generate-config, for repositories whose binaries daemon build has made.
GenerateConfig ==
    /\ ~daemonConfig
    /\ daemonConfig' = TRUE
    /\ UNCHANGED <<processes, pidFile, shell, pidRead, daemonCommands>>

ShellGoes(s, step) == shell' = [shell EXCEPT ![s] = step]

StartDaemon(s) ==
    /\ shell[s] = "idle" /\ daemonCommands < MaxDaemonCommands
    /\ daemonConfig
    /\ daemonCommands' = daemonCommands + 1
    /\ ShellGoes(s, IF DaemonRunning THEN "idle" ELSE "start")
    /\ UNCHANGED <<processes, pidFile, pidRead, daemonConfig>>

\* Opening the file for writing empties it.
OpenPidFile(s) ==
    /\ shell[s] = "start"
    /\ pidFile' = NoPid
    /\ ShellGoes(s, "opened")
    /\ UNCHANGED <<processes, pidRead, daemonConfig, daemonCommands>>

\* Popen; without the malkuth program it throws and the file stays empty.
SpawnDaemon(s) ==
    /\ shell[s] = "opened"
    /\ \/ \E p \in DaemonPids :
             /\ processes[p] = "none"
             /\ processes' = [processes EXCEPT ![p] = "daemon"]
             /\ pidRead' = [pidRead EXCEPT ![s] = p]
             /\ ShellGoes(s, "spawned")
       \/ ShellGoes(s, "idle") /\ UNCHANGED <<processes, pidRead>>
    /\ UNCHANGED <<pidFile, daemonConfig, daemonCommands>>

WritePid(s) ==
    /\ shell[s] = "spawned"
    /\ pidFile' = pidRead[s]
    /\ ShellGoes(s, "idle")
    /\ pidRead' = [pidRead EXCEPT ![s] = NoPid]
    /\ UNCHANGED <<processes, daemonConfig, daemonCommands>>

StopDaemon(s) ==
    /\ shell[s] = "idle" /\ daemonCommands < MaxDaemonCommands
    /\ daemonCommands' = daemonCommands + 1
    /\ ShellGoes(s, IF DaemonRunning THEN "stop" ELSE "idle")
    /\ UNCHANGED <<processes, pidFile, pidRead, daemonConfig>>

ReadPid(s) ==
    /\ shell[s] = "stop"
    /\ pidRead' = [pidRead EXCEPT ![s] = pidFile]
    /\ ShellGoes(s, IF pidFile = NoPid THEN "unlink" ELSE "term")
    /\ UNCHANGED <<processes, pidFile, daemonConfig, daemonCommands>>

\* The signal ends the process at once or, a drain, later.
Signal(s) ==
    /\ shell[s] = "term"
    /\ IF Exists(pidRead[s])
       THEN /\ processes' \in {processes, [processes EXCEPT ![pidRead[s]] = "none"]}
            /\ ShellGoes(s, "kill")
       ELSE processes' = processes /\ ShellGoes(s, "unlink")
    /\ UNCHANGED <<pidFile, pidRead, daemonConfig, daemonCommands>>

\* The second look is at the file again, the second signal goes to the first number.
KillIfRunning(s) ==
    /\ shell[s] = "kill"
    /\ processes' = IF DaemonRunning /\ Exists(pidRead[s])
                    THEN [processes EXCEPT ![pidRead[s]] = "none"] ELSE processes
    /\ ShellGoes(s, "unlink")
    /\ UNCHANGED <<pidFile, pidRead, daemonConfig, daemonCommands>>

UnlinkPidFile(s) ==
    /\ shell[s] = "unlink"
    /\ pidFile' = NoPid
    /\ pidRead' = [pidRead EXCEPT ![s] = NoPid]
    /\ ShellGoes(s, "idle")
    /\ UNCHANGED <<processes, daemonConfig, daemonCommands>>

ProcessEnds(p) ==
    /\ processes[p] # "none"
    /\ processes' = [processes EXCEPT ![p] = "none"]
    /\ UNCHANGED <<pidFile, shell, pidRead, daemonConfig, daemonCommands>>

StrangerStarts(p) ==
    /\ processes[p] = "none"
    /\ processes' = [processes EXCEPT ![p] = "stranger"]
    /\ UNCHANGED <<pidFile, shell, pidRead, daemonConfig, daemonCommands>>

DaemonInit ==
    /\ processes = [p \in DaemonPids |-> "none"] /\ pidFile = NoPid
    /\ shell = [s \in Shells |-> "idle"] /\ pidRead = [s \in Shells |-> NoPid]
    /\ daemonConfig = FALSE /\ daemonCommands = 0

DaemonNext ==
    \/ GenerateConfig
    \/ \E s \in Shells : StartDaemon(s) \/ OpenPidFile(s) \/ SpawnDaemon(s) \/ WritePid(s)
                         \/ StopDaemon(s) \/ ReadPid(s) \/ Signal(s) \/ KillIfRunning(s)
                         \/ UnlinkPidFile(s)
    \/ \E p \in DaemonPids : ProcessEnds(p) \/ StrangerStarts(p)

DaemonSpec == DaemonInit /\ [][DaemonNext]_daemonVars

-----------------------------------------------------------------------------
(* serve *)

CONSTANTS
    Tags,           \* the children
    MaxServeStarts  \* bound: children ever started

ASSUME ServeAssumption == MaxServeStarts \in Nat

VARIABLES
    child,        \* tag -> the group's leader and its helper
    ready,        \* the tags whose readiness line was read
    manager,      \* what the script is doing
    toEnd,        \* the children shutdown has still to look at
    serveStarts

serveVars == <<child, ready, manager, toEnd, serveStarts>>

NoChild == [leader |-> "none", helper |-> FALSE]

ServeTypeOK ==
    /\ child \in [Tags -> [leader : {"none", "runs", "told", "exited", "killed"},
                           helper : BOOLEAN]]
    /\ ready \subseteq Tags
    /\ manager \in {"script", "restart", "waits", "term", "reap", "done", "aborted"}
    /\ toEnd \subseteq Tags
    /\ serveStarts \in 0..MaxServeStarts

Alive(t) == child[t].leader \in {"runs", "told"}

\* The group's SIGTERM: the helper goes, the leader is told and may take its time.
Terminated(c) == [c EXCEPT !.leader = "told", !.helper = FALSE]
\* kill() reaches the leader alone.
Killed_(c) == [c EXCEPT !.leader = "killed"]

-----------------------------------------------------------------------------
Start(t) ==
    /\ serveStarts < MaxServeStarts
    /\ child' = [child EXCEPT ![t] = [leader |-> "runs", helper |-> FALSE]]
    /\ serveStarts' = serveStarts + 1

ScriptStarts(t) ==
    /\ manager = "script" /\ child[t] = NoChild
    /\ Start(t)
    /\ UNCHANGED <<ready, manager, toEnd>>

\* restart: tell the group, wait, kill, start anew; the helper of a dead leader is left.
RestartTells(t) ==
    /\ manager = "script" /\ child[t] # NoChild
    /\ serveStarts < MaxServeStarts
    /\ child' = IF Alive(t) THEN [child EXCEPT ![t] = Terminated(@)] ELSE child
    /\ manager' = "restart" /\ toEnd' = {t}
    /\ UNCHANGED <<ready, serveStarts>>

RestartStarts(t) ==
    /\ manager = "restart" /\ t \in toEnd
    /\ Start(t)                          \* the leader exited in time, or is killed here
    /\ manager' = "script" /\ toEnd' = {}
    /\ UNCHANGED ready

ChildExits(t) ==
    /\ Alive(t)
    /\ child' = [child EXCEPT ![t].leader = "exited"]
    /\ UNCHANGED <<ready, manager, toEnd, serveStarts>>

SpawnsHelper(t) ==
    /\ child[t].leader = "runs" /\ ~child[t].helper
    /\ child' = [child EXCEPT ![t].helper = TRUE]
    /\ UNCHANGED <<ready, manager, toEnd, serveStarts>>

\* _stream_tagged: until shutdown sets the stop event.
ReadyLine(t) ==
    /\ Alive(t) /\ t \notin ready
    /\ manager \in {"script", "restart", "waits"}
    /\ ready' = ready \cup {t}
    /\ UNCHANGED <<child, manager, toEnd, serveStarts>>

-----------------------------------------------------------------------------
WaitForever ==
    /\ manager = "script" /\ \E t \in Tags : child[t] # NoChild
    /\ manager' = "waits"
    /\ UNCHANGED <<child, ready, toEnd, serveStarts>>

Begun == {t \in Tags : child[t] # NoChild}

\* any_dead, or the first signal.
BeginShutdown ==
    /\ manager = "waits"
    /\ manager' = "term" /\ toEnd' = Begun
    /\ UNCHANGED <<child, ready, serveStarts>>

TermOne(t) ==
    /\ manager = "term" /\ t \in toEnd
    /\ child' = IF Alive(t) THEN [child EXCEPT ![t] = Terminated(@)] ELSE child
    /\ toEnd' = toEnd \ {t}
    /\ UNCHANGED <<ready, manager, serveStarts>>

AllTold ==
    /\ manager = "term" /\ toEnd = {}
    /\ manager' = "reap" /\ toEnd' = Begun
    /\ UNCHANGED <<child, ready, serveStarts>>

\* It exited in time, or is killed.
ReapOne(t) ==
    /\ manager = "reap" /\ t \in toEnd
    /\ child' = IF Alive(t) THEN [child EXCEPT ![t] = Killed_(@)] ELSE child
    /\ toEnd' = toEnd \ {t}
    /\ UNCHANGED <<ready, manager, serveStarts>>

AllReaped ==
    /\ manager = "reap" /\ toEnd = {}
    /\ manager' = "done"
    /\ UNCHANGED <<child, ready, toEnd, serveStarts>>

\* The handler stays installed: a second signal throws out of shutdown.
SecondSignal ==
    /\ manager \in {"term", "reap"}
    /\ manager' = "aborted"
    /\ UNCHANGED <<child, ready, toEnd, serveStarts>>

ServeInit ==
    /\ child = [t \in Tags |-> NoChild] /\ ready = {} /\ manager = "script"
    /\ toEnd = {} /\ serveStarts = 0

ServeNext ==
    \/ WaitForever \/ BeginShutdown \/ AllTold \/ AllReaped \/ SecondSignal
    \/ \E t \in Tags : ScriptStarts(t) \/ RestartTells(t) \/ RestartStarts(t) \/ ChildExits(t)
                       \/ SpawnsHelper(t) \/ ReadyLine(t) \/ TermOne(t) \/ ReapOne(t)

ServeSpec == ServeInit /\ [][ServeNext]_serveVars

-----------------------------------------------------------------------------
(* A shutdown that runs to its end leaves no child alive, however the       *)
(* children take the signal and whatever was restarted before (shutdown).   *)
(* Their helpers and a second signal are not covered: see the README.       *)
ShutdownEndsAll == manager = "done" => \A t \in Tags : ~Alive(t)
=============================================================================
