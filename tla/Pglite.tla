------------------------------- MODULE Pglite -------------------------------
(***************************************************************************)
(* The temporary databases (env/pglite.py): a start spawns a node server   *)
(* for a named instance, waits for its READY line and writes a sidecar     *)
(* with its process number; a later start reuses it, a stop signals it.    *)
(***************************************************************************)
EXTENDS Naturals, FiniteSets

CONSTANTS
    Instances,         \* instance names, each with a sidecar of its own
    Callers,           \* who runs start and stop
    ServerPids,        \* process numbers
    NoServer,          \* no sidecar
    MaxPgliteCommands  \* bound: commands run

ASSUME PgliteAssumption == NoServer \notin ServerPids /\ MaxPgliteCommands \in Nat

VARIABLES
    servers,     \* pid -> the instance it serves, whether it is ready, or a stranger
    pgSidecar,   \* instance -> the pid recorded
    packages,    \* the node packages are installed
    call,        \* caller -> the command: its step, instance and pid
    pgliteCommands

pgliteVars == <<servers, pgSidecar, packages, call, pgliteCommands>>

NoCall == [step |-> "none", of |-> NoServer, pid |-> NoServer]

PgliteTypeOK ==
    /\ servers \in [ServerPids -> [is : {"none", "stranger", "boots", "ready", "stops"},
                                   of : Instances \cup {NoServer}]]
    /\ pgSidecar \in [Instances -> ServerPids \cup {NoServer}]
    /\ packages \in BOOLEAN
    /\ call \in [Callers -> [step : {"none", "start", "spawn", "wait", "stop", "stopping"},
                             of : Instances \cup {NoServer}, pid : ServerPids \cup {NoServer}]]
    /\ pgliteCommands \in 0..MaxPgliteCommands

Nobody == [is |-> "none", of |-> NoServer]
Stranger == [is |-> "stranger", of |-> NoServer]

\* _proc_alive, a stranger with the number included.
ProcAlive(p) == p # NoServer /\ servers[p] # Nobody

Does(c, r) == call' = [call EXCEPT ![c] = r]

-----------------------------------------------------------------------------
PgliteStart(c, i) ==
    /\ call[c] = NoCall /\ pgliteCommands < MaxPgliteCommands
    /\ pgliteCommands' = pgliteCommands + 1
    /\ \E force \in BOOLEAN :
          Does(c, IF ~force /\ ProcAlive(pgSidecar[i]) THEN NoCall
                  ELSE [step |-> "start", of |-> i, pid |-> NoServer])
    /\ UNCHANGED <<servers, pgSidecar, packages>>

\* package.json is written before npm runs: after a failure it lists what is not installed.
EnsureNodePackages(c) ==
    /\ call[c].step = "start"
    /\ \/ packages' = TRUE /\ Does(c, [call[c] EXCEPT !.step = "spawn"])
       \/ ~packages /\ packages' = TRUE /\ Does(c, NoCall)
    /\ UNCHANGED <<servers, pgSidecar, pgliteCommands>>

\* --force stops nothing: the server of the old sidecar stays.
SpawnServer(c) ==
    /\ call[c].step = "spawn"
    /\ \E p \in ServerPids :
          /\ servers[p] = Nobody
          /\ servers' = [servers EXCEPT ![p] = [is |-> "boots", of |-> call[c].of]]
          /\ Does(c, [call[c] EXCEPT !.step = "wait", !.pid = p])
    /\ UNCHANGED <<pgSidecar, packages, pgliteCommands>>

ServerReady(p) ==
    /\ servers[p].is = "boots"
    /\ servers' = [servers EXCEPT ![p].is = "ready"]
    /\ UNCHANGED <<pgSidecar, packages, call, pgliteCommands>>

\* The READY line is read: the sidecar is written over whatever is there.
ReadReady(c) ==
    /\ call[c].step = "wait"
    /\ servers[call[c].pid] = [is |-> "ready", of |-> call[c].of]
    /\ pgSidecar' = [pgSidecar EXCEPT ![call[c].of] = call[c].pid]
    /\ Does(c, NoCall)
    /\ UNCHANGED <<servers, packages, pgliteCommands>>

\* No line in time, or the server is gone: it is killed. A silent server is waited for for ever.
NotReady(c) ==
    /\ call[c].step = "wait"
    /\ servers' = [servers EXCEPT ![call[c].pid] = Nobody]
    /\ Does(c, NoCall)
    /\ UNCHANGED <<pgSidecar, packages, pgliteCommands>>

PgliteStop(c, i) ==
    /\ call[c] = NoCall /\ pgliteCommands < MaxPgliteCommands
    /\ pgliteCommands' = pgliteCommands + 1
    /\ IF ProcAlive(pgSidecar[i])
       THEN /\ Does(c, [step |-> "stop", of |-> i, pid |-> pgSidecar[i]])
            /\ UNCHANGED pgSidecar
       ELSE Does(c, NoCall) /\ pgSidecar' = [pgSidecar EXCEPT ![i] = NoServer]
    /\ UNCHANGED <<servers, packages>>

\* SIGTERM: a stranger of that number is ended, a server goes down in its own time.
TermServer(c) ==
    /\ call[c].step = "stop"
    /\ LET p == call[c].pid
       IN  servers' = [servers EXCEPT ![p] = IF @ \in {Nobody, Stranger} THEN Nobody
                                             ELSE [@ EXCEPT !.is = "stops"]]
    /\ Does(c, [call[c] EXCEPT !.step = "stopping"])
    /\ UNCHANGED <<pgSidecar, packages, pgliteCommands>>

\* After two seconds at most, the server gone or not.
ClearSidecar(c) ==
    /\ call[c].step = "stopping"
    /\ pgSidecar' = [pgSidecar EXCEPT ![call[c].of] = NoServer]
    /\ Does(c, NoCall)
    /\ UNCHANGED <<servers, packages, pgliteCommands>>

ServerEnds(p) ==
    /\ servers[p] # Nobody
    /\ servers' = [servers EXCEPT ![p] = Nobody]
    /\ UNCHANGED <<pgSidecar, packages, call, pgliteCommands>>

NumberReused(p) ==
    /\ servers[p] = Nobody
    /\ \A c \in Callers : call[c].step = "wait" => call[c].pid # p   \* a child not reaped
    /\ servers' = [servers EXCEPT ![p] = Stranger]
    /\ UNCHANGED <<pgSidecar, packages, call, pgliteCommands>>

PgliteInit ==
    /\ servers = [p \in ServerPids |-> Nobody]
    /\ pgSidecar = [i \in Instances |-> NoServer]
    /\ packages = FALSE /\ call = [c \in Callers |-> NoCall] /\ pgliteCommands = 0

PgliteNext ==
    \/ \E c \in Callers : \/ EnsureNodePackages(c) \/ SpawnServer(c) \/ ReadReady(c)
                          \/ NotReady(c) \/ TermServer(c) \/ ClearSidecar(c)
                          \/ \E i \in Instances : PgliteStart(c, i) \/ PgliteStop(c, i)
    \/ \E p \in ServerPids : ServerReady(p) \/ ServerEnds(p) \/ NumberReused(p)

PgliteSpec == PgliteInit /\ [][PgliteNext]_pgliteVars
=============================================================================
