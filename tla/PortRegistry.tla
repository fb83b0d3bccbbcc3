----------------------------- MODULE PortRegistry -----------------------------
(***************************************************************************)
(* The ports registry of celestia_devtools/env/ports.py as its commands    *)
(* and app-drive launch / close use it.  Every command is a short-lived    *)
(* CLI process that reads, changes and rewrites the registry under         *)
(* registry_lock (here the abstract lock of Mutex, which RegistryLock      *)
(* implements); a launch takes the lock twice, to acquire a port for       *)
(* itself and to hand the claim to the app it has spawned in between.      *)
(* An app is named by the CLI process that launched it.                    *)
(*                                                                         *)
(* Nothing keeps commands for one app apart, and a launcher may end with   *)
(* its app running unclaimed.  Both happen here; the history variable      *)
(* astray remembers to which commands, and the properties say what a       *)
(* command to which neither happened may rely on.                          *)
(***************************************************************************)
EXTENDS Naturals, Sequences, FiniteSets

CONSTANTS
    Clis,        \* the CLI processes, each of which runs one command
    Keys,        \* "app:kind"
    Window,      \* the ports tried for a key, from the preferred one on
    NoClaim      \* a key that is not in the registry

ASSUME PortAssumption ==
    /\ IsFiniteSet(Clis)
    /\ Keys # {}
    /\ Window \in [Keys -> Seq(Nat \ {0})]
    /\ NoClaim \notin [port : Nat, owner : {"cli", "app"} \X Clis]

VARIABLES
    pc,          \* where a CLI process is
    cmd,         \* its command
    work,        \* the registry operation it is at
    port,        \* the port it was given; 0 before
    cursor,      \* how many ports of the window it has tried
    entries,     \* the registry as it has read and changed it
    registry,    \* the registry file
    holder,      \* who holds registry_lock
    app,         \* the app a launch has spawned
    known,       \* the launches whose app a state file names, one for each key
    foreign,     \* the ports that programs outside celestia listen on
    astray       \* history: what has happened to a command, or to its app, that the
                 \* registry does not guard against

vars == <<pc, cmd, work, port, cursor, entries, registry, holder, app, known, foreign, astray>>

Lock == INSTANCE Mutex WITH Procs <- Clis

Ops     == {"acquire", "launch", "close", "release", "list"}
Works   == {"acquire", "claim", "keep", "release", "list"}
Owners  == {"cli", "app"} \X Clis
Ports   == UNION {{Window[k][i] : i \in 1..Len(Window[k])} : k \in Keys}
Claims  == [port : Ports, owner : Owners]
Tables  == [Keys -> Claims \cup {NoClaim}]
Empty   == [k \in Keys |-> NoClaim]

\* "acquired": someone ran acquire for an app that runs; "yes": other commands ran for
\* the same app at the same time; or a launch, release or close did not see an app
\* that runs; or the launcher ended, killed or unable to write the registry, while its
\* app ran unclaimed.
Levels == {"no", "acquired", "yes"}

TypeOK ==
    /\ pc \in [Clis -> {"new", "lock", "scan", "save", "spawn", "record",
                        "abort", "exit", "done"}]
    /\ cmd \in [Clis -> [op : Ops, key : Keys]]
    /\ work \in [Clis -> Works]
    /\ port \in [Clis -> Ports \cup {0}]
    /\ cursor \in [Clis -> Nat]
    /\ entries \in [Clis -> Tables]
    /\ registry \in Tables
    /\ holder \in SUBSET Clis
    /\ app \in [Clis -> {"none", "booting", "listening", "dead"}]
    /\ known \subseteq Clis
    /\ foreign \subseteq Ports
    /\ astray \in [Clis -> Levels]

Key(c)      == cmd[c].key
Active(c)   == pc[c] \notin {"new", "done"}
AppLive(c)  == app[c] \in {"booting", "listening"}
Busy(c)     == Active(c) /\ cmd[c].op # "list"
Known(k)    == {c \in known : Key(c) = k}       \* read_state

\* pid_alive, of a CLI process or of a launched app.
PidAlive(o) == IF o[1] = "cli" THEN Active(o[2]) ELSE AppLive(o[2])

Listening(p) == p \in foreign \/ \E c \in Clis : app[c] = "listening" /\ port[c] = p

\* _load, then _gc.
Gc(table) == [k \in Keys |-> IF table[k] # NoClaim /\ PidAlive(table[k].owner)
                             THEN table[k] ELSE NoClaim]

Taken(table) == {table[k].port : k \in {j \in Keys : table[j] # NoClaim}}

OwnedBy(kind, c, p) == [port |-> p, owner |-> <<kind, c>>]

\* The app runs, and the registry has not its claim.
Unclaimed(c) == AppLive(c) /\ registry[Key(c)] # OwnedBy("app", c, port[c])

Goto(c, l) == pc' = [pc EXCEPT ![c] = l]

-----------------------------------------------------------------------------
(* Commands *)

Rivals(c, k) == {d \in Clis \ {c} : Busy(d) /\ Key(d) = k}

\* The apps of the key that a command finds running; close ends the one it knows.
Survivors(op, k) ==
    {d \in Clis : AppLive(d) /\ Key(d) = k /\ ~ (op = "close" /\ d \in known)}

\* Acquires alone do each other no harm.
Gentle(c, op, k, levels) ==
    \A d \in Rivals(c, k) : op = "acquire" /\ cmd[d].op = "acquire" /\ astray[d] \in levels

Level(c, op, k) ==
    IF op = "list" \/ (Survivors(op, k) = {} /\ Gentle(c, op, k, {"no"})) THEN "no"
    ELSE IF op = "acquire" /\ Gentle(c, op, k, {"no", "acquired"}) THEN "acquired" ELSE "yes"

Worse(a, b) == IF a = "yes" \/ b = "no" THEN a ELSE b

Start(c, op, k) ==
    /\ pc[c] = "new"
    /\ op = "list" => k = Key(c)                             \* of no key
    /\ op = "launch" => \A d \in Known(k) : ~ AppLive(d)    \* already-running
    /\ op = "close" => Known(k) # {}                         \* no-state
    /\ cmd' = [cmd EXCEPT ![c] = [op |-> op, key |-> k]]
    /\ work' = [work EXCEPT ![c] = CASE op \in {"acquire", "launch"} -> "acquire"
                                     [] op \in {"close", "release"} -> "release"
                                     [] op = "list" -> "list"]
    /\ app' = [d \in Clis |-> IF op = "close" /\ d \in Known(k) /\ AppLive(d) THEN "dead"
                              ELSE app[d]]        \* terminate_verified
    /\ known' = IF op = "close" THEN known \ Known(k) ELSE known
    /\ astray' = [d \in Clis |-> IF d \in {c} \cup Rivals(c, k) \cup Survivors(op, k)
                                 THEN Worse(astray[d], Level(c, op, k)) ELSE astray[d]]
    /\ Goto(c, "lock")
    /\ UNCHANGED <<port, cursor, entries, registry, holder, foreign>>

\* What an operation that fails, or a registry that cannot be written, leads to.
AfterFailure(c) == IF work[c] = "claim" THEN "abort" ELSE "done"

\* The command ends here, perhaps with its app running unclaimed.
Orphaned(c) ==
    astray' = [astray EXCEPT ![c] = IF Unclaimed(c) THEN "yes" ELSE @]

LockTimeout(c) ==
    /\ pc[c] = "lock"
    /\ IF work[c] = "keep" THEN Orphaned(c) ELSE UNCHANGED astray
    /\ Goto(c, AfterFailure(c))
    /\ UNCHANGED <<cmd, work, port, cursor, entries, registry, holder, app, known, foreign>>

-----------------------------------------------------------------------------
(* Inside the with block of acquire, claim, release and list_entries *)

\* Variant: a claim of the app is not kept, the port is chosen anew.
Held_Never(c, table) == FALSE

Held(c, table) == table[Key(c)] # NoClaim

\* acquire of a key that is held: same port, and the caller's pid.
Reacquire(c) ==
    /\ work[c] = "acquire"
    /\ Held(c, Gc(registry))
    /\ LET p == Gc(registry)[Key(c)].port
       IN  /\ port' = [port EXCEPT ![c] = p]
           /\ entries' = [entries EXCEPT ![c] =
                             [Gc(registry) EXCEPT ![Key(c)] = OwnedBy("cli", c, p)]]
    /\ Goto(c, "save")
    /\ UNCHANGED cursor

BeginScan(c) ==
    /\ work[c] = "acquire"
    /\ ~ Held(c, Gc(registry))
    /\ entries' = [entries EXCEPT ![c] = Gc(registry)]
    /\ cursor' = [cursor EXCEPT ![c] = 0]
    /\ Goto(c, "scan")
    /\ UNCHANGED port

\* Variant: the claim is left with the process that acquired it.
Claimed_ByCaller(c) == OwnedBy("cli", c, port[c])

Claimed(c) == OwnedBy("app", c, port[c])

Rewrite(c) ==
    /\ work[c] # "acquire"
    /\ entries' = [entries EXCEPT ![c] =
                      CASE work[c] \in {"claim", "keep"} -> [Gc(registry) EXCEPT ![Key(c)] = Claimed(c)]
                        [] work[c] = "release" -> [Gc(registry) EXCEPT ![Key(c)] = NoClaim]
                        [] work[c] = "list" -> Gc(registry)]
    /\ Goto(c, "save")
    /\ UNCHANGED <<port, cursor>>

\* Variant: the registry is read without the lock.
Load_Free(c) ==
    /\ pc[c] = "lock"
    /\ Reacquire(c) \/ BeginScan(c) \/ Rewrite(c)
    /\ UNCHANGED <<cmd, work, registry, holder, app, known, foreign, astray>>

\* The lock is taken, and the file read; nobody else can write it in between.
Load(c) ==
    /\ pc[c] = "lock"
    /\ Lock!Enter(c)
    /\ Reacquire(c) \/ BeginScan(c) \/ Rewrite(c)
    /\ UNCHANGED <<cmd, work, registry, app, known, foreign, astray>>

\* Variant: only the listeners are looked at, not the claims.
Free_ListenOnly(c, p) == ~ Listening(p)

Free(c, p) == p \notin Taken(entries[c]) /\ ~ Listening(p)

Candidate(c) == Window[Key(c)][cursor[c] + 1]

\* One candidate of the scan: each probe is a connection attempt of its own.
Probe(c) ==
    /\ pc[c] = "scan"
    /\ cursor[c] < Len(Window[Key(c)])
    /\ IF Free(c, Candidate(c))
       THEN /\ cursor' = [cursor EXCEPT ![c] = 0]
            /\ port' = [port EXCEPT ![c] = Candidate(c)]
            /\ entries' = [entries EXCEPT ![c][Key(c)] = OwnedBy("cli", c, Candidate(c))]
            /\ Goto(c, "save")
       ELSE /\ cursor' = [cursor EXCEPT ![c] = @ + 1]
            /\ UNCHANGED <<pc, port, entries>>
    /\ UNCHANGED <<cmd, work, registry, holder, app, known, foreign, astray>>

\* Variant: the claim is saved all the same.
Exhausted_Saves(c) ==
    /\ pc[c] = "scan"
    /\ cursor[c] = Len(Window[Key(c)])
    /\ entries' = [entries EXCEPT ![c][Key(c)] = OwnedBy("cli", c, port[c])]
    /\ cursor' = [cursor EXCEPT ![c] = 0]
    /\ Goto(c, "save")
    /\ UNCHANGED <<cmd, work, port, registry, holder, app, known, foreign, astray>>

\* The end of the with block.
Unlock(c) ==
    /\ holder' = holder \ {c}
    /\ entries' = [entries EXCEPT ![c] = Empty]

\* "no free port".
Exhausted(c) ==
    /\ pc[c] = "scan"
    /\ cursor[c] = Len(Window[Key(c)])
    /\ cursor' = [cursor EXCEPT ![c] = 0]
    /\ Unlock(c)
    /\ Goto(c, AfterFailure(c))
    /\ UNCHANGED <<cmd, work, port, registry, app, known, foreign, astray>>

AfterSuccess(c) == IF cmd[c].op = "launch" /\ work[c] = "acquire" THEN "spawn" ELSE "exit"

\* os.replace: the whole file, at once; then the lock is given back.
Save(c) ==
    /\ pc[c] = "save"
    /\ registry' = entries[c]
    /\ Unlock(c)
    /\ Goto(c, AfterSuccess(c))
    /\ UNCHANGED <<cmd, work, port, cursor, app, known, foreign, astray>>

SaveFails(c) ==
    /\ pc[c] = "save"
    /\ IF work[c] = "keep" THEN Orphaned(c) ELSE UNCHANGED astray
    /\ Unlock(c)
    /\ Goto(c, AfterFailure(c))
    /\ UNCHANGED <<cmd, work, port, cursor, registry, app, known, foreign>>

\* A launch waits for the app's page before it exits, and gives up after a time.
PageTimeout(c) ==
    /\ pc[c] = "exit"
    /\ work[c] = "claim"
    /\ Goto(c, "abort")
    /\ UNCHANGED <<cmd, work, port, cursor, entries, registry, holder, app, known, foreign, astray>>

Exit(c) ==
    /\ pc[c] = "exit"
    /\ Goto(c, "done")
    /\ UNCHANGED <<cmd, work, port, cursor, entries, registry, holder, app, known, foreign, astray>>

-----------------------------------------------------------------------------
(* app-drive launch between its two turns with the registry *)

Spawn(c) ==
    /\ pc[c] = "spawn"
    /\ app' = [app EXCEPT ![c] = "booting"]
    /\ work' = [work EXCEPT ![c] = "claim"]
    /\ Goto(c, "record")
    /\ UNCHANGED <<cmd, port, cursor, entries, registry, holder, known, foreign, astray>>

SpawnFails(c) ==
    /\ pc[c] = "spawn"
    /\ Goto(c, "abort")
    /\ UNCHANGED <<cmd, work, port, cursor, entries, registry, holder, app, known, foreign, astray>>

\* write_state replaces the state file of the key.
Recorded(c) == (known \ Known(Key(c))) \cup {c}

Record(c) ==
    /\ pc[c] = "record"
    /\ known' = Recorded(c)
    /\ Goto(c, "lock")
    /\ UNCHANGED <<cmd, work, port, cursor, entries, registry, holder, app, foreign, astray>>

\* The app has ended, it cannot be identified, or the state file cannot be written.
RecordFails(c) ==
    /\ pc[c] = "record"
    /\ Goto(c, "abort")
    /\ UNCHANGED <<cmd, work, port, cursor, entries, registry, holder, app, known, foreign, astray>>

\* _abort_launch: the app is terminated, the state file removed, the claim released.
AbortLaunch(c) ==
    /\ pc[c] = "abort"
    /\ app' = [app EXCEPT ![c] = IF AppLive(c) THEN "dead" ELSE @]
    /\ known' = known \ Known(Key(c))
    /\ work' = [work EXCEPT ![c] = "release"]
    /\ Goto(c, "lock")
    /\ UNCHANGED <<cmd, port, cursor, entries, registry, holder, foreign, astray>>

\* An app that could not be terminated keeps its claim, or gets it now; its state is
\* written, if that does not fail.
AbortKeep(c) ==
    /\ pc[c] = "abort"
    /\ AppLive(c)
    /\ known' \in {known, Recorded(c)}
    /\ work' = [work EXCEPT ![c] = "keep"]
    /\ Goto(c, "lock")
    /\ UNCHANGED <<cmd, port, cursor, entries, registry, holder, app, foreign, astray>>

-----------------------------------------------------------------------------
(* The environment *)

\* A CLI process is killed, wherever it is; its lock file is a leftover that is
\* reclaimed.
Kill(c) ==
    /\ Active(c)
    /\ Orphaned(c)
    /\ Goto(c, "done")
    /\ Unlock(c)
    /\ cursor' = [cursor EXCEPT ![c] = 0]
    /\ UNCHANGED <<cmd, work, port, registry, app, known, foreign>>

Boot(c) ==
    /\ app[c] = "booting"
    /\ ~ Listening(port[c])
    /\ app' = [app EXCEPT ![c] = "listening"]
    /\ UNCHANGED <<pc, cmd, work, port, cursor, entries, registry, holder, known, foreign, astray>>

Die(c) ==
    /\ AppLive(c)
    /\ app' = [app EXCEPT ![c] = "dead"]
    /\ UNCHANGED <<pc, cmd, work, port, cursor, entries, registry, holder, known, foreign, astray>>

AllDone == (\A c \in Clis : pc[c] = "done" /\ ~ AppLive(c)) /\ UNCHANGED vars

-----------------------------------------------------------------------------

Init ==
    /\ pc = [c \in Clis |-> "new"]
    /\ \E k \in Keys : cmd = [c \in Clis |-> [op |-> "list", key |-> k]]
    /\ work = [c \in Clis |-> "list"]
    /\ port = [c \in Clis |-> 0]
    /\ cursor = [c \in Clis |-> 0]
    /\ entries = [c \in Clis |-> Empty]
    /\ registry = Empty
    /\ Lock!Init
    /\ app = [c \in Clis |-> "none"]
    /\ known = {}
    /\ foreign \in SUBSET Ports
    /\ astray = [c \in Clis |-> "no"]

Step(c) ==
    \/ \E op \in Ops, k \in Keys : Start(c, op, k)
    \/ Load(c) \/ LockTimeout(c) \/ Probe(c) \/ Exhausted(c)
    \/ Save(c) \/ SaveFails(c) \/ PageTimeout(c) \/ Exit(c)
    \/ Spawn(c) \/ SpawnFails(c) \/ Record(c) \/ RecordFails(c)
    \/ AbortLaunch(c) \/ AbortKeep(c)
    \/ Kill(c) \/ Boot(c) \/ Die(c)

Next == (\E c \in Clis : Step(c)) \/ AllDone

Spec == Init /\ [][Next]_vars

-----------------------------------------------------------------------------
(* Properties *)

\* "No more cross-wired apps": two apps that run have different ports, unless one of
\* them is astray: the user ran other commands for it meanwhile, or its launcher ended
\* before the claim was written.
NoCrossWiring ==
    \A c, d \in Clis :
        c # d /\ AppLive(c) /\ AppLive(d) /\ port[c] = port[d] => astray[c] # "no" \/ astray[d] # "no"

\* The next command finds the claim of the app to its port, and keeps it.
ClaimStands(c) ==
    /\ Gc(registry)[Key(c)] # NoClaim
    /\ registry[Key(c)].port = port[c]

\* "The claim stays valid exactly as long as the app lives": once its launcher is
\* done, an app that runs, and is not astray, has its claim, whatever happens to others.
ClaimLastsWithApp ==
    \A c \in Clis : pc[c] = "done" /\ AppLive(c) /\ astray[c] = "no" => ClaimStands(c)

\* The same, also for an app for which someone has run acquire.
ClaimSurvivesAcquire ==
    \A c \in Clis : pc[c] = "done" /\ AppLive(c) /\ astray[c] # "yes" => ClaimStands(c)

\* "Keep the port stable across re-acquires": as long as the registrant lives, no
\* command changes the port of a key, unless the registrant is astray.
PortStable ==
    [][\A k \in Keys :
         /\ registry[k] # NoClaim
         /\ registry'[k] # NoClaim
         /\ PidAlive(registry[k].owner)
         /\ astray[registry[k].owner[2]] = "no"
         => registry'[k].port = registry[k].port]_vars

\* No update is lost: a rewrite of the registry leaves the claims of other keys alone,
\* unless their registrant is gone.
NoLostUpdate ==
    [][\A k \in Keys :
         /\ registry'[k] # registry[k]
         => \/ \E c \in Clis : pc[c] = "save" /\ pc'[c] # "save" /\ Key(c) = k
            \/ registry'[k] = NoClaim /\ ~ PidAlive(registry[k].owner)]_vars
=============================================================================
