-------------------------- MODULE PortRegistryProofs --------------------------
(***************************************************************************)
(* Proofs about PortRegistry, for every set of commands, apps and windows. *)
(* Commands overlap, launchers are killed, and claims get lost on the way;  *)
(* what is promised to a command that is not astray holds all the same.    *)
(***************************************************************************)
EXTENDS PortRegistry, TLAPS

Inside(c) == pc[c] \in {"scan", "save"}

\* The with block of registry_lock.
Exclusive ==
    /\ \A c \in Clis : c \in holder <=> Inside(c)
    /\ \A c, d \in holder : c = d

\* Which operation a command is at, and what it has by then.
Shape ==
    \A c \in Clis :
        /\ pc[c] = "new" => cmd[c].op = "list" /\ app[c] = "none" /\ astray[c] = "no"
        /\ app[c] # "none" => cmd[c].op = "launch" /\ work[c] # "acquire" /\ port[c] # 0
        /\ work[c] = "list" <=> cmd[c].op = "list"
        /\ work[c] = "acquire" => cmd[c].op \in {"acquire", "launch"}
        /\ work[c] \in {"claim", "keep"} => app[c] # "none"
        /\ work[c] = "release" => ~ AppLive(c)
        /\ pc[c] = "scan" => work[c] = "acquire"
        /\ pc[c] = "spawn" => cmd[c].op = "launch" /\ work[c] = "acquire"
        /\ pc[c] = "record" => cmd[c].op = "launch" /\ work[c] = "claim"
        /\ pc[c] = "abort" => cmd[c].op = "launch" /\ work[c] \in {"acquire", "claim"}
        /\ pc[c] = "exit" => ~ (cmd[c].op = "launch" /\ work[c] = "acquire")
        /\ work[c] = "acquire" /\ pc[c] \in {"save", "spawn"} => port[c] # 0

\* A claim is of a process that has been started, so that one that is dead stays dead,
\* and by a command for the key.
Started(o) == pc[o[2]] # "new" /\ (o[1] = "app" => app[o[2]] # "none")
Fits(o, k) == Started(o) /\ cmd[o[2]].op # "list" /\ Key(o[2]) = k

Born(table) == \A k \in Keys : table[k] # NoClaim => Fits(table[k].owner, k)

Dead(k) == registry[k] # NoClaim => ~ PidAlive(registry[k].owner)

\* What c is about to write for its own key.
OwnEntry(c) ==
    CASE work[c] = "acquire" -> /\ entries[c][Key(c)] = OwnedBy("cli", c, port[c])
                                /\ Dead(Key(c)) \/ registry[Key(c)].port = port[c]
      [] work[c] \in {"claim", "keep"} -> entries[c][Key(c)] = OwnedBy("app", c, port[c])
      [] work[c] = "release" -> entries[c][Key(c)] = NoClaim
      [] OTHER -> TRUE

\* The registry that c has read differs from the file in its own key, and in claims
\* of the dead.
ViewOf(c) ==
    /\ Born(entries[c])
    /\ \A k \in Keys : k # Key(c) \/ work[c] = "list" =>
          entries[c][k] = registry[k] \/ (entries[c][k] = NoClaim /\ Dead(k))
    /\ pc[c] = "scan" => entries[c][Key(c)] = NoClaim /\ Dead(Key(c))
    /\ pc[c] = "save" => OwnEntry(c)

View == \A c \in Clis : pc[c] \in {"scan", "save"} => ViewOf(c)

Base == TypeOK /\ Exclusive /\ Shape /\ Born(registry) /\ View

-----------------------------------------------------------------------------
(* Tables *)

LEMMA OwnedByType ==
    ASSUME NEW c \in Clis, NEW kind \in {"cli", "app"}, NEW p \in Ports
    PROVE  /\ OwnedBy(kind, c, p) \in Claims
           /\ OwnedBy(kind, c, p).port = p
           /\ OwnedBy(kind, c, p).owner[1] = kind /\ OwnedBy(kind, c, p).owner[2] = c
           /\ OwnedBy(kind, c, p).owner \in Owners
  BY DEF OwnedBy, Claims, Owners

LEMMA PortsNat == Ports \subseteq Nat \ {0}
<1>1. \A k \in Keys : \A i \in 1..Len(Window[k]) : Window[k][i] \in Nat \ {0}
  <2> TAKE k \in Keys
  <2>1. Window[k] \in Seq(Nat \ {0})
    BY PortAssumption
  <2>2. QED
    BY <2>1
<1>2. QED
  BY <1>1 DEF Ports

LEMMA NoClaimIsNone == NoClaim \notin Claims
  BY PortAssumption, PortsNat DEF Claims, Owners

\* _gc keeps the claims of the living.
LEMMA GcIs ==
    ASSUME NEW table \in Tables
    PROVE  /\ Gc(table) \in Tables
           /\ \A k \in Keys :
                 /\ Gc(table)[k] = table[k] \/ Gc(table)[k] = NoClaim
                 /\ Gc(table)[k] # NoClaim => PidAlive(table[k].owner)
                 /\ Gc(table)[k] = NoClaim /\ table[k] # NoClaim => ~ PidAlive(table[k].owner)
  BY DEF Gc, Tables

-----------------------------------------------------------------------------
(* What a step of c may do *)

LEMMA Frame ==
    ASSUME TypeOK, NEW c \in Clis, Step(c)
    PROVE  /\ foreign' = foreign
           /\ \A d \in Clis \ {c} :
                 /\ pc'[d] = pc[d] /\ cmd'[d] = cmd[d] /\ work'[d] = work[d]
                 /\ port'[d] = port[d] /\ cursor'[d] = cursor[d] /\ entries'[d] = entries[d]
           /\ \A d \in Clis : \/ app'[d] = app[d]
                              \/ AppLive(d) /\ app'[d] = "dead"
                              \/ app[d] = "booting" /\ app'[d] = "listening"
                              \/ d = c /\ Spawn(c) /\ app'[c] = "booting"
           /\ pc[c] # "new" => cmd'[c] = cmd[c] /\ pc'[c] # "new"
           /\ pc[c] = "done" => pc'[c] = "done"
           /\ \A d \in Clis : astray'[d] = "no" => astray[d] = "no"
           /\ registry' = registry \/ Save(c)
           /\ pc'[c] \in {"scan", "save"} =>
                 Load(c) \/ Probe(c) \/ UNCHANGED <<pc, cmd, work, port, entries, registry>>
<1> USE DEF TypeOK, Goto, AppLive
<1>1. CASE \E op \in Ops, k \in Keys : Start(c, op, k)
  <2>1. PICK op \in Ops, k \in Keys : Start(c, op, k)
    BY <1>1
  <2>2. \A d \in Clis : astray'[d] = "no" => astray[d] = "no"
    BY <2>1 DEF Start, Worse
  <2>3. QED
    BY <2>1, <2>2 DEF Start
<1>2. CASE LockTimeout(c) \/ Exhausted(c) \/ SaveFails(c)
           \/ PageTimeout(c) \/ Exit(c) \/ SpawnFails(c) \/ RecordFails(c) \/ Kill(c)
  BY <1>2 DEF LockTimeout, Exhausted, SaveFails, Unlock, PageTimeout, Exit,
     SpawnFails, RecordFails, Kill, AfterFailure, AfterSuccess, Active, Orphaned
<1>3. CASE Load(c)
  BY <1>3 DEF Load, Reacquire, BeginScan, Rewrite
<1>4. CASE Probe(c)
  BY <1>4 DEF Probe
<1>5. CASE Save(c)
  BY <1>5 DEF Save, Unlock, AfterSuccess
<1>6. CASE Spawn(c)
  BY <1>6 DEF Spawn
<1>7. CASE Record(c) \/ AbortLaunch(c) \/ AbortKeep(c)
  BY <1>7 DEF Record, AbortLaunch, AbortKeep
<1>8. CASE Boot(c) \/ Die(c)
  BY <1>8 DEF Boot, Die
<1>9. QED
  BY <1>1, <1>2, <1>3, <1>4, <1>5, <1>6, <1>7, <1>8 DEF Step

-----------------------------------------------------------------------------
(* What holds of every command, astray or not *)

\* What c makes of the registry it reads.
LEMMA LoadTypes ==
    ASSUME Base, NEW c \in Clis, Load(c)
    PROVE  /\ entries' \in [Clis -> Tables]
           /\ port' \in [Clis -> Ports \cup {0}]
           /\ pc'[c] = "save" /\ work[c] = "acquire" => port'[c] \in Ports
<1>1. Gc(registry) \in Tables /\ Key(c) \in Keys
  BY GcIs DEF Base, TypeOK, Key
<1>2. ASSUME NEW x \in Claims \cup {NoClaim}
      PROVE  [Gc(registry) EXCEPT ![Key(c)] = x] \in Tables
  BY <1>1 DEF Tables
<1>3. CASE Reacquire(c)
  <2>1. Gc(registry)[Key(c)] \in Claims
    BY <1>1, <1>3 DEF Reacquire, Held, Tables
  <2>2. Gc(registry)[Key(c)].port \in Ports
    BY <2>1 DEF Claims
  <2>3. OwnedBy("cli", c, Gc(registry)[Key(c)].port) \in Claims
    BY <2>2, OwnedByType
  <2>4. QED
    BY <1>2, <1>3, <2>2, <2>3 DEF Reacquire, Base, TypeOK
<1>4. CASE BeginScan(c)
  BY <1>1, <1>4 DEF BeginScan, Base, TypeOK, Goto
<1>5. CASE Rewrite(c)
  <2>1. work[c] \in {"claim", "keep"} => Claimed(c) \in Claims
    <3>1. work[c] \in {"claim", "keep"} => port[c] \in Ports
      BY DEF Base, Shape, TypeOK
    <3>2. QED
      BY <3>1, OwnedByType DEF Claimed
  <2>2. work[c] \in {"claim", "keep", "release", "list"}
    BY <1>5 DEF Rewrite, Base, TypeOK, Works
  <2>3. entries'[c] \in Tables /\ \A d \in Clis \ {c} : entries'[d] = entries[d]
    BY <1>1, <1>2, <1>5, <2>1, <2>2 DEF Rewrite, Base, TypeOK
  <2>4. entries' \in [Clis -> Tables]
    BY <1>5, <2>3 DEF Rewrite, Base, TypeOK
  <2>5. QED
    BY <1>5, <2>4 DEF Rewrite, Base, TypeOK
<1>6. QED
  BY <1>3, <1>4, <1>5 DEF Load

LEMMA ProbeTypes ==
    ASSUME Base, NEW c \in Clis, Probe(c)
    PROVE  /\ entries' \in [Clis -> Tables]
           /\ port' \in [Clis -> Ports \cup {0}]
           /\ cursor' \in [Clis -> Nat]
           /\ Candidate(c) \in Ports
           /\ pc'[c] = "save" => port'[c] = Candidate(c)
<1>1. Candidate(c) \in Ports
  <2>1. /\ Key(c) \in Keys /\ cursor[c] \in Nat /\ cursor[c] < Len(Window[Key(c)])
        /\ Window[Key(c)] \in Seq(Nat \ {0})
    BY PortAssumption DEF Probe, Base, TypeOK, Key
  <2>2. cursor[c] + 1 \in 1..Len(Window[Key(c)])
    BY <2>1
  <2>3. QED
    BY <2>1, <2>2 DEF Candidate, Ports
<1>2. OwnedBy("cli", c, Candidate(c)) \in Claims /\ Key(c) \in Keys
  BY <1>1, OwnedByType DEF Base, TypeOK, Key
<1>3. \A T \in Tables : [T EXCEPT ![Key(c)] = OwnedBy("cli", c, Candidate(c))] \in Tables
  BY <1>2 DEF Tables
<1>4. entries' \in [Clis -> Tables]
  <2>1. CASE Free(c, Candidate(c))
    <3>1. entries' = [entries EXCEPT ![c] =
                         [entries[c] EXCEPT ![Key(c)] = OwnedBy("cli", c, Candidate(c))]]
      BY <2>1 DEF Probe
    <3>2. QED
      BY <1>3, <3>1 DEF Base, TypeOK
  <2>2. CASE ~ Free(c, Candidate(c))
    BY <2>2 DEF Probe, Base, TypeOK
  <2>3. QED
    BY <2>1, <2>2
<1>5. cursor' \in [Clis -> Nat]
  <2>1. cursor \in [Clis -> Nat] /\ cursor[c] \in Nat
    BY DEF Base, TypeOK
  <2>2. cursor' = [cursor EXCEPT ![c] = 0] \/ cursor' = [cursor EXCEPT ![c] = cursor[c] + 1]
    BY DEF Probe
  <2>3. QED
    BY <2>1, <2>2
<1>6. port' \in [Clis -> Ports \cup {0}] /\ (pc'[c] = "save" => port'[c] = Candidate(c))
  BY <1>1 DEF Probe, Base, TypeOK, Goto
<1>7. QED
  BY <1>1, <1>4, <1>5, <1>6

LEMMA TypeStep ==
    ASSUME Base, NEW c \in Clis, Step(c)
    PROVE  TypeOK'
<1> USE DEF TypeOK, Goto
<1> TypeOK
  BY DEF Base
<1>1. CASE \E op \in Ops, k \in Keys : Start(c, op, k)
  <2>1. PICK op \in Ops, k \in Keys : Start(c, op, k)
    BY <1>1
  <2>2. astray' \in [Clis -> Levels]
    BY <2>1 DEF Start, Worse, Level, Levels
  <2>3. known' \subseteq Clis
    BY <2>1 DEF Start
  <2>4. QED
    BY <2>1, <2>2, <2>3 DEF Start, Ops, Works
<1>2. CASE LockTimeout(c) \/ PageTimeout(c) \/ Exit(c) \/ SpawnFails(c) \/ RecordFails(c)
  BY <1>2 DEF LockTimeout, PageTimeout, Exit, SpawnFails, RecordFails, AfterFailure,
     Orphaned, Levels
<1>3. CASE Record(c)
  BY <1>3 DEF Record, Recorded
<1>4. CASE Exhausted(c) \/ Save(c) \/ SaveFails(c) \/ Kill(c)
  <2>1. Empty \in Tables
    BY DEF Empty, Tables
  <2>2. \E l \in {"spawn", "abort", "exit", "done"} : pc' = [pc EXCEPT ![c] = l]
    BY <1>4 DEF Exhausted, Save, SaveFails, Kill, AfterFailure, AfterSuccess
  <2>3. /\ holder' = holder \ {c} /\ entries' = [entries EXCEPT ![c] = Empty]
        /\ UNCHANGED <<cmd, work, port, app, known, foreign>>
        /\ cursor' = cursor \/ cursor' = [cursor EXCEPT ![c] = 0]
        /\ registry' = registry \/ registry' = entries[c]
        /\ astray' = astray \/ Orphaned(c)
    BY <1>4 DEF Exhausted, Save, SaveFails, Kill, Unlock
  <2>4. astray' \in [Clis -> Levels]
    BY <2>3 DEF Orphaned, Levels
  <2>5. pc' \in [Clis -> {"new", "lock", "scan", "save", "spawn", "record", "abort",
                          "exit", "done"}]
    BY <2>2
  <2>6. entries' \in [Clis -> Tables] /\ registry' \in Tables /\ cursor' \in [Clis -> Nat]
    BY <2>1, <2>3
  <2>7. QED
    BY <2>3, <2>4, <2>5, <2>6
<1>5. CASE Load(c)
  <2>1. entries' \in [Clis -> Tables] /\ port' \in [Clis -> Ports \cup {0}]
    BY <1>5, LoadTypes
  <2>2. cursor' \in [Clis -> Nat]
    BY <1>5 DEF Load, Reacquire, BeginScan, Rewrite
  <2>3. pc' \in [Clis -> {"new", "lock", "scan", "save", "spawn", "record", "abort",
                          "exit", "done"}]
    BY <1>5 DEF Load, Reacquire, BeginScan, Rewrite
  <2>4. holder' = {c}
    BY <1>5 DEF Load, Lock!Enter
  <2>5. QED
    BY <1>5, <2>1, <2>2, <2>3, <2>4 DEF Load
<1>6. CASE Probe(c)
  <2>1. /\ entries' \in [Clis -> Tables] /\ port' \in [Clis -> Ports \cup {0}]
        /\ cursor' \in [Clis -> Nat]
    BY <1>6, ProbeTypes
  <2>2. QED
    BY <1>6, <2>1 DEF Probe
<1>7. CASE Spawn(c)
  BY <1>7 DEF Spawn, Works
<1>8. CASE AbortLaunch(c) \/ AbortKeep(c)
  BY <1>8 DEF AbortLaunch, AbortKeep, Recorded, Works
<1>9. CASE Boot(c) \/ Die(c)
  BY <1>9 DEF Boot, Die
<1>10. QED
  BY <1>1, <1>2, <1>3, <1>4, <1>5, <1>6, <1>7, <1>8, <1>9 DEF Step

LEMMA ExclusiveStep ==
    ASSUME Base, NEW c \in Clis, Step(c)
    PROVE  Exclusive'
<1> USE DEF Base, TypeOK, Goto, Exclusive, Inside
<1>1. CASE \E op \in Ops, k \in Keys : Start(c, op, k)
  BY <1>1 DEF Start
<1>2. CASE LockTimeout(c) \/ PageTimeout(c) \/ Exit(c) \/ SpawnFails(c) \/ RecordFails(c)
  BY <1>2 DEF LockTimeout, PageTimeout, Exit, SpawnFails, RecordFails, AfterFailure
<1>3. CASE Exhausted(c) \/ Save(c) \/ SaveFails(c) \/ Kill(c)
  BY <1>3 DEF Exhausted, Save, SaveFails, Kill, Unlock, AfterFailure, AfterSuccess
<1>4. CASE Load(c)
  BY <1>4 DEF Load, Lock!Enter, Lock!Free, Reacquire, BeginScan, Rewrite
<1>5. CASE Probe(c)
  BY <1>5 DEF Probe
<1>6. CASE Spawn(c) \/ Record(c) \/ AbortLaunch(c) \/ AbortKeep(c)
  BY <1>6 DEF Spawn, Record, AbortLaunch, AbortKeep
<1>7. CASE Boot(c) \/ Die(c)
  BY <1>7 DEF Boot, Die
<1>8. QED
  BY <1>1, <1>2, <1>3, <1>4, <1>5, <1>6, <1>7 DEF Step

LEMMA ShapeStep ==
    ASSUME Base, NEW c \in Clis, Step(c)
    PROVE  Shape'
<1> USE DEF Base, TypeOK, Goto, Shape, AppLive
<1>1. CASE \E op \in Ops, k \in Keys : Start(c, op, k)
  <2>1. PICK op \in Ops, k \in Keys : Start(c, op, k)
    BY <1>1
  <2>2. \A d \in Clis : pc'[d] = "new" => astray'[d] = "no"
    <3>1. ASSUME NEW d \in Clis, pc'[d] = "new"
          PROVE  d # c /\ pc[d] = "new" /\ app[d] = "none" /\ astray[d] = "no"
      BY <2>1, <3>1 DEF Start
    <3>2. ASSUME NEW d \in Clis, pc'[d] = "new"
          PROVE  d \notin {c} \cup Rivals(c, k) \cup Survivors(op, k)
      BY <3>1, <3>2 DEF Rivals, Survivors, Busy, Active
    <3>3. \A d \in Clis : d \notin {c} \cup Rivals(c, k) \cup Survivors(op, k) =>
             astray'[d] = astray[d]
      BY <2>1 DEF Start
    <3>4. QED
      BY <3>1, <3>2, <3>3
  <2>3. QED
    BY <2>1, <2>2 DEF Start, Ops
<1>2. CASE LockTimeout(c) \/ PageTimeout(c) \/ Exit(c) \/ SpawnFails(c) \/ RecordFails(c)
  BY <1>2 DEF LockTimeout, PageTimeout, Exit, SpawnFails, RecordFails, AfterFailure, Orphaned
<1>3. CASE Exhausted(c) \/ Save(c) \/ SaveFails(c) \/ Kill(c)
  BY <1>3 DEF Exhausted, Save, SaveFails, Kill, AfterFailure, AfterSuccess, Orphaned
<1>4. CASE Record(c)
  BY <1>4 DEF Record
<1>5. CASE Load(c)
  <2>1. pc'[c] = "save" /\ work[c] = "acquire" => port'[c] # 0
    BY <1>5, LoadTypes, PortsNat
  <2>2. QED
    BY <1>5, <2>1 DEF Load, Reacquire, BeginScan, Rewrite
<1>6. CASE Probe(c)
  <2>1. pc'[c] = "save" => port'[c] # 0
    BY <1>6, ProbeTypes, PortsNat
  <2>2. /\ pc[c] = "scan" /\ (pc' = pc \/ pc' = [pc EXCEPT ![c] = "save"])
        /\ port' = port \/ \E p : port' = [port EXCEPT ![c] = p]
        /\ UNCHANGED <<cmd, work, app, astray>>
    BY <1>6 DEF Probe
  <2>3. app[c] = "none"
    BY <2>2
  <2>4. QED
    BY <2>1, <2>2, <2>3
<1>7. CASE Spawn(c)
  BY <1>7 DEF Spawn
<1>8. CASE AbortLaunch(c) \/ AbortKeep(c)
  BY <1>8 DEF AbortLaunch, AbortKeep
<1>9. CASE Boot(c) \/ Die(c)
  BY <1>9 DEF Boot, Die
<1>10. QED
  BY <1>1, <1>2, <1>3, <1>4, <1>5, <1>6, <1>7, <1>8, <1>9 DEF Step

\* Who has been started stays so, and who is dead stays dead.
LEMMA Aging ==
    ASSUME Base, NEW c \in Clis, Step(c), NEW o \in Owners
    PROVE  /\ \A k \in Keys : Fits(o, k) => Fits(o, k)'
           /\ Started(o) /\ ~ PidAlive(o) => ~ PidAlive(o)'
<1>1. o[2] \in Clis /\ o[1] \in {"cli", "app"}
  BY DEF Owners
<1>2. /\ \A d \in Clis \ {c} : pc'[d] = pc[d] /\ cmd'[d] = cmd[d]
      /\ \A d \in Clis : \/ app'[d] = app[d]
                         \/ AppLive(d) /\ app'[d] = "dead"
                         \/ app[d] = "booting" /\ app'[d] = "listening"
                         \/ d = c /\ Spawn(c) /\ app'[c] = "booting"
      /\ pc[c] # "new" => pc'[c] # "new" /\ cmd'[c] = cmd[c]
      /\ pc[c] = "done" => pc'[c] = "done"
  BY Frame DEF Base
<1>3. Spawn(c) => app[c] = "none"
  BY DEF Spawn, Base, Shape
<1>4. Started(o) => Started(o)' /\ cmd'[o[2]] = cmd[o[2]]
  BY <1>1, <1>2 DEF Started, AppLive
<1>5. Started(o) /\ ~ PidAlive(o) => ~ PidAlive(o)'
  BY <1>1, <1>2, <1>3 DEF Started, PidAlive, Active, AppLive
<1>6. QED
  BY <1>4, <1>5 DEF Fits, Key

LEMMA ClaimTypes ==
    ASSUME NEW table \in Tables, NEW k \in Keys, table[k] # NoClaim
    PROVE  table[k] \in Claims /\ table[k].owner \in Owners /\ table[k].port \in Ports
  BY DEF Tables, Claims

\* A claim that is missing or of the dead stays so while the file is not written.
LEMMA DeadStays ==
    ASSUME Base, NEW c \in Clis, Step(c), registry' = registry, NEW k \in Keys, Dead(k)
    PROVE  Dead(k)'
<1>1. CASE registry[k] = NoClaim
  BY <1>1 DEF Dead
<1>2. CASE registry[k] # NoClaim
  <2>1. /\ registry[k].owner \in Owners /\ Started(registry[k].owner)
        /\ ~ PidAlive(registry[k].owner)
    BY <1>2, ClaimTypes DEF Base, TypeOK, Born, Fits, Dead
  <2>2. \A o \in Owners : Started(o) /\ ~ PidAlive(o) => ~ PidAlive(o)'
    BY Aging
  <2>3. ~ PidAlive(registry[k].owner)'
    BY <2>1, <2>2 DEF PidAlive, Active, AppLive
  <2>4. QED
    BY <2>3 DEF Dead
<1>3. QED
  BY <1>1, <1>2

LEMMA BornStep ==
    ASSUME Base, NEW c \in Clis, Step(c)
    PROVE  Born(registry)'
<1> SUFFICES ASSUME NEW k \in Keys, registry'[k] # NoClaim
             PROVE  Fits(registry[k].owner, k)'
  BY DEF Born
<1>1. registry'[k].owner \in Owners /\ Fits(registry'[k].owner, k)
  <2>1. CASE registry' = registry
    BY <2>1, ClaimTypes DEF Base, TypeOK, Born
  <2>2. CASE Save(c)
    <3>1. registry' = entries[c] /\ entries[c] \in Tables /\ Born(entries[c])
      BY <2>2 DEF Save, Base, TypeOK, View, ViewOf
    <3>2. QED
      BY <3>1, ClaimTypes DEF Born
  <2>3. QED
    BY <2>1, <2>2, Frame DEF Base
<1>2. \A o \in Owners, k1 \in Keys : Fits(o, k1) => Fits(o, k1)'
  BY Aging
<1>3. QED
  BY <1>1, <1>2 DEF Fits, Started, Key

\* Nobody else writes while d is inside, and time only kills.
LEMMA ViewKept ==
    ASSUME Base, NEW c \in Clis, Step(c), NEW d \in Clis, registry' = registry,
           pc'[d] \in {"scan", "save"},
           pc'[d] = pc[d], cmd'[d] = cmd[d], work'[d] = work[d], port'[d] = port[d],
           entries'[d] = entries[d]
    PROVE  ViewOf(d)'
<1>1. ViewOf(d) /\ Key(d)' = Key(d) /\ Key(d) \in Keys /\ entries[d] \in Tables
  BY DEF Base, TypeOK, View, Key
<1>2. \A k \in Keys : Dead(k) => Dead(k)'
  BY DeadStays
<1>3. Born(entries[d])'
  <2>1. \A k \in Keys : entries[d][k] # NoClaim =>
           entries[d][k].owner \in Owners /\ Fits(entries[d][k].owner, k)
    BY <1>1, ClaimTypes DEF ViewOf, Born
  <2>2. \A o \in Owners, k1 \in Keys : Fits(o, k1) => Fits(o, k1)'
    BY Aging
  <2>3. QED
    BY <2>1, <2>2 DEF Born, Fits, Started, Key
<1>4. OwnEntry(d) => OwnEntry(d)'
  BY <1>1, <1>2 DEF OwnEntry, OwnedBy
<1>5. QED
  BY <1>1, <1>2, <1>3, <1>4 DEF ViewOf

\* After _gc what is missing is dead, and what is there is alive.
LEMMA GcView ==
    ASSUME Base
    PROVE  /\ Born(Gc(registry))
           /\ \A k \in Keys : \/ Gc(registry)[k] = registry[k]
                              \/ Gc(registry)[k] = NoClaim /\ Dead(k)
           /\ \A k \in Keys : Gc(registry)[k] = NoClaim => Dead(k)
<1>1. registry \in Tables
  BY DEF Base, TypeOK
<1>2. QED
  BY <1>1, GcIs DEF Base, Born, Dead

LEMMA ViewLoad ==
    ASSUME Base, TypeOK', NEW c \in Clis, Load(c)
    PROVE  ViewOf(c)'
<1> DEFINE g == Gc(registry)
<1>1. /\ pc[c] = "lock" /\ registry' = registry /\ cmd' = cmd /\ work' = work
      /\ Key(c)' = Key(c) /\ Key(c) \in Keys /\ pc' \in [Clis -> {"new", "lock", "scan", "save",
            "spawn", "record", "abort", "exit", "done"}]
      /\ Step(c) /\ pc'[c] \in {"scan", "save"}
  BY DEF Load, Reacquire, BeginScan, Rewrite, Base, TypeOK, Key, Step, Goto
<1>2. \A k \in Keys : Dead(k) => Dead(k)'
  BY <1>1, DeadStays
<1>3. /\ \A k \in Keys : g[k] # NoClaim => g[k].owner \in Owners /\ Fits(g[k].owner, k)
      /\ g \in Tables
  BY GcView, GcIs, ClaimTypes DEF Base, TypeOK, Born
<1>4. \A o \in Owners, k1 \in Keys : Fits(o, k1) => Fits(o, k1)'
  BY <1>1, Aging
<1>5. /\ \A k \in Keys : g[k] = registry[k] \/ (g[k] = NoClaim /\ Dead(k))
      /\ \A k \in Keys : g[k] = NoClaim => Dead(k)
  BY GcView
<1>6. ASSUME NEW x, entries'[c] = [g EXCEPT ![Key(c)] = x],
             x # NoClaim => x.owner \in Owners /\ Fits(x.owner, Key(c))
      PROVE  /\ Born(entries[c])'
             /\ entries'[c][Key(c)] = x
             /\ \A k \in Keys \ {Key(c)} :
                   entries'[c][k] = registry'[k] \/ (entries'[c][k] = NoClaim /\ Dead(k)')
  <2>1. \A k \in Keys : entries'[c][k] = IF k = Key(c) THEN x ELSE g[k]
    BY <1>1, <1>3, <1>6 DEF Tables
  <2>2. \A k \in Keys : entries'[c][k] # NoClaim =>
            entries'[c][k].owner \in Owners /\ Fits(entries'[c][k].owner, k)
    BY <1>3, <1>6, <2>1
  <2>3. Born(entries[c])'
    BY <1>4, <2>2 DEF Born, Fits, Started, Key
  <2>4. QED
    BY <1>1, <1>2, <1>5, <2>1, <2>3
<1> HIDE DEF g
<1>7. CASE Reacquire(c)
  <2> DEFINE p == g[Key(c)].port
             x == OwnedBy("cli", c, p)
  <2>1. /\ entries'[c] = [g EXCEPT ![Key(c)] = x] /\ port'[c] = p
        /\ pc'[c] = "save" /\ work[c] = "acquire" /\ g[Key(c)] # NoClaim
    BY <1>7 DEF Reacquire, Held, Base, TypeOK, Goto, g
  <2>2. p \in Ports
    BY <1>1, <1>3, <2>1, ClaimTypes
  <2>3. x.owner \in Owners /\ Fits(x.owner, Key(c))
    <3>1. x.owner = <<"cli", c>> /\ x.owner \in Owners
      BY DEF OwnedBy, Owners
    <3>2. cmd[c].op # "list"
      BY <2>1 DEF Base, Shape
    <3>3. QED
      BY <1>1, <3>1, <3>2 DEF Fits, Started
  <2>4. registry[Key(c)].port = p
    BY <1>1, <1>5, <2>1
  <2>5. OwnEntry(c)'
    BY <1>1, <1>6, <2>1, <2>3, <2>4 DEF OwnEntry, OwnedBy
  <2>6. QED
    BY <1>1, <1>6, <2>1, <2>3, <2>5 DEF ViewOf
<1>8. CASE BeginScan(c)
  <2>1. /\ entries'[c] = g /\ pc'[c] = "scan" /\ work[c] = "acquire" /\ g[Key(c)] = NoClaim
    BY <1>8 DEF BeginScan, Held, Base, TypeOK, Goto, g
  <2>2. entries'[c] = [g EXCEPT ![Key(c)] = NoClaim]
    BY <1>1, <1>3, <2>1 DEF Tables
  <2>3. Dead(Key(c))'
    BY <1>1, <1>2, <1>5, <2>1
  <2>4. QED
    BY <1>1, <1>6, <2>1, <2>2, <2>3 DEF ViewOf
<1>9. CASE Rewrite(c) /\ work[c] = "list"
  <2>1. entries'[c] = g /\ pc'[c] = "save"
    BY <1>9 DEF Rewrite, Base, TypeOK, Goto, g
  <2>2. \A k \in Keys : entries'[c][k] = registry'[k] \/ (entries'[c][k] = NoClaim /\ Dead(k)')
    BY <1>1, <1>2, <1>5, <2>1
  <2>3. Born(entries[c])'
    BY <1>3, <1>4, <2>1 DEF Born, Fits, Started, Key
  <2>4. OwnEntry(c)'
    BY <1>1, <1>9 DEF OwnEntry
  <2>5. QED
    BY <2>1, <2>2, <2>3, <2>4 DEF ViewOf
<1>10. CASE Rewrite(c) /\ work[c] = "release"
  <2>1. entries'[c] = [g EXCEPT ![Key(c)] = NoClaim] /\ pc'[c] = "save"
    BY <1>10 DEF Rewrite, Base, TypeOK, Goto, g
  <2>2. QED
    BY <1>1, <1>6, <1>10, <2>1 DEF ViewOf, OwnEntry
<1>11. CASE Rewrite(c) /\ work[c] \in {"claim", "keep"}
  <2>1. /\ entries'[c] = [g EXCEPT ![Key(c)] = Claimed(c)] /\ pc'[c] = "save"
        /\ port'[c] = port[c]
    BY <1>11 DEF Rewrite, Base, TypeOK, Goto, g
  <2>2. port[c] \in Ports /\ app[c] # "none"
    BY <1>11 DEF Base, Shape, TypeOK
  <2>3. Claimed(c).owner \in Owners /\ Fits(Claimed(c).owner, Key(c))
    <3>1. Claimed(c).owner = <<"app", c>> /\ Claimed(c).owner \in Owners
      BY DEF Claimed, OwnedBy, Owners
    <3>2. cmd[c].op # "list"
      BY <2>2 DEF Base, Shape
    <3>3. QED
      BY <1>1, <2>2, <3>1, <3>2 DEF Fits, Started
  <2>4. OwnEntry(c)'
    BY <1>1, <1>6, <1>11, <2>1, <2>3 DEF OwnEntry, Claimed, OwnedBy
  <2>5. QED
    BY <1>1, <1>6, <1>11, <2>1, <2>3, <2>4 DEF ViewOf
<1>12. QED
  BY <1>7, <1>8, <1>9, <1>10, <1>11 DEF Load, Rewrite, Base, TypeOK, Works

LEMMA ViewProbe ==
    ASSUME Base, NEW c \in Clis, Probe(c)
    PROVE  ViewOf(c)'
<1>1. /\ pc[c] = "scan" /\ registry' = registry /\ cmd' = cmd /\ work' = work
      /\ Key(c)' = Key(c) /\ Key(c) \in Keys /\ Step(c) /\ work[c] = "acquire"
      /\ cmd[c].op # "list" /\ ViewOf(c) /\ entries[c] \in Tables
  BY DEF Probe, Base, TypeOK, Key, Step, Shape, View
<1>2. CASE ~ Free(c, Candidate(c))
  BY <1>1, <1>2, ViewKept DEF Probe
<1>3. CASE Free(c, Candidate(c))
  <2> DEFINE x == OwnedBy("cli", c, Candidate(c))
  <2>1. /\ entries'[c] = [entries[c] EXCEPT ![Key(c)] = x]
        /\ port'[c] = Candidate(c) /\ pc'[c] = "save"
    BY <1>3 DEF Probe, Base, TypeOK, Goto
  <2>2. x.owner \in Owners /\ Fits(x.owner, Key(c))
    <3>1. x.owner = <<"cli", c>> /\ x.owner \in Owners
      BY DEF OwnedBy, Owners
    <3>2. QED
      BY <1>1, <3>1 DEF Fits, Started
  <2> HIDE DEF x
  <2>3. \A k \in Keys : entries'[c][k] = IF k = Key(c) THEN x ELSE entries[c][k]
    BY <1>1, <2>1 DEF Tables
  <2>4. \A k \in Keys : Dead(k) => Dead(k)'
    BY <1>1, DeadStays
  <2>5. \A k \in Keys \ {Key(c)} :
            entries'[c][k] = registry'[k] \/ (entries'[c][k] = NoClaim /\ Dead(k)')
    BY <1>1, <2>3, <2>4 DEF ViewOf
  <2>6. \A k \in Keys : entries'[c][k] # NoClaim =>
            entries'[c][k].owner \in Owners /\ Fits(entries'[c][k].owner, k)
    BY <1>1, <2>2, <2>3, ClaimTypes DEF ViewOf, Born
  <2>7. Born(entries[c])'
    <3>1. \A o \in Owners, k1 \in Keys : Fits(o, k1) => Fits(o, k1)'
      BY <1>1, Aging
    <3>2. QED
      BY <2>6, <3>1 DEF Born, Fits, Started, Key
  <2>8. OwnEntry(c)'
    BY <1>1, <2>1, <2>3, <2>4 DEF OwnEntry, ViewOf, x, OwnedBy
  <2>9. QED
    BY <1>1, <2>1, <2>5, <2>7, <2>8 DEF ViewOf
<1>4. QED
  BY <1>2, <1>3

LEMMA ViewStep ==
    ASSUME Base, TypeOK', NEW c \in Clis, Step(c)
    PROVE  View'
<1> SUFFICES ASSUME NEW d \in Clis, pc'[d] \in {"scan", "save"}
             PROVE  ViewOf(d)'
  BY DEF View
<1>1. CASE d = c
  <2>1. Load(c) \/ Probe(c) \/ UNCHANGED <<pc, cmd, work, port, entries, registry>>
    BY <1>1, Frame DEF Base
  <2>2. CASE Load(c)
    BY <1>1, <2>2, ViewLoad
  <2>3. CASE Probe(c)
    BY <1>1, <2>3, ViewProbe
  <2>4. CASE UNCHANGED <<pc, cmd, work, port, entries, registry>>
    BY <2>4, ViewKept
  <2>5. QED
    BY <2>1, <2>2, <2>3, <2>4
<1>2. CASE d # c
  <2>1. /\ pc'[d] = pc[d] /\ cmd'[d] = cmd[d] /\ work'[d] = work[d]
        /\ port'[d] = port[d] /\ entries'[d] = entries[d]
    BY <1>2, Frame DEF Base
  <2>2. ~ Save(c)
    BY <1>2, <2>1 DEF Save, Base, Exclusive, Inside
  <2>3. registry' = registry
    BY <2>2, Frame DEF Base
  <2>4. QED
    BY <2>1, <2>3, ViewKept
<1>3. QED
  BY <1>1, <1>2

LEMMA BaseInit == Init => Base
<1> SUFFICES ASSUME Init PROVE Base
  OBVIOUS
<1>1. Empty \in Tables /\ \A k \in Keys : Empty[k] = NoClaim
  BY DEF Empty, Tables
<1>2. TypeOK
  BY <1>1 DEF Init, TypeOK, Ops, Works, Levels, Lock!Init, Lock!Free
<1>3. Exclusive /\ Shape /\ Born(registry) /\ View
  BY <1>1 DEF Init, Exclusive, Inside, Shape, AppLive, Born, View, Lock!Init, Lock!Free
<1>4. QED
  BY <1>2, <1>3 DEF Base

LEMMA BaseNext == Base /\ [Next]_vars => Base'
<1> SUFFICES ASSUME Base, [Next]_vars PROVE Base'
  OBVIOUS
<1>1. ASSUME NEW c \in Clis, Step(c) PROVE Base'
  BY <1>1, TypeStep, ExclusiveStep, ShapeStep, BornStep, ViewStep DEF Base
<1>2. CASE UNCHANGED vars
  BY <1>2 DEF vars, Base, TypeOK, Exclusive, Inside, Shape, AppLive, Born, Fits, Started, View,
     ViewOf, OwnEntry, OwnedBy, Key, Dead, PidAlive, Active
<1>3. QED
  BY <1>1, <1>2 DEF Next, AllDone

-----------------------------------------------------------------------------
(* What holds of the commands that are not astray *)

Sane(c) == astray[c] = "no"

\* No two claims of the living are of one port.
Distinct(table) ==
    \A j, k \in Keys :
        /\ j # k /\ table[j] # NoClaim /\ table[k] # NoClaim
        /\ PidAlive(table[j].owner) /\ PidAlive(table[k].owner)
        /\ Sane(table[j].owner[2]) /\ Sane(table[k].owner[2])
        => table[j].port # table[k].port

DistinctViews == \A c \in Clis : pc[c] \in {"scan", "save"} => Distinct(entries[c])

\* Who else is busy with the app of a command.
Alone ==
    \A c, d \in Clis : c # d /\ Key(c) = Key(d) =>
        /\ Busy(c) /\ Busy(d) => \/ ~ Sane(c) /\ ~ Sane(d)
                                 \/ /\ cmd[c].op = "acquire" /\ cmd[d].op = "acquire"
                                    /\ Sane(c) /\ Sane(d)
        /\ AppLive(c) /\ Busy(d) => ~ Sane(c) /\ ~ Sane(d)
        /\ AppLive(c) /\ AppLive(d) => ~ Sane(c)

Mine(c) == {OwnedBy("cli", c, port[c]), OwnedBy("app", c, port[c])}

\* An app that runs has a claim of somebody who lives; it is the app's own once its
\* launcher has written it; and until then the launcher's stands.
ClaimOf(c) ==
    /\ AppLive(c) => registry[Key(c)] \in Mine(c) /\ PidAlive(registry[Key(c)].owner)
    /\ AppLive(c) /\ pc[c] \in {"exit", "done"} => registry[Key(c)] = OwnedBy("app", c, port[c])
    /\ Active(c) /\ work[c] \in {"claim", "keep"} => registry[Key(c)] \in Mine(c) \cup {NoClaim}
    /\ pc[c] = "spawn" => registry[Key(c)] = OwnedBy("cli", c, port[c])

Claimants == \A c \in Clis : Sane(c) => ClaimOf(c)

Inv == Base /\ Distinct(registry) /\ DistinctViews /\ Alone /\ Claimants

\* A command that starts marks whom it meets.
LEMMA StartMarks ==
    ASSUME TypeOK, NEW c \in Clis, NEW op \in Ops, NEW k \in Keys, Start(c, op, k),
           Sane(c)
    PROVE  /\ Survivors(op, k) # {} /\ op # "list" => ~ Sane(c)'
           /\ \A d \in Rivals(c, k) \cup Survivors(op, k) : ~ Sane(c)' => ~ Sane(d)'
           /\ \A d \in Rivals(c, k) : op # "list" =>
                 \/ ~ Sane(c)'
                 \/ op = "acquire" /\ cmd[d].op = "acquire" /\ Sane(d)'
           /\ \A d \in Clis \ {c} : ~ Sane(d) => ~ Sane(d)'
           /\ \A d \in Clis \ {c} : Sane(d) /\ ~ Sane(d)' =>
                 d \in Rivals(c, k) \cup Survivors(op, k) /\ ~ Sane(c)'
<1>1. \A d \in Clis : astray'[d] = IF d \in {c} \cup Rivals(c, k) \cup Survivors(op, k)
                                   THEN Worse(astray[d], Level(c, op, k)) ELSE astray[d]
  BY DEF Start
<1>2. \A d \in Clis : astray[d] \in Levels /\ astray'[d] \in Levels
  BY <1>1 DEF TypeOK, Worse, Level, Levels
<1>3. /\ \A a \in Levels : Worse(a, "no") = a
      /\ \A a \in Levels, b \in Levels : Worse(a, b) = "no" <=> a = "no" /\ b = "no"
  BY DEF Levels, Worse
<1>4. Level(c, op, k) \in Levels
  BY DEF Level, Levels
<1>5. Level(c, op, k) = "no" <=>
        op = "list" \/ (Survivors(op, k) = {} /\ Gentle(c, op, k, {"no"}))
  BY DEF Level
<1>6. \A d \in {c} \cup Rivals(c, k) \cup Survivors(op, k) :
         d \in Clis /\ (Sane(d)' <=> Sane(d) /\ Level(c, op, k) = "no")
  <2>1. Rivals(c, k) \cup Survivors(op, k) \subseteq Clis
    BY DEF Rivals, Survivors
  <2>2. QED
    BY <1>1, <1>2, <1>3, <1>4, <2>1 DEF Sane
<1>7. \A d \in Clis \ {c} : d \in Rivals(c, k) \cup Survivors(op, k) \/ (Sane(d)' <=> Sane(d))
  BY <1>1 DEF Sane
<1>8. \A d \in Rivals(c, k) : Gentle(c, op, k, {"no"}) =>
         op = "acquire" /\ cmd[d].op = "acquire" /\ Sane(d)
  BY DEF Gentle, Sane
<1>9. QED
  BY <1>5, <1>6, <1>7, <1>8

\* c is new: no app of its own.
LEMMA AloneStart ==
    ASSUME Inv, NEW c \in Clis, NEW op \in Ops, NEW k \in Keys, Start(c, op, k)
    PROVE  Alone'
<1> TypeOK /\ Shape /\ Alone
  BY DEF Inv, Base
<1>1. /\ pc[c] = "new" /\ app[c] = "none" /\ pc' = [pc EXCEPT ![c] = "lock"]
      /\ cmd' = [cmd EXCEPT ![c] = [op |-> op, key |-> k]]
      /\ \A d \in Clis : app'[d] = IF op = "close" /\ d \in Known(k) /\ AppLive(d) THEN "dead"
                                   ELSE app[d]
  BY DEF Start, Shape, Goto
<1>2. /\ Key(c)' = k /\ (Busy(c)' <=> op # "list") /\ cmd'[c].op = op /\ ~ AppLive(c)'
      /\ \A d \in Clis \ {c} : /\ Key(d)' = Key(d) /\ cmd'[d] = cmd[d] /\ (Busy(d)' <=> Busy(d))
                               /\ AppLive(d)' => AppLive(d)
  BY <1>1 DEF TypeOK, Key, Busy, Active, AppLive
<1>3. \A d \in Clis \ {c} : Key(d) = k =>
         /\ Busy(d) => d \in Rivals(c, k)
         /\ AppLive(d)' => d \in Survivors(op, k)
  BY <1>1, <1>2 DEF Rivals, Survivors, Known, AppLive
<1>4. /\ Survivors(op, k) # {} /\ op # "list" => ~ Sane(c)'
      /\ \A d \in Rivals(c, k) \cup Survivors(op, k) : ~ Sane(c)' => ~ Sane(d)'
      /\ \A d \in Rivals(c, k) : op # "list" =>
            ~ Sane(c)' \/ (op = "acquire" /\ cmd[d].op = "acquire" /\ Sane(d)')
      /\ \A d \in Clis \ {c} : ~ Sane(d) => ~ Sane(d)'
      /\ \A d \in Clis \ {c} : Sane(d) /\ ~ Sane(d)' =>
            d \in Rivals(c, k) \cup Survivors(op, k) /\ ~ Sane(c)'
  <2>1. Sane(c)
    BY <1>1 DEF Shape, Sane
  <2>2. QED
    BY <2>1, StartMarks
<1>5. ASSUME NEW d \in Clis \ {c}, Key(d) = k
      PROVE  /\ Busy(c)' /\ Busy(d)' => \/ ~ Sane(c)' /\ ~ Sane(d)'
                                       \/ /\ op = "acquire" /\ cmd[d].op = "acquire"
                                          /\ Sane(c)' /\ Sane(d)'
             /\ AppLive(d)' /\ Busy(c)' => ~ Sane(d)' /\ ~ Sane(c)'
  BY <1>2, <1>3, <1>4, <1>5
<1>6. ASSUME NEW d \in Clis \ {c}, NEW e \in Clis \ {c}, d # e, Key(d) = Key(e)
      PROVE  /\ Busy(d)' /\ Busy(e)' => \/ ~ Sane(d)' /\ ~ Sane(e)'
                                       \/ /\ cmd[d].op = "acquire" /\ cmd[e].op = "acquire"
                                          /\ Sane(d)' /\ Sane(e)'
             /\ AppLive(d)' /\ Busy(e)' => ~ Sane(d)' /\ ~ Sane(e)'
             /\ AppLive(d)' /\ AppLive(e)' => ~ Sane(d)'
  <2>1. Sane(d) /\ ~ Sane(d)' => Key(d) = k /\ ~ Sane(c)'
    BY <1>4 DEF Rivals, Survivors
  <2>2. Sane(e) /\ ~ Sane(e)' => Key(e) = k /\ ~ Sane(c)'
    BY <1>4 DEF Rivals, Survivors
  <2>3. Busy(d)' /\ Busy(e)' => \/ ~ Sane(d)' /\ ~ Sane(e)'
                                \/ /\ cmd[d].op = "acquire" /\ cmd[e].op = "acquire"
                                   /\ Sane(d)' /\ Sane(e)'
    BY <1>2, <1>3, <1>4, <1>6, <2>1, <2>2 DEF Alone
  <2>4. AppLive(d)' /\ Busy(e)' => ~ Sane(d)' /\ ~ Sane(e)'
    BY <1>2, <1>4, <1>6 DEF Alone
  <2>5. AppLive(d)' /\ AppLive(e)' => ~ Sane(d)'
    BY <1>2, <1>4, <1>6 DEF Alone
  <2>6. QED
    BY <2>3, <2>4, <2>5
<1>7. QED
  BY <1>2, <1>5, <1>6 DEF Alone, AppLive

LEMMA AloneStep ==
    ASSUME Inv, NEW c \in Clis, Step(c)
    PROVE  Alone'
<1> TypeOK /\ Shape /\ Alone
  BY DEF Inv, Base
<1>1. CASE \E op \in Ops, k \in Keys : Start(c, op, k)
  BY <1>1, AloneStart
<1>2. CASE Spawn(c)
  <2>1. /\ Active(c) /\ cmd' = cmd /\ app' = [app EXCEPT ![c] = "booting"] /\ astray' = astray
        /\ \A d \in Clis : Active(d)' = Active(d)
        /\ cmd[c].op = "launch"
    BY <1>2 DEF Spawn, Goto, TypeOK, Active, Shape
  <2>2. /\ Busy(c) /\ cmd[c].op # "acquire"
        /\ \A d \in Clis : Key(d)' = Key(d) /\ (Busy(d)' <=> Busy(d)) /\ (Sane(d)' <=> Sane(d))
        /\ \A d \in Clis \ {c} : AppLive(d)' <=> AppLive(d)
    BY <2>1 DEF Busy, Key, Sane, AppLive, TypeOK
  <2>3. QED
    BY <2>1, <2>2 DEF Alone
<1>3. CASE ~ Spawn(c) /\ pc[c] # "new"
  <2>1. cmd' = cmd
    BY <1>3, Frame, TypeStep DEF Inv, Base, TypeOK
  <2>2. \A d \in Clis : AppLive(d)' => AppLive(d)
    BY <1>3, Frame DEF AppLive
  <2>3. \A d \in Clis : Busy(d)' => Busy(d)
    BY <1>3, <2>1, Frame DEF Active, Busy
  <2>4. \A d \in Clis : Sane(d)' => Sane(d)
    BY Frame DEF Sane
  <2>5. \A d \in Clis : Sane(d) /\ ~ Sane(d)' => d = c /\ AppLive(c)
    BY <1>3 DEF Step, Start, LockTimeout, Load, Probe, Exhausted, Save, SaveFails,
       PageTimeout, Exit, Spawn, SpawnFails, Record, RecordFails, AbortLaunch, AbortKeep,
       Kill, Boot, Die, Orphaned, Unclaimed, Sane, TypeOK
  <2>6. \A d \in Clis : Key(d)' = Key(d)
    BY <2>1 DEF Key
  <2>7. \A d \in Clis \ {c} : Key(c) = Key(d) /\ Busy(d) /\ ~ Sane(c)' => ~ Sane(d)' \/ ~ Busy(c)'
    BY <2>3, <2>4, <2>5 DEF Alone
  <2>8. QED
    BY <2>1, <2>2, <2>3, <2>4, <2>5, <2>6, <2>7 DEF Alone
<1>4. CASE pc[c] = "new" /\ ~ \E op \in Ops, k \in Keys : Start(c, op, k)
  BY <1>4 DEF Step, LockTimeout, Load, Probe, Exhausted, Save, SaveFails,
     PageTimeout, Exit, Spawn, SpawnFails, Record, RecordFails, AbortLaunch, AbortKeep,
     Kill, Active, Boot, Die, Shape, AppLive
<1>5. QED
  BY <1>1, <1>2, <1>3, <1>4

\* Who lives after a step lived before it, if there was a claim of his.
LEMMA AliveBefore ==
    ASSUME Base, NEW c \in Clis, Step(c), NEW o \in Owners, Started(o), PidAlive(o)'
    PROVE  PidAlive(o)
  BY Aging

LEMMA DistinctGc ==
    ASSUME Base, Distinct(registry)
    PROVE  Distinct(Gc(registry))
  BY GcIs DEF Base, TypeOK, Distinct

LEMMA DistinctStep ==
    ASSUME Inv, NEW c \in Clis, Step(c)
    PROVE  Distinct(registry)'
<1> SUFFICES ASSUME NEW j \in Keys, NEW k \in Keys, j # k,
                    registry'[j] # NoClaim, registry'[k] # NoClaim,
                    PidAlive(registry[j].owner)', PidAlive(registry[k].owner)',
                    Sane(registry[j].owner[2])', Sane(registry[k].owner[2])'
             PROVE  registry'[j].port # registry'[k].port
  BY DEF Distinct
<1> DEFINE T == IF registry' = registry THEN registry ELSE entries[c]
<1>1. registry' = T /\ T \in Tables /\ Born(T) /\ Distinct(T)
  <2>1. CASE registry' = registry
    BY <2>1 DEF Inv, Base, TypeOK
  <2>2. CASE registry' # registry
    <3>1. Save(c)
      BY <2>2, Frame DEF Inv, Base
    <3>2. QED
      BY <2>2, <3>1 DEF Save, Inv, Base, TypeOK, DistinctViews, View, ViewOf
  <2>3. QED
    BY <2>1, <2>2
<1> HIDE DEF T
<1>2. /\ T[j].owner \in Owners /\ Started(T[j].owner)
      /\ T[k].owner \in Owners /\ Started(T[k].owner)
  BY <1>1, ClaimTypes DEF Born, Fits
<1>3. \A o \in Owners : Started(o) /\ PidAlive(o)' => PidAlive(o)
  BY AliveBefore DEF Inv
<1>4. PidAlive(T[j].owner) /\ PidAlive(T[k].owner)
  BY <1>1, <1>2, <1>3 DEF PidAlive
<1>5. Sane(T[j].owner[2]) /\ Sane(T[k].owner[2])
  <2>1. \A o \in Owners : astray'[o[2]] = "no" => astray[o[2]] = "no"
    BY Frame DEF Inv, Base, Owners
  <2>2. QED
    BY <1>1, <1>2, <2>1 DEF Sane
<1>6. QED
  BY <1>1, <1>4, <1>5 DEF Distinct

\* While c reads and scans, nobody is born and nobody dies.
LEMMA DistinctNow ==
    ASSUME NEW c \in Clis, TypeOK, TypeOK', app' = app, astray' = astray, pc[c] \in {"lock", "scan"},
           pc'[c] \in {"scan", "save"}, \A d \in Clis \ {c} : pc'[d] = pc[d],
           Distinct(entries'[c])
    PROVE  Distinct(entries[c])'
<1>1. \A o \in Owners : PidAlive(o)' <=> PidAlive(o)
  BY DEF Owners, PidAlive, Active, AppLive
<1>2. entries'[c] \in Tables
  BY DEF TypeOK
<1>3. \A k \in Keys : entries'[c][k] # NoClaim => entries'[c][k].owner \in Owners
  BY <1>2, ClaimTypes
<1>4. \A k \in Keys : entries'[c][k] # NoClaim /\ PidAlive(entries[c][k].owner)' =>
                         PidAlive(entries'[c][k].owner)
  BY <1>1, <1>3 DEF PidAlive
<1>5. QED
  BY <1>4 DEF Distinct, Sane

LEMMA DistinctLoad ==
    ASSUME Inv, TypeOK', NEW c \in Clis, Load(c)
    PROVE  Distinct(entries[c])'
<1> DEFINE g == Gc(registry)
<1>1. /\ g \in Tables /\ Distinct(g) /\ Key(c) \in Keys
      /\ \A k \in Keys : g[k] # NoClaim => g[k] = registry[k] /\ PidAlive(g[k].owner)
      /\ \A k \in Keys : registry[k] # NoClaim /\ PidAlive(registry[k].owner) => g[k] = registry[k]
  BY GcIs, DistinctGc DEF Inv, Base, TypeOK, Key
<1>2. /\ app' = app /\ astray' = astray /\ pc[c] = "lock" /\ pc'[c] \in {"scan", "save"}
      /\ \A d \in Clis \ {c} : pc'[d] = pc[d]
  BY DEF Load, Reacquire, BeginScan, Rewrite, Goto, Inv, Base, TypeOK
<1> HIDE DEF g
<1>3. ASSUME NEW x, entries'[c] = [g EXCEPT ![Key(c)] = x],
             x # NoClaim /\ PidAlive(x.owner) /\ Sane(x.owner[2]) =>
                /\ g[Key(c)] # NoClaim /\ g[Key(c)].port = x.port
                /\ Sane(g[Key(c)].owner[2])
      PROVE  Distinct(entries'[c])
  <2>1. \A k \in Keys : entries'[c][k] = IF k = Key(c) THEN x ELSE g[k]
    BY <1>1, <1>3 DEF Tables
  <2>2. QED
    BY <1>1, <1>3, <2>1 DEF Distinct
<1>4. Distinct(entries'[c])
  <2>1. CASE Reacquire(c)
    <3>1. /\ entries'[c] = [g EXCEPT ![Key(c)] = OwnedBy("cli", c, g[Key(c)].port)]
          /\ g[Key(c)] # NoClaim
      BY <2>1 DEF Reacquire, Held, Inv, Base, TypeOK, g
    <3>2. /\ OwnedBy("cli", c, g[Key(c)].port).port = g[Key(c)].port
          /\ OwnedBy("cli", c, g[Key(c)].port).owner[2] = c
      BY DEF OwnedBy
    <3>3. Sane(c) => Sane(g[Key(c)].owner[2])
      <4>1. /\ g[Key(c)].owner \in Owners /\ Fits(g[Key(c)].owner, Key(c))
            /\ PidAlive(g[Key(c)].owner)
        BY <1>1, <3>1, ClaimTypes DEF Inv, Base, TypeOK, Born
      <4>2. g[Key(c)].owner[2] \in Clis
        BY <4>1 DEF Owners
      <4>3. Busy(c) /\ app[c] = "none" /\ work[c] = "acquire"
        BY <1>2, <2>1 DEF Reacquire, Busy, Active, Inv, Base, Shape
      <4>4. Busy(g[Key(c)].owner[2]) \/ AppLive(g[Key(c)].owner[2])
        BY <4>1 DEF Fits, PidAlive, Busy
      <4>5. QED
        BY <4>1, <4>2, <4>3, <4>4 DEF Fits, Inv, Alone
    <3>4. QED
      BY <1>3, <3>1, <3>2, <3>3
  <2>2. CASE entries'[c] = g
    BY <1>1, <2>2
  <2>3. CASE entries'[c] = [g EXCEPT ![Key(c)] = NoClaim]
    BY <1>3, <2>3
  <2>4. CASE Rewrite(c) /\ work[c] \in {"claim", "keep"}
    <3>1. entries'[c] = [g EXCEPT ![Key(c)] = Claimed(c)]
      BY <2>4 DEF Rewrite, Inv, Base, TypeOK, g
    <3>2. /\ Claimed(c).port = port[c] /\ (PidAlive(Claimed(c).owner) => AppLive(c))
          /\ Claimed(c).owner[2] = c
      BY DEF Claimed, OwnedBy, PidAlive
    <3>3. AppLive(c) /\ Sane(c) =>
             /\ registry[Key(c)] # NoClaim /\ PidAlive(registry[Key(c)].owner)
             /\ registry[Key(c)].port = port[c] /\ registry[Key(c)].owner[2] = c
      <4>1. port[c] \in Ports
        BY <2>4 DEF Inv, Base, Shape, TypeOK
      <4>2. \A m \in Mine(c) : m # NoClaim /\ m.port = port[c] /\ m.owner[2] = c
        BY <4>1, OwnedByType, NoClaimIsNone DEF Mine
      <4>3. QED
        BY <4>2 DEF Inv, Claimants, ClaimOf
    <3>4. QED
      BY <1>1, <1>3, <3>1, <3>2, <3>3
  <2>5. QED
    BY <2>1, <2>2, <2>3, <2>4 DEF Load, BeginScan, Rewrite, Inv, Base, TypeOK, Works, g
<1>5. QED
  BY <1>2, <1>4, DistinctNow DEF Inv, Base

LEMMA DistinctProbe ==
    ASSUME Inv, TypeOK', NEW c \in Clis, Probe(c)
    PROVE  Distinct(entries[c])'
<1>1. /\ app' = app /\ astray' = astray /\ pc[c] = "scan" /\ pc'[c] \in {"scan", "save"}
      /\ \A d \in Clis \ {c} : pc'[d] = pc[d]
      /\ Key(c) \in Keys /\ entries[c] \in Tables /\ Distinct(entries[c])
  BY DEF Probe, Goto, Inv, Base, TypeOK, Key, DistinctViews
<1>2. CASE ~ Free(c, Candidate(c))
  BY <1>1, <1>2, DistinctNow DEF Probe, Inv, Base
<1>3. CASE Free(c, Candidate(c))
  <2> DEFINE x == OwnedBy("cli", c, Candidate(c))
  <2>1. entries'[c] = [entries[c] EXCEPT ![Key(c)] = x]
    BY <1>3 DEF Probe, Inv, Base, TypeOK
  <2>2. \A k \in Keys : entries[c][k] # NoClaim => entries[c][k].port # x.port
    BY <1>3 DEF Free, Taken, OwnedBy
  <2> HIDE DEF x
  <2>3. \A k \in Keys : entries'[c][k] = IF k = Key(c) THEN x ELSE entries[c][k]
    BY <1>1, <2>1 DEF Tables
  <2>4. Distinct(entries'[c])
    BY <1>1, <2>2, <2>3 DEF Distinct
  <2>5. QED
    BY <1>1, <2>4, DistinctNow DEF Inv, Base
<1>4. QED
  BY <1>2, <1>3

LEMMA DistinctViewsStep ==
    ASSUME Inv, TypeOK', NEW c \in Clis, Step(c)
    PROVE  DistinctViews'
<1> SUFFICES ASSUME NEW d \in Clis, pc'[d] \in {"scan", "save"}
             PROVE  Distinct(entries[d])'
  BY DEF DistinctViews
<1>1. ASSUME pc'[d] = pc[d], entries'[d] = entries[d]
      PROVE  Distinct(entries[d])'
  <2>1. entries[d] \in Tables /\ Born(entries[d]) /\ Distinct(entries[d])
    BY <1>1 DEF Inv, Base, TypeOK, View, ViewOf, DistinctViews
  <2>2. \A k \in Keys : entries[d][k] # NoClaim =>
            entries[d][k].owner \in Owners /\ Started(entries[d][k].owner)
    BY <2>1, ClaimTypes DEF Born, Fits
  <2>3. \A o \in Owners : Started(o) /\ PidAlive(o)' => PidAlive(o)
    BY AliveBefore DEF Inv
  <2>4. \A k \in Keys : entries[d][k] # NoClaim /\ PidAlive(entries[d][k].owner)' =>
                           PidAlive(entries[d][k].owner)
    BY <1>1, <2>2, <2>3 DEF PidAlive
  <2>5. \A k \in Keys : entries[d][k] # NoClaim /\ Sane(entries[d][k].owner[2])' =>
                           Sane(entries'[d][k].owner[2])
    <3>1. \A o \in Owners : astray'[o[2]] = "no" => astray[o[2]] = "no"
      BY Frame DEF Inv, Base, Owners
    <3>2. QED
      BY <1>1, <2>2, <3>1 DEF Sane
  <2>6. QED
    BY <1>1, <2>1, <2>4, <2>5 DEF Distinct
<1>2. CASE d # c
  BY <1>1, <1>2, Frame DEF Inv, Base
<1>3. CASE d = c
  <2>1. Load(c) \/ Probe(c) \/ UNCHANGED <<pc, cmd, work, port, entries, registry>>
    BY <1>3, Frame DEF Inv, Base
  <2>2. QED
    BY <1>1, <1>3, <2>1, DistinctLoad, DistinctProbe
<1>4. QED
  BY <1>2, <1>3

-----------------------------------------------------------------------------

\* What another command writes does not take the claim of d away.
LEMMA OthersSave ==
    ASSUME Inv, NEW c \in Clis, Save(c), NEW d \in Clis \ {c}, Sane(d),
           AppLive(d) \/ (Active(d) /\ cmd[d].op = "launch")
    PROVE  \/ registry'[Key(d)] = registry[Key(d)]
           \/ registry'[Key(d)] = NoClaim /\ Dead(Key(d))
<1>1. Active(c) /\ pc[c] = "save" /\ registry' = entries[c] /\ ViewOf(c) /\ Key(d) \in Keys
  BY DEF Save, Active, Inv, Base, View, TypeOK, Key
<1>2. Key(d) # Key(c) \/ cmd[c].op = "list"
  BY <1>1 DEF Inv, Alone, Busy
<1>3. cmd[c].op = "list" => work[c] = "list"
  BY DEF Inv, Base, Shape
<1>4. QED
  BY <1>1, <1>2, <1>3 DEF ViewOf

LEMMA ClaimOfOther ==
    ASSUME Inv, NEW c \in Clis, Step(c), NEW d \in Clis \ {c}, Sane(d)
    PROVE  ClaimOf(d)'
<1>1. /\ pc'[d] = pc[d] /\ cmd'[d] = cmd[d] /\ work'[d] = work[d] /\ port'[d] = port[d]
      /\ AppLive(d)' => AppLive(d)
      /\ Key(d)' = Key(d) /\ Active(d)' = Active(d)
      /\ Mine(d)' = Mine(d)
  BY Frame DEF Inv, Base, AppLive, Key, Active, Mine, OwnedBy
<1>2. /\ ClaimOf(d) /\ Shape /\ Key(d) \in Keys
      /\ \A m \in Mine(d) : /\ m.owner \in {<<"cli", d>>, <<"app", d>>}
      /\ OwnedBy("cli", d, port[d]).owner = <<"cli", d>>
      /\ OwnedBy("app", d, port[d]).owner = <<"app", d>>
  BY DEF Inv, Base, Claimants, Mine, OwnedBy, TypeOK, Key
<1>3. PidAlive(<<"cli", d>>) = Active(d) /\ PidAlive(<<"app", d>>) = AppLive(d)
      /\ PidAlive(<<"cli", d>>)' = Active(d)'  /\ PidAlive(<<"app", d>>)' = AppLive(d)'
  BY DEF PidAlive
<1>4. \/ registry'[Key(d)] = registry[Key(d)]
      \/ /\ AppLive(d) \/ (Active(d) /\ cmd[d].op = "launch") => Dead(Key(d))
         /\ AppLive(d) \/ (Active(d) /\ cmd[d].op = "launch") => registry'[Key(d)] = NoClaim
  BY OthersSave, Frame DEF Inv, Base
<1>5. AppLive(d) => /\ registry'[Key(d)] = registry[Key(d)]
                    /\ registry[Key(d)] \in Mine(d)
  <2>1. AppLive(d) => registry[Key(d)] \in Mine(d) /\ PidAlive(registry[Key(d)].owner)
    BY <1>2 DEF ClaimOf
  <2>2. AppLive(d) => registry[Key(d)] # NoClaim
    BY <2>1, NoClaimIsNone, OwnedByType DEF Mine, Inv, Base, Shape, TypeOK, AppLive
  <2>3. QED
    BY <1>4, <2>1, <2>2 DEF Dead
<1>6. AppLive(d)' => PidAlive(registry[Key(d)].owner)'
  <2>1. SUFFICES ASSUME AppLive(d)' PROVE PidAlive(registry[Key(d)].owner)'
    OBVIOUS
  <2>2. registry'[Key(d)'].owner \in {<<"cli", d>>, <<"app", d>>}
    BY <1>1, <1>2, <1>5, <2>1
  <2>3. registry[Key(d)].owner = <<"cli", d>> => Active(d)
    BY <1>1, <1>2, <1>3, <2>1 DEF ClaimOf
  <2>4. QED
    BY <1>1, <1>5, <2>1, <2>2, <2>3 DEF PidAlive
<1>7. Active(d) /\ work[d] \in {"claim", "keep"} => registry'[Key(d)] \in Mine(d) \cup {NoClaim}
  <2>1. work[d] \in {"claim", "keep"} => cmd[d].op = "launch"
    BY <1>2 DEF Shape
  <2>2. QED
    BY <1>2, <1>4, <2>1 DEF ClaimOf
<1>8. pc[d] = "spawn" => registry'[Key(d)] = OwnedBy("cli", d, port[d])
  <2>1. SUFFICES ASSUME pc[d] = "spawn"
                 PROVE  registry'[Key(d)] = OwnedBy("cli", d, port[d])
    OBVIOUS
  <2>2. /\ Active(d) /\ registry[Key(d)] = OwnedBy("cli", d, port[d]) /\ port[d] \in Ports
        /\ cmd[d].op = "launch"
    BY <1>2, <2>1 DEF ClaimOf, Active, Inv, Base, Shape, TypeOK
  <2>3. ~ Dead(Key(d))
    <3>1. OwnedBy("cli", d, port[d]) # NoClaim
      BY <2>2, OwnedByType, NoClaimIsNone
    <3>2. registry[Key(d)] # NoClaim /\ registry[Key(d)].owner = <<"cli", d>>
      BY <1>2, <2>2, <3>1
    <3>3. PidAlive(registry[Key(d)].owner)
      BY <2>2, <3>2 DEF PidAlive
    <3>4. QED
      BY <3>2, <3>3 DEF Dead
  <2>4. QED
    BY <1>4, <2>1, <2>2, <2>3
<1>9. QED
  BY <1>1, <1>2, <1>5, <1>6, <1>7, <1>8 DEF ClaimOf, OwnedBy

\* Whether the owner of a claim of c lives, now and after the step.
LEMMA MineIs ==
    ASSUME NEW c \in Clis
    PROVE  /\ OwnedBy("cli", c, port[c]).owner = <<"cli", c>>
           /\ OwnedBy("app", c, port[c]).owner = <<"app", c>>
           /\ \A x : x.owner = <<"cli", c>> => PidAlive(x.owner) = Active(c)
           /\ \A x : x.owner = <<"app", c>> => PidAlive(x.owner) = AppLive(c)
           /\ registry'[Key(c)'].owner = <<"cli", c>> => PidAlive(registry[Key(c)].owner)' = Active(c)'
           /\ registry'[Key(c)'].owner = <<"app", c>> => PidAlive(registry[Key(c)].owner)' = AppLive(c)'
  BY DEF OwnedBy, PidAlive

\* A step of c itself that leaves the registry alone.
LEMMA ClaimOfQuiet ==
    ASSUME Inv, NEW c \in Clis, Sane(c), Sane(c)', Step(c), ~ Save(c), ~ Spawn(c)
    PROVE  ClaimOf(c)'
<1> TypeOK /\ Shape /\ ClaimOf(c)
  BY DEF Inv, Base, Claimants
<1> USE DEF TypeOK, Goto
<1>1. CASE \E op \in Ops, k \in Keys : Start(c, op, k)
  <2>1. /\ app[c] = "none" /\ pc'[c] = "lock" /\ work'[c] \in {"acquire", "release", "list"}
        /\ app'[c] = "none"
    BY <1>1 DEF Start, Ops, Shape, AppLive
  <2>2. QED
    BY <2>1 DEF ClaimOf, AppLive
<1>2. CASE (Load(c) /\ work[c] = "acquire") \/ Probe(c)
  <2>1. /\ work[c] = "acquire" /\ pc'[c] \in {"scan", "save"}
        /\ work' = work /\ app' = app
    BY <1>2 DEF Load, Reacquire, BeginScan, Rewrite, Probe, Shape
  <2>2. app[c] = "none"
    BY <2>1 DEF Shape
  <2>3. QED
    BY <2>1, <2>2 DEF ClaimOf, AppLive
<1>3. CASE AbortLaunch(c)
  <2>1. pc'[c] = "lock" /\ work'[c] = "release" /\ app'[c] \notin {"booting", "listening"}
    BY <1>3 DEF AbortLaunch, AppLive
  <2>2. QED
    BY <2>1 DEF ClaimOf, AppLive
<1>4. CASE AbortKeep(c)
  <2>1. /\ pc[c] = "abort" /\ AppLive(c) /\ pc'[c] = "lock" /\ work'[c] = "keep"
        /\ UNCHANGED <<cmd, port, registry, app>>
    BY <1>4 DEF AbortKeep
  <2>2. Active(c) /\ Active(c)'
    BY <2>1 DEF Active
  <2>3. PidAlive(registry[Key(c)].owner)'
    <3>1. registry[Key(c)] \in Mine(c) /\ Key(c)' = Key(c) /\ AppLive(c)'
      BY <2>1 DEF ClaimOf, Key, AppLive
    <3>2. registry[Key(c)].owner \in {<<"cli", c>>, <<"app", c>>}
      BY <3>1, MineIs DEF Mine
    <3>3. QED
      BY <2>1, <2>2, <3>1, <3>2, MineIs
  <2>4. QED
    BY <2>1, <2>2, <2>3 DEF ClaimOf, Mine, OwnedBy, Key
<1>5. CASE Boot(c) \/ Die(c)
  <2>1. /\ UNCHANGED <<pc, cmd, work, port, registry>> /\ (AppLive(c)' => AppLive(c))
        /\ Active(c)' = Active(c)
    BY <1>5 DEF Boot, Die, AppLive, Active
  <2>2. Mine(c)' = Mine(c) /\ Key(c)' = Key(c)
    BY <2>1 DEF Mine, OwnedBy, Key
  <2>3. AppLive(c)' => PidAlive(registry[Key(c)].owner)'
    BY <2>1, <2>2 DEF ClaimOf, Mine, OwnedBy, PidAlive
  <2>4. QED
    BY <2>1, <2>2, <2>3 DEF ClaimOf, OwnedBy
<1>6. CASE \/ LockTimeout(c) \/ (Load(c) /\ work[c] # "acquire") \/ Exhausted(c) \/ SaveFails(c)
           \/ PageTimeout(c) \/ Exit(c) \/ SpawnFails(c) \/ Record(c) \/ RecordFails(c) \/ Kill(c)
  <2>1. /\ UNCHANGED <<cmd, work, port, registry, app>>
        /\ Key(c)' = Key(c) /\ Mine(c)' = Mine(c) /\ AppLive(c)' = AppLive(c)
        /\ Active(c)
    BY <1>6 DEF LockTimeout, Load, Reacquire, Rewrite, BeginScan, Exhausted, SaveFails,
       PageTimeout, Exit, SpawnFails, Record, RecordFails, Kill, Key, Mine, OwnedBy, AppLive,
       Active
  <2>2. AppLive(c) => work[c] \in {"claim", "keep"}
    BY DEF Shape, AppLive, Works
  <2>3. pc'[c] \in {"exit", "done"} =>
            (AppLive(c) => registry[Key(c)] = OwnedBy("app", c, port[c]))
    <3>1. CASE LockTimeout(c) \/ SaveFails(c) \/ Kill(c)
      <4>1. SUFFICES ASSUME AppLive(c), pc'[c] = "done" PROVE ~ Unclaimed(c)
        BY <3>1 DEF LockTimeout, SaveFails, Kill, AfterFailure, Unclaimed
      <4>2. Orphaned(c)
        BY <2>2, <3>1, <4>1 DEF LockTimeout, SaveFails, Kill, AfterFailure
      <4>3. QED
        BY <4>2 DEF Orphaned, Sane
    <3>2. CASE Exhausted(c)
      BY <2>2, <3>2 DEF Exhausted, Shape
    <3>3. QED
      BY <1>6, <2>2, <3>1, <3>2 DEF Load, Reacquire, Rewrite, BeginScan, PageTimeout, Exit,
         SpawnFails, Record, RecordFails, ClaimOf
  <2>4. AppLive(c) => PidAlive(registry[Key(c)].owner)'
    <3>1. SUFFICES ASSUME AppLive(c) PROVE PidAlive(registry[Key(c)].owner)'
      OBVIOUS
    <3>2. CASE registry[Key(c)] = OwnedBy("app", c, port[c])
      BY <2>1, <3>1, <3>2 DEF PidAlive, OwnedBy
    <3>3. CASE registry[Key(c)] # OwnedBy("app", c, port[c])
      <4>1. pc'[c] \notin {"new", "done"}
        BY <2>1, <2>3, <3>1, <3>3, Frame DEF Active
      <4>2. registry[Key(c)] = OwnedBy("cli", c, port[c])
        BY <3>1, <3>3 DEF ClaimOf, Mine
      <4>3. QED
        BY <2>1, <4>1, <4>2, MineIs DEF Active
    <3>4. QED
      BY <3>2, <3>3
  <2>5. pc'[c] # "spawn"
    BY <1>6 DEF LockTimeout, Load, Reacquire, Rewrite, BeginScan, Exhausted, SaveFails,
       PageTimeout, Exit, SpawnFails, Record, RecordFails, Kill, AfterFailure
  <2>6. QED
    BY <2>1, <2>3, <2>4, <2>5 DEF ClaimOf, OwnedBy
<1>7. QED
  BY <1>1, <1>2, <1>3, <1>4, <1>5, <1>6 DEF Step

LEMMA ClaimOfSave ==
    ASSUME Inv, NEW c \in Clis, Save(c)
    PROVE  ClaimOf(c)'
<1>1. /\ pc[c] = "save" /\ pc'[c] = AfterSuccess(c) /\ registry' = entries[c]
      /\ UNCHANGED <<cmd, work, port, app>> /\ OwnEntry(c)
      /\ Key(c)' = Key(c) /\ Mine(c)' = Mine(c) /\ AppLive(c)' = AppLive(c)
  BY DEF Save, Goto, Inv, Base, TypeOK, View, ViewOf, Key, Mine, OwnedBy, AppLive
<1>2. AppLive(c) => work[c] \in {"claim", "keep"}
  BY DEF Inv, Base, TypeOK, Shape, AppLive, Works
<1>3. work[c] \in {"claim", "keep"} => registry'[Key(c)] = OwnedBy("app", c, port[c])
  BY <1>1 DEF OwnEntry
<1>4. work[c] = "acquire" => registry'[Key(c)] = OwnedBy("cli", c, port[c])
  BY <1>1 DEF OwnEntry
<1>5. AppLive(c) => PidAlive(registry[Key(c)].owner)'
  BY <1>1, <1>2, <1>3, MineIs
<1>6. QED
  BY <1>1, <1>2, <1>3, <1>4, <1>5 DEF AfterSuccess, ClaimOf, Mine, OwnedBy

LEMMA ClaimOfSpawn ==
    ASSUME Inv, NEW c \in Clis, Sane(c), Spawn(c)
    PROVE  ClaimOf(c)'
<1>1. /\ pc[c] = "spawn" /\ pc'[c] = "record" /\ work'[c] = "claim"
      /\ UNCHANGED <<cmd, port, registry>>
      /\ Key(c)' = Key(c) /\ Mine(c)' = Mine(c)
  BY DEF Spawn, Goto, Inv, Base, TypeOK, Key, Mine, OwnedBy
<1>2. registry[Key(c)] = OwnedBy("cli", c, port[c])
  BY <1>1 DEF Inv, Base, Shape, Claimants, ClaimOf
<1>3. PidAlive(registry[Key(c)].owner)'
  BY <1>1, <1>2 DEF PidAlive, OwnedBy, Active
<1>4. QED
  BY <1>1, <1>2, <1>3 DEF ClaimOf, Mine

LEMMA InvInit == Init => Inv
<1> SUFFICES ASSUME Init PROVE Inv
  OBVIOUS
<1>1. Base
  BY BaseInit
<1>2. \A k \in Keys : registry[k] = NoClaim
  BY DEF Init, Empty
<1>3. QED
  BY <1>1, <1>2 DEF Init, Inv, Distinct, DistinctViews, Alone, Claimants, ClaimOf, Busy, Active, AppLive

LEMMA InvNext == Inv /\ [Next]_vars => Inv'
<1> SUFFICES ASSUME Inv, [Next]_vars PROVE Inv'
  OBVIOUS
<1>1. Base'
  BY BaseNext DEF Inv
<1>2. ASSUME NEW c \in Clis, Step(c) PROVE Inv'
  <2>1. Distinct(registry)' /\ DistinctViews' /\ Alone'
    BY <1>1, <1>2, DistinctStep, DistinctViewsStep, AloneStep DEF Base
  <2>2. Claimants'
    <3>1. \A d \in Clis : Sane(d)' => Sane(d)
      BY <1>2, Frame DEF Sane, Inv, Base
    <3>2. QED
      BY <1>2, <3>1, ClaimOfOther, ClaimOfQuiet, ClaimOfSave, ClaimOfSpawn DEF Claimants
  <2>3. QED
    BY <1>1, <2>1, <2>2 DEF Inv
<1>3. CASE UNCHANGED vars
  <2>1. Distinct(registry)' /\ DistinctViews'
    BY <1>3 DEF vars, Inv, Distinct, DistinctViews, PidAlive, Active, AppLive, Sane
  <2>2. Alone' /\ Claimants'
    BY <1>3 DEF vars, Inv, Alone, Claimants, ClaimOf, Mine, OwnedBy, Key, PidAlive, Active,
       AppLive, Busy, Sane
  <2>3. QED
    BY <1>1, <2>1, <2>2 DEF Inv
<1>4. QED
  BY <1>2, <1>3 DEF Next, AllDone

-----------------------------------------------------------------------------

\* The registry, and what a command makes of it, is a table of
\* well-formed claims.
THEOREM TypeCorrect == Spec => []TypeOK
<1>1. Base => TypeOK
  BY DEF Base
<1>2. QED
  BY <1>1, BaseInit, BaseNext, PTL DEF Spec

\* A command under registry_lock rewrites its own key and
\* drops the claims of the dead; it loses nobody's update.
THEOREM NoLostUpdateHolds == Spec => NoLostUpdate
<1>1. Base /\ [Next]_vars =>
        [\A k \in Keys :
           /\ registry'[k] # registry[k]
           => \/ \E c \in Clis : pc[c] = "save" /\ pc'[c] # "save" /\ Key(c) = k
              \/ registry'[k] = NoClaim /\ ~ PidAlive(registry[k].owner)]_vars
  <2> SUFFICES ASSUME Base, Next, NEW k \in Keys, registry'[k] # registry[k]
               PROVE  \/ \E c \in Clis : pc[c] = "save" /\ pc'[c] # "save" /\ Key(c) = k
                      \/ registry'[k] = NoClaim /\ ~ PidAlive(registry[k].owner)
    OBVIOUS
  <2>1. PICK c \in Clis : Step(c)
    BY DEF Next, AllDone, vars
  <2>2. Save(c)
    BY <2>1, Frame DEF Base
  <2>3. pc[c] = "save" /\ pc'[c] # "save" /\ registry' = entries[c] /\ ViewOf(c)
    BY <2>2 DEF Save, AfterSuccess, Goto, Base, TypeOK, View
  <2>4. Key(c) = k \/ (registry'[k] = NoClaim /\ Dead(k))
    BY <2>3 DEF ViewOf
  <2>5. QED
    BY <2>3, <2>4 DEF Dead
<1>2. QED
  BY <1>1, BaseInit, BaseNext, PTL DEF Spec, NoLostUpdate

\* "No more cross-wired apps": two apps of which none is astray never have one port.
THEOREM NoCrossWiringHolds == Spec => []NoCrossWiring
<1>1. Inv => NoCrossWiring
  <2> SUFFICES ASSUME Inv, NEW c \in Clis, NEW d \in Clis, c # d, AppLive(c), AppLive(d),
                      Sane(c), Sane(d)
               PROVE  port[c] # port[d]
    BY DEF NoCrossWiring, Sane
  <2>1. Key(c) # Key(d) /\ Key(c) \in Keys /\ Key(d) \in Keys
    BY DEF Inv, Alone, Base, TypeOK, Key
  <2>2. port[c] \in Ports /\ port[d] \in Ports
    BY DEF Inv, Base, TypeOK, Shape, AppLive
  <2>3. /\ \A m \in Mine(c) : m # NoClaim /\ m.port = port[c] /\ m.owner[2] = c
        /\ \A m \in Mine(d) : m # NoClaim /\ m.port = port[d] /\ m.owner[2] = d
    BY <2>2, OwnedByType, NoClaimIsNone DEF Mine
  <2>4. /\ registry[Key(c)] \in Mine(c) /\ PidAlive(registry[Key(c)].owner)
        /\ registry[Key(d)] \in Mine(d) /\ PidAlive(registry[Key(d)].owner)
    BY DEF Inv, Claimants, ClaimOf
  <2>5. QED
    BY <2>1, <2>3, <2>4 DEF Inv, Distinct
<1>2. QED
  BY <1>1, InvInit, InvNext, PTL DEF Spec

\* "The claim stays valid exactly as long as the app lives", whatever is done to the
\* apps of others, and wherever their launchers are killed.
THEOREM ClaimLastsWithAppHolds == Spec => []ClaimLastsWithApp
<1>1. Inv => ClaimLastsWithApp
  <2> SUFFICES ASSUME Inv, NEW c \in Clis, pc[c] = "done", AppLive(c), Sane(c)
               PROVE  ClaimStands(c)
    BY DEF ClaimLastsWithApp, Sane
  <2>1. registry[Key(c)] = OwnedBy("app", c, port[c]) /\ Key(c) \in Keys
    BY DEF Inv, Claimants, ClaimOf, Base, TypeOK, Key
  <2>2. OwnedBy("app", c, port[c]) # NoClaim /\ OwnedBy("app", c, port[c]).port = port[c]
    BY OwnedByType, NoClaimIsNone DEF Inv, Base, TypeOK, Shape, AppLive
  <2>3. PidAlive(registry[Key(c)].owner)
    BY <2>1, MineIs
  <2>4. QED
    BY <2>1, <2>2, <2>3, GcIs DEF Inv, Base, TypeOK, ClaimStands
<1>2. QED
  BY <1>1, InvInit, InvNext, PTL DEF Spec

\* "Keep the port stable across re-acquires", while the registrant lives and is not
\* astray.
THEOREM PortStableHolds == Spec => PortStable
<1>1. Inv /\ [Next]_vars =>
        [\A k \in Keys :
           /\ registry[k] # NoClaim
           /\ registry'[k] # NoClaim
           /\ PidAlive(registry[k].owner)
           /\ astray[registry[k].owner[2]] = "no"
           => registry'[k].port = registry[k].port]_vars
  <2> SUFFICES ASSUME Inv, Next, NEW k \in Keys, registry[k] # NoClaim,
                      registry'[k] # NoClaim, PidAlive(registry[k].owner),
                      Sane(registry[k].owner[2]), registry'[k] # registry[k]
               PROVE  registry'[k].port = registry[k].port
    BY DEF Sane
  <2>1. PICK c \in Clis : Step(c)
    BY DEF Next, AllDone, vars
  <2>2. Save(c)
    BY <2>1, Frame DEF Inv, Base
  <2>3. pc[c] = "save" /\ registry' = entries[c] /\ ViewOf(c) /\ ~ Dead(k)
    BY <2>2 DEF Save, Inv, Base, View, Dead
  <2>4. k = Key(c) /\ work[c] # "list" /\ OwnEntry(c)
    BY <2>3 DEF ViewOf
  <2>5. CASE work[c] = "acquire"
    BY <2>3, <2>4, <2>5 DEF OwnEntry, OwnedBy
  <2>6. CASE work[c] \in {"claim", "keep"}
    <3>1. Active(c) /\ registry[k] \in Mine(c)
      <4> DEFINE o == registry[k].owner
      <4>1. /\ o \in Owners /\ o[2] \in Clis
            /\ Key(o[2]) = k /\ (Busy(o[2]) \/ AppLive(o[2]))
        BY ClaimTypes DEF Inv, Base, TypeOK, Born, Fits, Owners, PidAlive, Busy
      <4>2. Busy(c) /\ cmd[c].op # "acquire"
        BY <2>3, <2>4, <2>6 DEF Busy, Active, Inv, Base, Shape
      <4>3. Sane(c)
        BY <2>4, <4>1, <4>2 DEF Inv, Alone
      <4>4. QED
        BY <2>3, <2>4, <2>6, <4>2, <4>3 DEF Busy, Inv, Claimants, ClaimOf
    <3>2. registry'[k] = OwnedBy("app", c, port[c])
      BY <2>3, <2>4, <2>6 DEF OwnEntry
    <3>3. QED
      BY <3>1, <3>2 DEF Mine, OwnedBy
  <2>7. CASE work[c] = "release"
    BY <2>3, <2>4, <2>7 DEF OwnEntry
  <2>8. QED
    BY <2>4, <2>5, <2>6, <2>7 DEF Inv, Base, TypeOK, Works
<1>2. QED
  BY <1>1, InvInit, InvNext, PTL DEF Spec, PortStable
=============================================================================
