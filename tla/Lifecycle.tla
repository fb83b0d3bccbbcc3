------------------------------ MODULE Lifecycle ------------------------------
(***************************************************************************)
(* Upgrade, rollback, backup and restore of a deployed face                *)
(* (deploy/lifecycle.py, deploy/backup.py, and the channel they fetch      *)
(* from, deploy/artifact.py).  The host is a directory of binaries (the    *)
(* current one, .prev and .failed; incoming/ only passes one on), a        *)
(* database whose schema a binary's db-migrate takes forward, the          *)
(* directories of backups and the ledger.  Each file is written through a  *)
(* temporary one and os.replace, so a write is one step; between two steps *)
(* a command may be killed, or end in an exception its caller sees.        *)
(***************************************************************************)
EXTENDS Naturals, FiniteSetsExt

CONSTANTS
    MaxVersion,   \* releases are 1..MaxVersion, in the order of their versions
    MaxCommands,  \* bound: how many commands are run on the host
    NoBinary,     \* there is no such file
    NoDump,       \* a backup whose pg_dump failed, or had no URL
    NoLine        \* the ledger is empty

Versions == 1..MaxVersion
Binaries == Versions \cup {NoBinary}
Schemas  == 0..MaxVersion
Dumps    == Schemas \cup {NoDump}

LedgerEntries == [action : {"upgrade", "rollback"}, version : Versions \cup {0},
                  result : {"ok", "failed"}]

ASSUME LifecycleAssumption ==
    /\ MaxVersion \in Nat \ {0}
    /\ MaxCommands \in Nat
    /\ NoBinary \notin Nat
    /\ NoDump \notin Nat
    /\ NoLine \notin LedgerEntries

VARIABLES
    bin,          \* bin/<face>
    prev,         \* bin/<face>.prev
    failedCopy,   \* bin/<face>.failed
    running,      \* the binary the unit was last started with
    schema,       \* what the database has been migrated to
    dumped,       \* the db.dump of each backup directory
    ledger,       \* the last line of .deploy-history.jsonl
    doing,        \* the next step of the command under way
    entry,        \* the version upgrade resolved
    commands,     \* how many commands were started
    good,         \* history: the binary the last command that succeeded left in place
    entered,      \* history: the binary when the command under way began
    unprotected   \* history: has a command been cut between two of its writes, or
                  \* replaced a binary without keeping it

binaries == <<bin, prev, failedCopy, running>>
database == <<schema, dumped>>
lifecycleVars == <<binaries, database, ledger, doing, entry, commands, good, entered,
                   unprotected>>

Steps == {"idle", "backup", "keep", "swap", "migrate", "put back", "restart failed",
          "restart ok", "log failed", "log ok", "keep failed", "restore prev",
          "drop prev", "restart back", "log back"}

LifecycleTypeOK ==
    /\ bin \in Binaries /\ prev \in Binaries /\ failedCopy \in Binaries
    /\ running \in Binaries
    /\ schema \in Schemas /\ dumped \subseteq Dumps
    /\ ledger \in LedgerEntries \cup {NoLine}
    /\ doing \in Steps
    /\ entry \in Versions \cup {0}
    /\ commands \in 0..MaxCommands
    /\ good \in Binaries /\ entered \in Binaries
    /\ unprotected \in BOOLEAN

-----------------------------------------------------------------------------
Begins(step) ==
    /\ doing = "idle"
    /\ commands < MaxCommands
    /\ commands' = commands + 1
    /\ entered' = IF step = "idle" THEN NoBinary ELSE bin
    /\ doing' = step

Goes(from, to) ==
    /\ doing = from
    /\ doing' = to
    /\ entered' = IF to = "idle" THEN NoBinary ELSE entered
    /\ UNCHANGED commands

\* resolve: of the entries of the channel for this target, the newest.
Resolve(index) == IF index = {} THEN 0 ELSE Max(index)

\* read_index, resolve, and fetch, which keeps an archive only when its sha256 is
\* the index's, and then extracts the binary.  What fails raises, and nothing ran.
StartUpgrade ==
    \E index \in SUBSET Versions :
        /\ Resolve(index) # 0
        /\ Begins("backup")
        /\ entry' = Resolve(index)
        /\ UNCHANGED <<bin, prev, failedCopy, running, database, ledger, good, unprotected>>

\* backup: the database is dumped when pg_dump can; when it cannot, the manifest
\* says the dump was skipped, and the backup is made all the same.  A directory
\* of that second's name, or a pg_dump that hangs, raises before any write.
Dump == {schema, NoDump}

TakeBackup ==
    /\ \E dump \in Dump :
        /\ Goes("backup", "keep")
        /\ dumped' = dumped \cup {dump}
    /\ UNCHANGED <<binaries, schema, ledger, entry, good, unprotected>>

BackupRaises ==
    /\ Goes("backup", "idle")
    /\ entry' = 0
    /\ UNCHANGED <<binaries, database, ledger, good, unprotected>>

\* Variant: the binary is replaced and no copy of it kept.
KeepPrevious_Never ==
    /\ Goes("keep", "swap")
    /\ UNCHANGED <<binaries, database, ledger, entry, good, unprotected>>

KeepPrevious ==
    /\ Goes("keep", "swap")
    /\ prev' = IF bin # NoBinary THEN bin ELSE prev
    /\ UNCHANGED <<bin, failedCopy, running, database, ledger, entry, good, unprotected>>

Swap ==
    /\ Goes("swap", "migrate")
    /\ bin' = entry
    /\ UNCHANGED <<prev, failedCopy, running, database, ledger, entry, good, unprotected>>

\* db-migrate takes the schema to the binary's own, and never back.
Migrated(version) == Max({schema, version})

MigrateOk ==
    /\ Goes("migrate", "restart ok")
    /\ schema' = Migrated(bin)
    /\ UNCHANGED <<binaries, dumped, ledger, entry, good, unprotected>>

\* A migration that fails may have been applied in part.
MigrateFails ==
    /\ Goes("migrate", "put back")
    /\ schema' \in {schema, Migrated(bin)}
    /\ UNCHANGED <<binaries, dumped, ledger, entry, good, unprotected>>

PutBack ==
    /\ Goes("put back", "restart failed")
    /\ bin' = IF prev # NoBinary THEN prev ELSE bin
    /\ UNCHANGED <<prev, failedCopy, running, database, ledger, entry, good, unprotected>>

\* systemctl restart; its exit code is not looked at.
Restart(from, to) ==
    /\ Goes(from, to)
    /\ running' \in {bin, NoBinary}
    /\ UNCHANGED <<bin, prev, failedCopy, database, ledger, entry, good, unprotected>>

\* The line of the ledger is the last thing a command does.
Log(from, action, result) ==
    /\ Goes(from, "idle")
    /\ ledger' = [action |-> action, version |-> entry, result |-> result]
    /\ entry' = 0
    /\ good' = IF result = "ok" THEN bin ELSE good
    /\ UNCHANGED <<binaries, database, unprotected>>

Upgrade ==
    \/ StartUpgrade \/ TakeBackup \/ BackupRaises \/ KeepPrevious \/ Swap
    \/ MigrateOk \/ Restart("restart ok", "log ok") \/ Log("log ok", "upgrade", "ok")
    \/ MigrateFails \/ PutBack \/ Restart("restart failed", "log failed")
    \/ Log("log failed", "upgrade", "failed")

-----------------------------------------------------------------------------
RollbackWithoutPrevious ==
    /\ Begins("idle")
    /\ prev = NoBinary
    /\ ledger' = [action |-> "rollback", version |-> 0, result |-> "failed"]
    /\ UNCHANGED <<binaries, database, entry, good, unprotected>>

StartRollback ==
    /\ Begins("keep failed")
    /\ prev # NoBinary
    /\ UNCHANGED <<binaries, database, ledger, entry, good, unprotected>>

KeepFailed ==
    /\ Goes("keep failed", "restore prev")
    /\ failedCopy' = IF bin # NoBinary THEN bin ELSE failedCopy
    /\ UNCHANGED <<bin, prev, running, database, ledger, entry, good, unprotected>>

RestorePrevious ==
    /\ Goes("restore prev", "drop prev")
    /\ bin' = prev
    /\ UNCHANGED <<prev, failedCopy, running, database, ledger, entry, good, unprotected>>

DropPrevious ==
    /\ Goes("drop prev", "restart back")
    /\ prev' = NoBinary
    /\ UNCHANGED <<bin, failedCopy, running, database, ledger, entry, good, unprotected>>

Rollback ==
    \/ RollbackWithoutPrevious \/ StartRollback \/ KeepFailed \/ RestorePrevious
    \/ DropPrevious \/ Restart("restart back", "log back")
    \/ Log("log back", "rollback", "ok")

-----------------------------------------------------------------------------
(* backup and restore, called on their own.  restore checks every digest of *)
(* the manifest before it writes; psql may then fail on the way.            *)

Backup ==
    /\ Begins("idle")
    /\ \E dump \in Dump : dumped' = dumped \cup {dump}
    /\ UNCHANGED <<binaries, schema, ledger, entry, good, unprotected>>

Restore ==
    /\ Begins("idle")
    /\ \E dump \in dumped : schema' = IF dump = NoDump THEN schema ELSE dump
    /\ UNCHANGED <<binaries, dumped, ledger, entry, good, unprotected>>

RestoreFails ==
    /\ Begins("idle")
    /\ \E dump \in dumped \ {NoDump} : schema' \in {schema, dump}
    /\ UNCHANGED <<binaries, dumped, ledger, entry, good, unprotected>>

-----------------------------------------------------------------------------
(* The command is killed, or a subprocess it waits for raises: db-migrate   *)
(* or systemctl that takes longer than its timeout.  Nobody cleans up.      *)

Cut ==
    /\ doing # "idle"
    /\ doing' = "idle"
    /\ entry' = 0
    /\ entered' = NoBinary
    /\ schema' \in IF doing = "migrate" THEN {schema, Migrated(bin)} ELSE {schema}
    /\ unprotected' = TRUE
    /\ UNCHANGED <<binaries, dumped, ledger, commands, good>>

LifecycleInit ==
    /\ bin = NoBinary /\ prev = NoBinary /\ failedCopy = NoBinary
    /\ running = NoBinary
    /\ schema = 0 /\ dumped = {}
    /\ ledger = NoLine
    /\ doing = "idle" /\ entry = 0 /\ commands = 0
    /\ good = NoBinary /\ entered = NoBinary /\ unprotected = FALSE

LifecycleNext == Upgrade \/ Rollback \/ Backup \/ Restore \/ RestoreFails \/ Cut

-----------------------------------------------------------------------------
(* upgrade's promise, "on migration failure put the previous binary back":  *)
(* as long as no command is cut between two of its writes, the binary that  *)
(* the last successful command left in service is still on the host,        *)
(* whatever commands fail or are rolled back later.                         *)
LastGoodKept ==
    ~unprotected => good \in {bin, prev, failedCopy, NoBinary}

(* What the ledger says of an upgrade when it ends is what the host has: ok *)
(* with that version in place and the schema at least at its own, failed    *)
(* with the binary that was there before (or, when there was none, the new  *)
(* one, which nothing puts back).                                           *)
LedgerIsTrue ==
    ledger' # ledger /\ ledger'.action = "upgrade" =>
      \/ /\ ledger'.result = "ok"
         /\ bin = ledger'.version /\ schema >= bin
      \/ /\ ledger'.result = "failed"
         /\ bin = entered \/ entered = NoBinary

LedgerTellsTruth == [][LedgerIsTrue]_lifecycleVars

LifecycleSpec == LifecycleInit /\ [][LifecycleNext]_lifecycleVars
=============================================================================
