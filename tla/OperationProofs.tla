--------------------------- MODULE OperationProofs ---------------------------
(***************************************************************************)
(* The inductive invariants of the tools that operate a host, for every    *)
(* value of their constants: the deployment (Lifecycle, Bootstrap), the    *)
(* engine drop (EngineDrop), the judge (Judge), the orphan janitor         *)
(* (Janitor), the branch sweep (Branches), the shutdown of the children    *)
(* (DevProcesses), the client of an app (Cdp), and those that repair by    *)
(* themselves: the heartbeat referee (Referee), the fixer of timeouts      *)
(* (JobTimeouts) and the credentials of the runners (Credentials).  At the *)
(* end, that each of them keeps its types.                                 *)
(***************************************************************************)
EXTENDS Bootstrap, EngineDrop, Judge, Janitor, Branches, DevProcesses, Cdp
    , Referee, JobTimeouts, Credentials
    , FiniteSetTheorems, WellFoundedInduction, SequenceTheorems, TLAPS

LEMMA MaxIs ==
    ASSUME NEW n \in Nat, NEW S \in SUBSET (0..n), S # {}
    PROVE  Max(S) \in S /\ \A x \in S : Max(S) >= x
<1> DEFINE T == {n - x : x \in S}
<1>1. T \subseteq Nat /\ T # {}
  <2>1. \A x \in S : n - x \in Nat
    OBVIOUS
  <2>2. QED
    BY <2>1
<1>2. PICK t \in T : \A u \in T : ~ (<<u, t>> \in OpToRel(<, Nat))
  <2> HIDE DEF T
  <2>1. QED
    BY <1>1, NatLessThanWellFounded, WFMin
<1>3. PICK m \in S : t = n - m
  BY <1>2
<1>4. \A x \in S : m >= x
  <2>1. SUFFICES ASSUME NEW x \in S, ~ (m >= x) PROVE FALSE
    OBVIOUS
  <2>2. n - x \in T /\ n - x \in Nat /\ t \in Nat /\ n - x < t
    BY <1>1, <1>3, <2>1
  <2>3. <<n - x, t>> \in OpToRel(<, Nat)
    BY <2>2 DEF OpToRel
  <2>4. QED
    BY <1>2, <2>2, <2>3
<1>5. QED
  BY <1>4 DEF Max

-----------------------------------------------------------------------------
(* The deployment *)

\* Where the binary of the last successful command is at each step of a command.
BinaryKept ==
    ~ unprotected =>
        /\ doing \in {"idle", "backup", "keep", "restart failed", "log failed", "keep failed"} =>
              good \in {bin, NoBinary}
        /\ doing \in {"swap", "migrate", "put back", "restart ok", "log ok"} =>
              good \in {prev, NoBinary}
        /\ doing \in {"restore prev", "drop prev", "restart back", "log back"} =>
              good \in {failedCopy, NoBinary}

Upgrading == doing \in {"backup", "keep", "swap", "migrate", "put back", "restart failed",
                        "restart ok", "log failed", "log ok"}

\* What an upgrade has done by each of its steps.
UpgradeSound ==
    /\ Upgrading => entry \in Versions
    /\ doing \in {"backup", "keep", "swap"} => bin = entered
    /\ doing \in {"swap", "migrate", "put back"} => (entered # NoBinary => prev = entered)
    /\ doing \in {"migrate", "restart ok", "log ok"} => bin = entry
    /\ doing \in {"restart ok", "log ok"} => schema >= bin
    /\ doing \in {"restart failed", "log failed"} => (entered # NoBinary => bin = entered)

\* A run none of whose stages has failed or was left pending.
Clean == "failed" \notin outcome /\ "pending" \notin outcome

\* What a clean run that is no plan has done when it comes to its stage n.
StagesDone(n) ==
    /\ n >= 3 => account
    /\ n >= 4 => envFile # 0
    /\ n >= 5 => urlFile
    /\ n >= 7 => bin = incoming /\ bin # NoBinary
    /\ n >= 8 => schema >= bin
    /\ n >= 9 => (options.email => admin /\ told)
    /\ n >= 11 => running # NoBinary

\* What a bootstrap run has done by each of its stages.
RunSound ==
    /\ stage # 0 => doing = "idle" /\ commands # 0
    /\ "failed" \in outcome => stage = 11
    /\ stage # 0 /\ options.dry => incoming = NoBinary
    /\ options.dry /\ stage >= 7 => ~ Clean
    /\ Clean /\ ~ options.dry => StagesDone(stage)

DeployInv == BootstrapTypeOK /\ BinaryKept /\ UpgradeSound /\ RunSound

LEMMA StageNames ==
    /\ Len(STAGE_ORDER) = 11
    /\ STAGE_ORDER[1] = "precheck" /\ STAGE_ORDER[2] = "account" /\ STAGE_ORDER[3] = "secrets"
    /\ STAGE_ORDER[4] = "database" /\ STAGE_ORDER[5] = "artifact" /\ STAGE_ORDER[6] = "install"
    /\ STAGE_ORDER[7] = "migrate" /\ STAGE_ORDER[8] = "first-admin" /\ STAGE_ORDER[9] = "front"
    /\ STAGE_ORDER[10] = "verify" /\ STAGE_ORDER[11] = "summary"
<1>1. Len(STAGE_ORDER) = 11
  BY DEF STAGE_ORDER
<1>2. /\ STAGE_ORDER[1] = "precheck" /\ STAGE_ORDER[2] = "account" /\ STAGE_ORDER[3] = "secrets"
      /\ STAGE_ORDER[4] = "database" /\ STAGE_ORDER[5] = "artifact" /\ STAGE_ORDER[6] = "install"
  BY DEF STAGE_ORDER
<1>3. /\ STAGE_ORDER[7] = "migrate" /\ STAGE_ORDER[8] = "first-admin" /\ STAGE_ORDER[9] = "front"
      /\ STAGE_ORDER[10] = "verify" /\ STAGE_ORDER[11] = "summary"
  BY DEF STAGE_ORDER
<1>4. QED
  BY <1>1, <1>2, <1>3

LEMMA StageOf ==
    ASSUME stage \in 0..11, stage # 0
    PROVE  /\ STAGE_ORDER[stage] = "precheck" <=> stage = 1
           /\ STAGE_ORDER[stage] = "account" <=> stage = 2
           /\ STAGE_ORDER[stage] = "secrets" <=> stage = 3
           /\ STAGE_ORDER[stage] = "database" <=> stage = 4
           /\ STAGE_ORDER[stage] = "artifact" <=> stage = 5
           /\ STAGE_ORDER[stage] = "install" <=> stage = 6
           /\ STAGE_ORDER[stage] = "migrate" <=> stage = 7
           /\ STAGE_ORDER[stage] = "first-admin" <=> stage = 8
           /\ STAGE_ORDER[stage] = "front" <=> stage = 9
           /\ STAGE_ORDER[stage] = "verify" <=> stage = 10
           /\ STAGE_ORDER[stage] = "summary" <=> stage = 11
<1>1. stage \in {1, 2, 3, 4, 5, 6, 7, 8, 9, 10, 11}
  OBVIOUS
<1>3. CASE stage \in {1, 2, 3, 4, 5, 6}
  BY <1>3, StageNames
<1>4. CASE stage \in {7, 8, 9, 10, 11}
  BY <1>4, StageNames
<1>5. QED
  BY <1>1, <1>3, <1>4

\* What is fetched is a release; a schema only goes forward.
LEMMA ResolveIs ==
    ASSUME NEW index \in SUBSET Versions, Resolve(index) # 0
    PROVE  Resolve(index) \in Versions
<1>1. index # {} /\ index \in SUBSET (0..MaxVersion) /\ MaxVersion \in Nat
  BY LifecycleAssumption DEF Resolve, Versions
<1>2. Max(index) \in index
  BY <1>1, MaxIs
<1>3. QED
  BY <1>1, <1>2 DEF Resolve

LEMMA MigratedIs ==
    ASSUME BootstrapTypeOK, bin # NoBinary
    PROVE  Migrated(bin) \in Schemas /\ Migrated(bin) >= bin
<1>1. /\ {schema, bin} \in SUBSET (0..MaxVersion) /\ {schema, bin} # {} /\ MaxVersion \in Nat
  BY LifecycleAssumption DEF BootstrapTypeOK, LifecycleTypeOK, Binaries, Versions, Schemas
<1>2. Max({schema, bin}) \in {schema, bin} /\ Max({schema, bin}) >= bin
  BY <1>1, MaxIs
<1>3. QED
  BY <1>1, <1>2 DEF Migrated, Schemas

\* The steps of a bootstrap run that write nothing of the host but what they say.
RunStep == Precheck \/ Account \/ Secrets \/ Database \/ Artifact \/ InstallFails \/ FrontPage
             \/ Verify \/ Pending \/ FirstAdmin

LEMMA RunStepFrame ==
    ASSUME RunStep
    PROVE  /\ UNCHANGED <<bin, prev, failedCopy, running, schema, dumped, good, unprotected>>
           /\ UNCHANGED <<options, commands, doing, entry, entered, ledger>>
           /\ \E s \in Statuses : outcome' = outcome \cup {s}
                                  /\ stage' = IF s = "failed" THEN 11 ELSE stage + 1
           /\ stage # 0 /\ STAGE_ORDER[stage] # "summary"
<1> USE StageNames DEF Yields, HostKept, FilesKept, binaries, database, host, Planned, Unchanged, At,
        Statuses
<1>1. CASE Precheck \/ FrontPage \/ Verify \/ InstallFails
  BY <1>1 DEF Precheck, FrontPage, Verify, InstallFails
<1>2. CASE Account
  BY <1>2 DEF Account
<1>3. CASE Secrets
  BY <1>3 DEF Secrets
<1>4. CASE Database
  BY <1>4 DEF Database
<1>5. CASE Artifact
  BY <1>5 DEF Artifact
<1>6. CASE FirstAdmin
  BY <1>6 DEF FirstAdmin
<1>7. CASE Pending
  BY <1>7 DEF Pending
<1>8. QED
  BY <1>1, <1>2, <1>3, <1>4, <1>5, <1>6, <1>7 DEF RunStep

LEMMA LifecycleCases ==
    ASSUME LifecycleNext
    PROVE  \/ StartUpgrade \/ TakeBackup \/ BackupRaises \/ KeepPrevious \/ Swap
           \/ MigrateOk \/ Restart("restart ok", "log ok") \/ Log("log ok", "upgrade", "ok")
           \/ MigrateFails \/ PutBack \/ Restart("restart failed", "log failed")
           \/ Log("log failed", "upgrade", "failed")
           \/ RollbackWithoutPrevious \/ StartRollback \/ KeepFailed \/ RestorePrevious
           \/ DropPrevious \/ Restart("restart back", "log back")
           \/ Log("log back", "rollback", "ok")
           \/ Backup \/ Restore \/ RestoreFails \/ Cut
  BY DEF LifecycleNext, Upgrade, Rollback

LEMMA BootstrapCases ==
    ASSUME [BootstrapNext]_bootstrapVars
    PROVE  \/ stage = 0 /\ LifecycleNext /\ UNCHANGED <<host, told, run>>
           \/ RunStep \/ StartRun \/ Installs \/ Migrate \/ Summary \/ RunCut
           \/ Uninstall \/ OperatorStarts
           \/ UNCHANGED bootstrapVars
  BY DEF BootstrapNext, Run, RunStep, Install

\* BinaryKept.
LEMMA BinaryKeptStep ==
    ASSUME BootstrapTypeOK, BinaryKept, RunSound, [BootstrapNext]_bootstrapVars
    PROVE  BinaryKept'
<1> USE DEF binaries, database, Goes, Begins
<1>1. CASE LifecycleNext
  <2>1. CASE StartUpgrade \/ StartRollback
    BY <2>1 DEF StartUpgrade, StartRollback, BinaryKept
  <2>2. CASE TakeBackup \/ BackupRaises
    BY <2>2 DEF TakeBackup, BackupRaises, BinaryKept
  <2>3. CASE KeepPrevious
    BY <2>3 DEF KeepPrevious, BinaryKept
  <2>4. CASE Swap \/ MigrateOk \/ MigrateFails
    BY <2>4 DEF Swap, MigrateOk, MigrateFails, BinaryKept
  <2>5. CASE PutBack
    BY <2>5 DEF PutBack, BinaryKept
  <2>6. CASE \/ Restart("restart ok", "log ok") \/ Restart("restart failed", "log failed")
             \/ Restart("restart back", "log back")
    BY <2>6 DEF Restart, BinaryKept
  <2>7. CASE \/ Log("log ok", "upgrade", "ok") \/ Log("log failed", "upgrade", "failed")
             \/ Log("log back", "rollback", "ok")
    BY <2>7 DEF Log, BinaryKept
  <2>8. CASE KeepFailed \/ RestorePrevious \/ DropPrevious
    BY <2>8 DEF KeepFailed, RestorePrevious, DropPrevious, BinaryKept
  <2>9. CASE RollbackWithoutPrevious \/ Backup \/ Restore \/ RestoreFails
    BY <2>9 DEF RollbackWithoutPrevious, Backup, Restore, RestoreFails, BinaryKept
  <2>10. CASE Cut
    BY <2>10 DEF Cut, BinaryKept
  <2>11. QED
    BY <1>1, <2>1, <2>2, <2>3, <2>4, <2>5, <2>6, <2>7, <2>8, <2>9, <2>10, LifecycleCases
<1>2. CASE RunStep \/ StartRun
  BY <1>2, RunStepFrame DEF StartRun, BinaryKept
<1>3. CASE Installs
  <2>1. doing = "idle" /\ doing' = doing /\ good' = good
    BY <1>3 DEF Installs, At, Yields, RunSound
  <2>2. ~ unprotected' => bin = NoBinary /\ ~ unprotected
    BY <1>3 DEF Installs
  <2>3. QED
    BY <2>1, <2>2 DEF BinaryKept
<1>4. CASE Migrate
  BY <1>4 DEF Migrate, Unchanged, HostKept, Yields, BinaryKept
<1>5. CASE Summary
  <2>1. doing = "idle" /\ doing' = doing /\ bin' = bin /\ good' \in {good, bin}
        /\ unprotected' = unprotected
    BY <1>5, StageNames DEF Summary, RunSound
  <2>2. QED
    BY <2>1 DEF BinaryKept
<1>6. CASE RunCut
  BY <1>6 DEF RunCut, BinaryKept
<1>7. CASE Uninstall
  BY <1>7 DEF Uninstall, BinaryKept
<1>8. CASE OperatorStarts \/ UNCHANGED bootstrapVars
  BY <1>8 DEF OperatorStarts, bootstrapVars, lifecycleVars, BinaryKept
<1>9. QED
  BY <1>1, <1>2, <1>3, <1>4, <1>5, <1>6, <1>7, <1>8, BootstrapCases

\* UpgradeSound.
LEMMA UpgradeSoundStep ==
    ASSUME DeployInv, [BootstrapNext]_bootstrapVars
    PROVE  UpgradeSound'
<1> USE DEF binaries, database, Goes, Begins, Upgrading
<1>0. /\ BootstrapTypeOK /\ UpgradeSound /\ RunSound
      /\ bin \in Binaries /\ prev \in Binaries /\ NoBinary \notin Versions
  BY LifecycleAssumption DEF DeployInv, BootstrapTypeOK, LifecycleTypeOK, Versions
<1>1. CASE LifecycleNext
  <2>1. CASE StartUpgrade
    <3>1. entry' \in Versions
      BY <2>1, ResolveIs DEF StartUpgrade
    <3>2. doing' = "backup" /\ entered' = bin /\ bin' = bin
      BY <2>1 DEF StartUpgrade
    <3>3. QED
      BY <3>1, <3>2 DEF UpgradeSound
  <2>2. CASE TakeBackup \/ BackupRaises
    BY <1>0, <2>2 DEF TakeBackup, BackupRaises, UpgradeSound
  <2>3. CASE KeepPrevious
    BY <1>0, <2>3 DEF KeepPrevious, UpgradeSound
  <2>4. CASE Swap
    BY <1>0, <2>4 DEF Swap, UpgradeSound
  <2>5. CASE MigrateOk
    <3>1. bin = entry /\ entry \in Versions /\ bin # NoBinary
      BY <1>0, <2>5 DEF MigrateOk, UpgradeSound
    <3>2. schema' >= bin /\ bin' = bin /\ doing' = "restart ok" /\ entry' = entry
      BY <1>0, <2>5, <3>1, MigratedIs DEF MigrateOk
    <3>3. QED
      BY <3>1, <3>2 DEF UpgradeSound
  <2>6. CASE MigrateFails
    BY <1>0, <2>6 DEF MigrateFails, UpgradeSound
  <2>7. CASE PutBack
    BY <1>0, <2>7 DEF PutBack, UpgradeSound
  <2>8. CASE \/ Restart("restart ok", "log ok") \/ Restart("restart failed", "log failed")
             \/ Restart("restart back", "log back")
    BY <1>0, <2>8 DEF Restart, UpgradeSound
  <2>9. CASE \/ doing' = "idle"
             \/ doing' \in {"keep failed", "restore prev", "drop prev", "restart back"}
    BY <2>9 DEF UpgradeSound
  <2>10. CASE \/ Log("log ok", "upgrade", "ok") \/ Log("log failed", "upgrade", "failed")
              \/ Log("log back", "rollback", "ok")
    BY <2>9, <2>10 DEF Log
  <2>11. CASE \/ StartRollback \/ KeepFailed \/ RestorePrevious \/ DropPrevious
              \/ RollbackWithoutPrevious \/ Backup \/ Restore \/ RestoreFails \/ Cut
    BY <2>9, <2>11 DEF StartRollback, KeepFailed, RestorePrevious, DropPrevious,
       RollbackWithoutPrevious, Backup, Restore, RestoreFails, Cut
  <2>12. QED
    BY <1>1, <2>1, <2>2, <2>3, <2>4, <2>5, <2>6, <2>7, <2>8, <2>10, <2>11, LifecycleCases
<1>2. CASE doing' = "idle"
  BY <1>2 DEF UpgradeSound
<1>3. CASE RunStep
  <2>1. doing' = "idle"
    BY <1>0, <1>3, RunStepFrame DEF RunSound
  <2>2. QED
    BY <1>2, <2>1
<1>4. CASE StartRun \/ Uninstall
  BY <1>2, <1>4 DEF StartRun, Uninstall
<1>5. CASE Installs \/ Migrate
  BY <1>0, <1>2, <1>5 DEF Installs, Migrate, Unchanged, At, Yields, RunSound
<1>6. CASE Summary \/ RunCut
  BY <1>0, <1>2, <1>6, StageNames DEF Summary, RunCut, RunSound
<1>7. CASE OperatorStarts
  BY <1>2, <1>7 DEF OperatorStarts
<1>8. CASE UNCHANGED bootstrapVars
  BY <1>0, <1>8 DEF bootstrapVars, lifecycleVars, UpgradeSound
<1>9. QED
  BY <1>1, <1>3, <1>4, <1>5, <1>6, <1>7, <1>8, BootstrapCases

\* A stage that keeps what the earlier ones did and does its own.
LEMMA StageDone ==
    ASSUME RunSound, stage \in 1..10, UNCHANGED <<options, commands, doing>>,
           NEW s \in Statuses, outcome' = outcome \cup {s},
           NEW n \in Nat, n = stage + 1,
           stage' = IF s = "failed" THEN 11 ELSE n,
           options.dry => incoming' = NoBinary,
           stage = 6 /\ options.dry => ~ Clean',
           ~ options.dry /\ Clean' /\ StagesDone(stage) => StagesDone(n)'
    PROVE  RunSound'
<1>1. stage' # 0 /\ stage' \in 1..11 /\ (s = "failed" => stage' = 11)
  OBVIOUS
<1>2. stage' # 0 => doing' = "idle" /\ commands' # 0
  BY DEF RunSound
<1>3. "failed" \in outcome' => stage' = 11
  BY DEF RunSound
<1>4. Clean' => Clean /\ stage' = n
  BY DEF Clean, Statuses
<1>5. options'.dry /\ stage' >= 7 => ~ Clean'
  BY <1>4 DEF RunSound
<1>6. Clean' /\ ~ options'.dry => StagesDone(stage)'
  BY <1>4 DEF RunSound, StagesDone
<1>7. QED
  BY <1>1, <1>2, <1>3, <1>5, <1>6 DEF RunSound

\* Each stage of a run does what StagesDone says of it.
LEMMA StageDoes ==
    ASSUME BootstrapTypeOK, RunSound, RunStep, NEW n \in Nat, n = stage + 1, ~ options.dry, Clean',
           StagesDone(stage)
    PROVE  StagesDone(n)'
<1> USE DEF StagesDone, Clean, Yields, HostKept, FilesKept, binaries, database, host, At
<1>0. /\ stage \in 1..10 /\ "pending" \notin outcome' /\ "failed" \notin outcome'
      /\ UNCHANGED <<bin, running, schema, options>>
  BY RunStepFrame, StageNames DEF BootstrapTypeOK
<1>1. CASE Precheck \/ FrontPage
  BY <1>0, <1>1, StageOf DEF Precheck, FrontPage, Unchanged
<1>2. CASE Account
  BY <1>0, <1>2, StageOf DEF Account, Planned, Unchanged
<1>3. CASE Secrets
  <2>1. commands # 0 /\ stage = 3 /\ n = 4
    BY <1>0, <1>3, StageOf DEF Secrets, Planned, Unchanged, RunSound
  <2>2. envFile' # 0 /\ account' = account
    BY <1>3, <2>1 DEF Secrets, Planned, Unchanged
  <2>3. QED
    BY <2>1, <2>2
<1>4. CASE Database
  BY <1>0, <1>4, StageOf DEF Database, Planned, Unchanged
<1>5. CASE Artifact
  BY <1>0, <1>5, StageOf DEF Artifact, Planned, Unchanged
<1>6. CASE InstallFails \/ Pending
  BY <1>0, <1>6 DEF InstallFails, Pending, Unchanged
<1>7. CASE FirstAdmin
  BY <1>0, <1>7, StageOf DEF FirstAdmin, Unchanged
<1>8. CASE Verify
  BY <1>0, <1>8, StageOf DEF Verify, Unchanged, Healthy
<1>9. QED
  BY <1>1, <1>2, <1>3, <1>4, <1>5, <1>6, <1>7, <1>8 DEF RunStep

LEMMA RunSoundStep ==
    ASSUME DeployInv, [BootstrapNext]_bootstrapVars
    PROVE  RunSound'
<1> USE StageNames DEF binaries, database, host, run, Begins
<1>0. /\ BootstrapTypeOK /\ RunSound /\ stage \in 0..11 /\ commands \in Nat
      /\ options.dry \in BOOLEAN /\ options.email \in BOOLEAN
  BY LifecycleAssumption DEF DeployInv, BootstrapTypeOK, LifecycleTypeOK, Options
<1>1. CASE stage' = 0 /\ "failed" \notin outcome'
  BY <1>1 DEF RunSound, StagesDone
<1>2. CASE stage = 0 /\ LifecycleNext /\ UNCHANGED <<host, told, run>>
  BY <1>0, <1>1, <1>2 DEF RunSound
<1>3. CASE RunStep
  <2>1. /\ UNCHANGED <<bin, prev, failedCopy, running, schema, dumped>>
        /\ UNCHANGED <<options, commands, doing>>
        /\ stage \in 1..10
    BY <1>0, <1>3, RunStepFrame
  <2>2. PICK s \in Statuses : outcome' = outcome \cup {s}
                              /\ stage' = IF s = "failed" THEN 11 ELSE stage + 1
    BY <1>3, RunStepFrame
  <2>3. PICK n \in Nat : n = stage + 1
    BY <2>1
  <2>4. options.dry => incoming' = NoBinary
    BY <1>0, <1>3, <2>1 DEF RunSound, RunStep, Precheck, Account, Secrets, Database, Artifact,
       InstallFails, FrontPage, Verify, Pending, FirstAdmin, Planned, Unchanged, HostKept, FilesKept
  <2>5. stage = 6 => ~ Clean'
    BY <1>0, <1>3, <2>1, StageOf DEF RunStep, Precheck, Account, Secrets, Database, Artifact,
       InstallFails, FrontPage, Verify, Pending, FirstAdmin, Planned, Unchanged, At, Yields, Clean
  <2>6. ~ options.dry /\ Clean' /\ StagesDone(stage) => StagesDone(n)'
    BY <1>0, <1>3, <2>3, StageDoes
  <2>7. QED
    BY <1>0, <2>1, <2>2, <2>3, <2>4, <2>5, <2>6, StageDone
<1>4. CASE StartRun
  <2>1. stage' = 1 /\ doing' = "idle" /\ commands' # 0 /\ outcome' = {} /\ incoming' = NoBinary
    BY <1>0, <1>4 DEF StartRun
  <2>2. QED
    BY <2>1 DEF RunSound, StagesDone
<1>5. CASE Installs
  <2>1. /\ stage = 6 /\ ~ options.dry /\ bin' = incoming /\ incoming' = incoming
        /\ incoming # NoBinary /\ outcome' = outcome \cup {"ok"} /\ stage' = stage + 1
        /\ UNCHANGED <<options, commands, doing, account, envFile, urlFile>>
    BY <1>0, <1>5, StageOf DEF Installs, At, Yields
  <2>2. QED
    BY <1>0, <2>1 DEF RunSound, StagesDone, Clean
<1>6. CASE Migrate
  <2>1. /\ stage = 7 /\ UNCHANGED <<options, commands, doing, account, envFile, urlFile, bin, incoming>>
        /\ \/ outcome' = outcome \cup {"failed"} /\ stage' = 11
           \/ outcome' = outcome \cup {"ok"} /\ stage' = stage + 1
                /\ bin # NoBinary /\ schema' = Migrated(bin)
    BY <1>0, <1>6, StageOf DEF Migrate, Unchanged, At, Yields, HostKept
  <2>2. bin # NoBinary => Migrated(bin) >= bin
    BY <1>0, MigratedIs
  <2>3. QED
    BY <1>0, <2>1, <2>2 DEF RunSound, StagesDone, Clean
<1>7. CASE Summary \/ RunCut
  BY <1>1, <1>7 DEF Summary, RunCut, Returns
<1>8. CASE Uninstall
  BY <1>0, <1>1, <1>8 DEF Uninstall, RunSound
<1>9. CASE OperatorStarts
  BY <1>0, <1>9 DEF OperatorStarts, RunSound, StagesDone, Clean
<1>10. CASE UNCHANGED bootstrapVars
  BY <1>0, <1>10 DEF bootstrapVars, lifecycleVars, RunSound, StagesDone, Clean
<1>11. QED
  BY <1>2, <1>3, <1>4, <1>5, <1>6, <1>7, <1>8, <1>9, <1>10, BootstrapCases

\* The types, which need the rest of DeployInv: what an upgrade swaps in is a release.
LEMMA BeginsTypes ==
    ASSUME BootstrapTypeOK, NEW step, Begins(step)
    PROVE  commands' \in 0..MaxCommands /\ entered' \in Binaries /\ doing' = step
<1>1. commands \in Nat /\ MaxCommands \in Nat /\ commands < MaxCommands /\ bin \in Binaries
  BY LifecycleAssumption DEF BootstrapTypeOK, LifecycleTypeOK, Begins
<1>2. QED
  BY <1>1 DEF Begins, Binaries

LEMMA GoesTypes ==
    ASSUME BootstrapTypeOK, NEW from, NEW to, Goes(from, to)
    PROVE  commands' \in 0..MaxCommands /\ entered' \in Binaries /\ doing' = to /\ doing = from
  BY DEF BootstrapTypeOK, LifecycleTypeOK, Goes, Binaries

\* What a run keeps or changes of its own variables.
RunTypeOK ==
    /\ account \in BOOLEAN /\ urlFile \in BOOLEAN /\ admin \in BOOLEAN /\ told \in BOOLEAN
    /\ envFile \in 0..MaxCommands
    /\ stage \in 0..11
    /\ options \in Options
    /\ incoming \in Binaries
    /\ outcome \subseteq Statuses

LEMMA TypesAre == BootstrapTypeOK <=> LifecycleTypeOK /\ RunTypeOK
  BY StageNames DEF BootstrapTypeOK, RunTypeOK

LEMMA LifecycleTypeStep ==
    ASSUME DeployInv, LifecycleNext
    PROVE  LifecycleTypeOK'
<1>0. /\ BootstrapTypeOK /\ LifecycleTypeOK
      /\ 0 \in Versions \cup {0} /\ NoBinary \in Binaries /\ Versions \subseteq Binaries
  BY DEF DeployInv, BootstrapTypeOK, Binaries
<1>m. doing = "migrate" => bin \in Versions /\ bin # NoBinary
  BY LifecycleAssumption DEF DeployInv, UpgradeSound, Upgrading, Versions
<1>s. bin # NoBinary => Migrated(bin) \in Schemas
  BY <1>0, MigratedIs
<1> USE DEF binaries, database, LifecycleTypeOK
<1>1. CASE StartUpgrade
  <2>1. entry' \in Versions
    BY <1>1, ResolveIs DEF StartUpgrade
  <2>2. commands' \in 0..MaxCommands /\ entered' \in Binaries /\ doing' = "backup"
    BY <1>0, <1>1, BeginsTypes DEF StartUpgrade
  <2>3. QED
    BY <1>0, <1>1, <2>1, <2>2 DEF StartUpgrade, Steps
<1>2. CASE TakeBackup
  <2>1. commands' \in 0..MaxCommands /\ entered' \in Binaries /\ doing' = "keep"
    BY <1>0, <1>2, GoesTypes DEF TakeBackup
  <2>2. QED
    BY <1>0, <1>2, <2>1 DEF TakeBackup, Steps, Dump, Dumps
<1>3. CASE BackupRaises
  <2>1. commands' \in 0..MaxCommands /\ entered' \in Binaries /\ doing' = "idle"
    BY <1>0, <1>3, GoesTypes DEF BackupRaises
  <2>2. QED
    BY <1>0, <1>3, <2>1 DEF BackupRaises, Steps
<1>4. CASE KeepPrevious
  <2>1. commands' \in 0..MaxCommands /\ entered' \in Binaries /\ doing' = "swap"
    BY <1>0, <1>4, GoesTypes DEF KeepPrevious
  <2>2. QED
    BY <1>0, <1>4, <2>1 DEF KeepPrevious, Steps
<1>5. CASE Swap
  <2>1. commands' \in 0..MaxCommands /\ entered' \in Binaries /\ doing' = "migrate" /\ doing = "swap"
    BY <1>0, <1>5, GoesTypes DEF Swap
  <2>2. entry \in Versions
    BY <2>1 DEF DeployInv, UpgradeSound, Upgrading
  <2>3. QED
    BY <1>0, <1>5, <2>1, <2>2 DEF Swap, Steps
<1>6. CASE MigrateOk \/ MigrateFails
  <2>1. /\ commands' \in 0..MaxCommands /\ entered' \in Binaries /\ doing = "migrate"
        /\ doing' \in {"restart ok", "put back"}
    BY <1>0, <1>6, GoesTypes DEF MigrateOk, MigrateFails
  <2>2. schema' \in Schemas
    BY <1>0, <1>m, <1>s, <1>6, <2>1 DEF MigrateOk, MigrateFails
  <2>3. QED
    BY <1>0, <1>6, <2>1, <2>2 DEF MigrateOk, MigrateFails, Steps
<1>7. CASE PutBack
  <2>1. commands' \in 0..MaxCommands /\ entered' \in Binaries /\ doing' = "restart failed"
    BY <1>0, <1>7, GoesTypes DEF PutBack
  <2>2. QED
    BY <1>0, <1>7, <2>1 DEF PutBack, Steps
<1>8. CASE \/ Restart("restart ok", "log ok") \/ Restart("restart failed", "log failed")
           \/ Restart("restart back", "log back")
  <2>1. commands' \in 0..MaxCommands /\ entered' \in Binaries /\ doing' \in Steps
    BY <1>0, <1>8, GoesTypes DEF Restart, Steps
  <2>2. QED
    BY <1>0, <1>8, <2>1 DEF Restart
<1>9. CASE \/ Log("log ok", "upgrade", "ok") \/ Log("log failed", "upgrade", "failed")
           \/ Log("log back", "rollback", "ok")
  <2>1. \A a \in {"upgrade", "rollback"}, r \in {"ok", "failed"} :
           [action |-> a, version |-> entry, result |-> r] \in LedgerEntries
    BY <1>0 DEF LedgerEntries
  <2>2. ledger' \in LedgerEntries
    BY <1>9, <2>1 DEF Log
  <2>3. commands' \in 0..MaxCommands /\ entered' \in Binaries /\ doing' = "idle"
    BY <1>0, <1>9, GoesTypes DEF Log
  <2>4. QED
    BY <1>0, <1>9, <2>2, <2>3 DEF Log, Steps
<1>10. CASE RollbackWithoutPrevious
  <2>1. ledger' \in LedgerEntries
    BY <1>10 DEF RollbackWithoutPrevious, LedgerEntries
  <2>2. commands' \in 0..MaxCommands /\ entered' \in Binaries /\ doing' = "idle"
    BY <1>0, <1>10, BeginsTypes DEF RollbackWithoutPrevious
  <2>3. QED
    BY <1>0, <1>10, <2>1, <2>2 DEF RollbackWithoutPrevious, Steps
<1>11. CASE StartRollback
  <2>1. commands' \in 0..MaxCommands /\ entered' \in Binaries /\ doing' = "keep failed"
    BY <1>0, <1>11, BeginsTypes DEF StartRollback
  <2>2. QED
    BY <1>0, <1>11, <2>1 DEF StartRollback, Steps
<1>12. CASE KeepFailed \/ RestorePrevious \/ DropPrevious
  <2>1. commands' \in 0..MaxCommands /\ entered' \in Binaries /\ doing' \in Steps
    BY <1>0, <1>12, GoesTypes DEF KeepFailed, RestorePrevious, DropPrevious, Steps
  <2>2. QED
    BY <1>0, <1>12, <2>1 DEF KeepFailed, RestorePrevious, DropPrevious
<1>13. CASE Backup \/ Restore \/ RestoreFails
  <2>1. commands' \in 0..MaxCommands /\ entered' \in Binaries /\ doing' = "idle"
    BY <1>0, <1>13, BeginsTypes DEF Backup, Restore, RestoreFails
  <2>2. schema' \in Schemas /\ dumped' \subseteq Dumps
    BY <1>0, <1>13 DEF Backup, Restore, RestoreFails, Dump, Dumps
  <2>3. QED
    BY <1>0, <1>13, <2>1, <2>2 DEF Backup, Restore, RestoreFails, Steps
<1>14. CASE Cut
  <2>1. schema' \in Schemas
    BY <1>0, <1>m, <1>s, <1>14 DEF Cut
  <2>2. QED
    BY <1>0, <1>14, <2>1 DEF Cut, Steps
<1>15. QED
  BY <1>1, <1>2, <1>3, <1>4, <1>5, <1>6, <1>7, <1>8, <1>9, <1>10, <1>11, <1>12, <1>13, <1>14,
     LifecycleCases

LEMMA DeployTypeStep ==
    ASSUME DeployInv, [BootstrapNext]_bootstrapVars
    PROVE  BootstrapTypeOK'
<1>0. /\ BootstrapTypeOK /\ LifecycleTypeOK /\ RunTypeOK
      /\ NoBinary \in Binaries /\ Unasked \in Options /\ "idle" \in Steps /\ MaxCommands \in Nat
  BY LifecycleAssumption, TypesAre DEF DeployInv, Binaries, Unasked, Options, Steps
<1>s. bin # NoBinary => Migrated(bin) \in Schemas
  BY <1>0, MigratedIs
<1> SUFFICES LifecycleTypeOK' /\ RunTypeOK'
  BY StageNames DEF BootstrapTypeOK, RunTypeOK
<1> USE DEF binaries, database, host, run
<1>1. CASE stage = 0 /\ LifecycleNext /\ UNCHANGED <<host, told, run>>
  BY <1>0, <1>1, LifecycleTypeStep DEF RunTypeOK
<1>2. CASE RunStep
  <2>1. stage \in 1..10
    BY <1>0, <1>2, RunStepFrame, StageNames DEF RunTypeOK
  <2>2. stage' \in 0..11 /\ outcome' \subseteq Statuses /\ options' \in Options
    BY <1>0, <1>2, <2>1, RunStepFrame DEF RunTypeOK
  <2>3. /\ account' \in BOOLEAN /\ urlFile' \in BOOLEAN /\ admin' \in BOOLEAN /\ told' \in BOOLEAN
        /\ envFile' \in {envFile, commands}
    BY <1>0, <1>2 DEF RunTypeOK, RunStep, Precheck, Account, Secrets, Database, Artifact,
       InstallFails, FrontPage, Verify, Pending, FirstAdmin, Planned, Unchanged, HostKept
  <2>4. incoming' \in Binaries
    <3>1. CASE incoming' = incoming
      BY <1>0, <3>1 DEF RunTypeOK
    <3>2. CASE Artifact
      BY <1>0, <3>2, ResolveIs DEF Artifact, Planned, Unchanged, HostKept, Binaries, RunTypeOK
    <3>3. QED
      BY <1>2, <3>1, <3>2 DEF RunStep, Precheck, Account, Secrets, Database, InstallFails,
         FrontPage, Verify, Pending, FirstAdmin, Planned, Unchanged, HostKept, FilesKept
  <2>5. LifecycleTypeOK'
    BY <1>0, <1>2, RunStepFrame DEF LifecycleTypeOK
  <2>6. envFile' \in 0..MaxCommands
    BY <1>0, <2>3 DEF RunTypeOK, LifecycleTypeOK
  <2>7. QED
    BY <2>2, <2>3, <2>4, <2>5, <2>6 DEF RunTypeOK
<1>3. CASE StartRun
  <2>1. commands' \in 0..MaxCommands /\ entered' \in Binaries /\ doing' = "idle"
    BY <1>0, <1>3, BeginsTypes DEF StartRun
  <2>2. QED
    BY <1>0, <1>3, <2>1 DEF StartRun, LifecycleTypeOK, RunTypeOK
<1>4. CASE Installs
  <2>1. stage = 6
    BY <1>0, <1>4, StageOf DEF Installs, At, RunTypeOK
  <2>2. QED
    BY <1>0, <1>4, <2>1 DEF Installs, Yields, Statuses, LifecycleTypeOK, RunTypeOK
<1>5. CASE Migrate
  <2>1. schema' \in Schemas
    BY <1>0, <1>s, <1>5 DEF Migrate, Unchanged, HostKept, LifecycleTypeOK
  <2>2. stage = 7
    BY <1>0, <1>5, StageOf DEF Migrate, Unchanged, At, RunTypeOK
  <2>3. /\ stage' \in {8, 11} /\ outcome' \in {outcome \cup {"ok"}, outcome \cup {"failed"}}
        /\ UNCHANGED <<options, incoming, host, told>>
    BY <1>5, <2>2, StageNames DEF Migrate, Unchanged, HostKept, Yields
  <2>4. /\ UNCHANGED <<bin, prev, failedCopy, running, dumped, good, unprotected>>
        /\ UNCHANGED <<commands, doing, entry, entered, ledger>>
    BY <1>5 DEF Migrate, Unchanged, HostKept, Yields
  <2>5. QED
    BY <1>0, <2>1, <2>3, <2>4 DEF LifecycleTypeOK, RunTypeOK, Statuses
<1>6. CASE Summary
  BY <1>0, <1>6 DEF Summary, Returns, LifecycleTypeOK, RunTypeOK
<1>7. CASE RunCut
  <2>1. schema' \in Schemas /\ admin' \in BOOLEAN
    BY <1>0, <1>s, <1>7 DEF RunCut, LifecycleTypeOK, RunTypeOK
  <2>2. QED
    BY <1>0, <1>7, <2>1 DEF RunCut, Returns, LifecycleTypeOK, RunTypeOK
<1>8. CASE Uninstall
  <2>1. commands' \in 0..MaxCommands /\ entered' \in Binaries /\ doing' = "idle"
    BY <1>0, <1>8, BeginsTypes DEF Uninstall
  <2>2. QED
    BY <1>0, <1>8, <2>1 DEF Uninstall, LifecycleTypeOK, RunTypeOK
<1>9. CASE OperatorStarts
  BY <1>0, <1>9 DEF OperatorStarts, LifecycleTypeOK, RunTypeOK
<1>10. CASE UNCHANGED bootstrapVars
  BY <1>0, <1>10 DEF bootstrapVars, lifecycleVars, LifecycleTypeOK, RunTypeOK
<1>11. QED
  BY <1>1, <1>2, <1>3, <1>4, <1>5, <1>6, <1>7, <1>8, <1>9, <1>10, BootstrapCases

LEMMA DeployStart ==
    ASSUME BootstrapInit
    PROVE  DeployInv
<1> USE DEF BootstrapInit, LifecycleInit
<1>0. MaxVersion \in Nat /\ MaxCommands \in Nat /\ 0 \in 0..MaxCommands /\ 0 \in 0..MaxVersion
  BY LifecycleAssumption
<1>1. LifecycleTypeOK
  <2>1. /\ NoBinary \in Binaries /\ {} \subseteq Dumps /\ NoLine \in LedgerEntries \cup {NoLine}
        /\ "idle" \in Steps /\ 0 \in Versions \cup {0}
    BY DEF Binaries, Steps
  <2>2. QED
    BY <1>0, <2>1 DEF LifecycleTypeOK, Schemas
<1>2. RunTypeOK
  <2>1. Unasked \in Options
    BY DEF Unasked, Options
  <2>2. QED
    <3>1. /\ account \in BOOLEAN /\ urlFile \in BOOLEAN /\ admin \in BOOLEAN /\ told \in BOOLEAN
      OBVIOUS
    <3>2. envFile \in 0..MaxCommands /\ stage \in 0..11
      BY <1>0
    <3>3. options \in Options /\ incoming \in Binaries /\ outcome \subseteq Statuses
      BY <2>1 DEF Binaries
    <3>4. QED
      BY <3>1, <3>2, <3>3 DEF RunTypeOK
<1>3. BinaryKept /\ UpgradeSound /\ RunSound
  BY DEF BinaryKept, UpgradeSound, Upgrading, RunSound, StagesDone, Unasked
<1>4. QED
  BY <1>1, <1>2, <1>3, TypesAre DEF DeployInv

LEMMA LedgerIsTrueStep ==
    ASSUME DeployInv, [BootstrapNext]_bootstrapVars
    PROVE  LedgerIsTrue
<1> USE DEF binaries, database, LedgerIsTrue
<1>1. CASE Log("log ok", "upgrade", "ok")
  <2>1. doing = "log ok" /\ ledger'.result = "ok" /\ ledger'.version = entry
    BY <1>1 DEF Log, Goes
  <2>2. bin = entry /\ schema >= bin
    BY <2>1 DEF DeployInv, UpgradeSound
  <2>3. QED
    BY <2>1, <2>2
<1>2. CASE Log("log failed", "upgrade", "failed")
  <2>1. doing = "log failed" /\ ledger'.result = "failed"
    BY <1>2 DEF Log, Goes
  <2>2. entered # NoBinary => bin = entered
    BY <2>1 DEF DeployInv, UpgradeSound
  <2>3. QED
    BY <2>1, <2>2
<1>3. CASE Log("log back", "rollback", "ok") \/ RollbackWithoutPrevious
  <2>1. \E v, r : ledger' = [action |-> "rollback", version |-> v, result |-> r]
    BY <1>3 DEF Log, RollbackWithoutPrevious
  <2>2. QED
    BY <2>1
<1>4. CASE ledger' = ledger
  BY <1>4
<1>5. CASE LifecycleNext
  <2>1. CASE \/ StartUpgrade \/ TakeBackup \/ BackupRaises \/ KeepPrevious \/ Swap \/ MigrateOk
             \/ MigrateFails \/ PutBack \/ Restart("restart ok", "log ok")
             \/ Restart("restart failed", "log failed") \/ Restart("restart back", "log back")
    BY <1>4, <2>1 DEF StartUpgrade, TakeBackup, BackupRaises, KeepPrevious, Swap, MigrateOk,
       MigrateFails, PutBack, Restart
  <2>2. CASE \/ StartRollback \/ KeepFailed \/ RestorePrevious \/ DropPrevious
             \/ Backup \/ Restore \/ RestoreFails \/ Cut
    BY <1>4, <2>2 DEF StartRollback, KeepFailed, RestorePrevious, DropPrevious, Backup, Restore,
       RestoreFails, Cut
  <2>3. QED
    BY <1>1, <1>2, <1>3, <1>5, <2>1, <2>2, LifecycleCases
<1>6. CASE RunStep
  BY <1>4, <1>6, RunStepFrame
<1>7. CASE StartRun \/ Installs \/ Migrate \/ Summary \/ RunCut \/ Uninstall \/ OperatorStarts
  BY <1>4, <1>7 DEF StartRun, Installs, Migrate, Unchanged, Yields, Summary, RunCut, Uninstall,
     OperatorStarts
<1>8. CASE UNCHANGED bootstrapVars
  BY <1>4, <1>8 DEF bootstrapVars, lifecycleVars
<1>9. QED
  BY <1>5, <1>6, <1>7, <1>8, BootstrapCases

LEMMA SuccessIsRealStep ==
    ASSUME DeployInv
    PROVE  SuccessIsReal
<1>1. SUFFICES ASSUME Summary, ExitCode = 0
               PROVE  /\ account /\ envFile # 0 /\ urlFile
                      /\ bin = incoming /\ bin # NoBinary /\ schema >= bin
                      /\ running # NoBinary
                      /\ options.email => admin /\ told
  BY DEF SuccessIsReal
<1>2. Clean
  BY <1>1 DEF ExitCode, Clean
<1>3. stage = 11 /\ options.dry \in BOOLEAN
  BY <1>1, StageNames DEF Summary, DeployInv, BootstrapTypeOK, Options
<1>4. ~ options.dry /\ StagesDone(stage)
  BY <1>2, <1>3 DEF DeployInv, RunSound
<1>5. QED
  BY <1>3, <1>4 DEF StagesDone

LEMMA DryRunIsIdleStep ==
    ASSUME DeployInv, [BootstrapNext]_bootstrapVars
    PROVE  DryRunIsIdle
<1>1. SUFFICES ASSUME stage # 0, options.dry
               PROVE  UNCHANGED <<host, bin, prev, failedCopy, database, ledger>>
  BY DEF DryRunIsIdle
<1> USE DEF binaries, database, host
<1>2. /\ BootstrapTypeOK /\ RunSound /\ stage \in 0..11
      /\ stage >= 7 => "failed" \in outcome \/ "pending" \in outcome
      /\ "failed" \in outcome => stage = 11
  BY <1>1, StageNames DEF DeployInv, RunSound, BootstrapTypeOK, Clean
<1>3. ~ (At("migrate")) /\ ~ (At("first-admin"))
  BY <1>1, <1>2, StageOf DEF At
<1>5. CASE RunStep
  <2>1. UNCHANGED <<bin, prev, failedCopy, schema, dumped, ledger>>
    BY <1>5, RunStepFrame
  <2>2. UNCHANGED host
    BY <1>1, <1>3, <1>5 DEF RunStep, Precheck, Account, Secrets, Database, Artifact, InstallFails,
       FrontPage, Verify, Pending, FirstAdmin, Planned, Unchanged, HostKept
  <2>3. QED
    BY <2>1, <2>2
<1>6. CASE StartRun \/ Installs \/ Uninstall
  BY <1>1, <1>6 DEF StartRun, Installs, Uninstall
<1>7. CASE Migrate
  BY <1>3, <1>7 DEF Migrate, Unchanged
<1>8. CASE Summary
  BY <1>8 DEF Summary
<1>9. CASE RunCut
  BY <1>3, <1>9 DEF RunCut
<1>10. CASE OperatorStarts \/ UNCHANGED bootstrapVars
  BY <1>10 DEF OperatorStarts, bootstrapVars, lifecycleVars
<1>11. QED
  BY <1>1, <1>5, <1>6, <1>7, <1>8, <1>9, <1>10, BootstrapCases

-----------------------------------------------------------------------------
(* The engine drop *)

\* From the look at the worktree on, a sweep that will recycle it has what the engine
\* last wrote in its drop, or upstream; and it recycles only what it has proposed.
DropSound ==
    /\ {master, workingTree, base, edited} \subseteq Trees
    /\ edits \in Nat
    /\ dropStep = "idle" => dropCmd = "none"
    /\ dropStep = "recycle" => dropCmd = "sweep --apply"
    /\ Overtaken => \A p \in Paths : edited[p] \in Edits =>
          \/ Pulled(p, edited[p]) \/ base[p] = edited[p]
          \/ p \in DOMAIN drop /\ drop[p] = edited[p]
    /\ dropCmd = "sweep --apply" /\ dropStep \in {"remove ok", "recycle"} => drop \in pulls

DropInv == DropSound /\ ContentSurvives

LEMMA EngineEditsStep ==
    ASSUME DropInv, NEW p \in Paths, EngineEdits(p)
    PROVE  DropInv'
<1> USE DEF DropInv, remote, store
<1>1. PICK c \in {edits', MissingFile, RefusedDrop} \ {workingTree[p]} :
         /\ workingTree' = [workingTree EXCEPT ![p] = c]
         /\ edited' = [edited EXCEPT ![p] = IF Overtaken THEN Original ELSE c]
  BY DEF EngineEdits
<1>2. /\ MaxEdits \in Nat /\ Original \notin Nat
      /\ edits' = edits + 1 /\ edits < MaxEdits /\ edits \in Nat
      /\ UNCHANGED <<master, base, pulls, dropStep, dropCmd, drop, drops>>
  BY EngineDropAssumption DEF EngineEdits, DropSound
<1>3. c \in Contents /\ Original \in Contents /\ Original \notin Edits
  BY <1>2 DEF Contents, Edits
<1>4. /\ workingTree' \in Trees /\ edited' \in Trees
      /\ workingTree'[p] = c /\ edited'[p] = IF Overtaken THEN Original ELSE c
      /\ \A q \in Paths \ {p} : workingTree'[q] = workingTree[q] /\ edited'[q] = edited[q]
  BY <1>1, <1>3 DEF DropSound, Trees
<1>5. ContentSurvives'
  BY <1>2, <1>3, <1>4 DEF ContentSurvives, Pulled
<1>6. Overtaken' = Overtaken
  BY <1>2 DEF Overtaken
<1>7. DropSound'
  <2>1. Overtaken' => \A q \in Paths : edited'[q] \in Edits => edited'[q] = edited[q]
    BY <1>3, <1>4, <1>6
  <2>2. ASSUME Overtaken', NEW q \in Paths, edited'[q] \in Edits
        PROVE  (\/ Pulled(q, edited[q]) \/ base[q] = edited[q]
                \/ q \in DOMAIN drop /\ drop[q] = edited[q])'
    BY <1>2, <1>6, <2>1, <2>2 DEF DropSound, Pulled
  <2>3. edits' \in Nat
    BY <1>2
  <2>4. QED
    BY <1>2, <1>4, <2>2, <2>3 DEF DropSound, Pulled
<1>8. QED
  BY <1>5, <1>7

LEMMA StageStep ==
    ASSUME DropInv, Stage
    PROVE  DropInv'
<1> USE DEF DropInv, remote, staging
<1>1. /\ UNCHANGED <<master, base, workingTree, edited, edits, pulls>>
      /\ {master, workingTree, base, edited} \subseteq Trees
  BY DEF Stage, DropSound
<1>2. ContentSurvives'
  BY <1>1 DEF ContentSurvives, Pulled
<1>3. CASE DropSweepEnds
  BY <1>1, <1>2, <1>3 DEF DropSweepEnds, DropSound, Overtaken
<1>4. CASE dropStep' = "copy" /\ drop' = Restrict(workingTree, Changed)
  <2>1. ASSUME NEW p \in Paths, edited[p] \in Edits, workingTree[p] = edited[p], base[p] # edited[p]
        PROVE  p \in DOMAIN drop' /\ drop'[p] = edited[p]
    <3>1. p \in Changed
      BY <2>1, EngineDropAssumption DEF Changed, DiffNames, Edits
    <3>2. QED
      BY <1>4, <2>1, <3>1 DEF Restrict
  <2>2. \A p \in Paths : edited[p] \in Edits => \/ Pulled(p, edited[p]) \/ base[p] = edited[p]
                                                \/ p \in DOMAIN drop' /\ drop'[p] = edited[p]
    BY <2>1 DEF ContentSurvives
  <2>3. QED
    BY <1>1, <1>2, <1>4, <2>2 DEF DropSound, Pulled, Overtaken
<1>5. QED
  BY <1>2, <1>3, <1>4 DEF Stage

LEMMA DropInvStep ==
    ASSUME DropInv, [EngineDropNext]_dropVars
    PROVE  DropInv'
<1> USE DEF DropInv, remote, staging, store
<1>1. CASE \E p \in Paths : EngineEdits(p)
  BY <1>1, EngineEditsStep
<1>2. CASE \E p \in Paths : MasterMoves(p)
  <2>1. Upstream \in Contents
    BY DEF Contents
  <2>2. master' \in Trees
    BY <1>2, <2>1 DEF MasterMoves, DropSound, Trees
  <2>3. QED
    BY <1>2, <2>2 DEF MasterMoves, DropSound, ContentSurvives, Pulled, Overtaken
<1>3. CASE EngineCommits \/ EngineDescribes
  BY <1>3 DEF EngineCommits, EngineDescribes, DropSound, ContentSurvives, Pulled, Overtaken
<1>4. CASE StartDropSweep
  <2>1. master \in Trees
    BY DEF DropSound
  <2>2. QED
    BY <1>4, <2>1 DEF StartDropSweep, DropSweepEnds, DropSound, ContentSurvives, Pulled, Overtaken
<1>5. CASE LookAround
  BY <1>5 DEF LookAround, Goes2, DropSweepEnds, DropSound, ContentSurvives, Pulled, Overtaken
<1>6. CASE Stage
  BY <1>6, StageStep
<1>7. CASE Copy \/ CopyFails
  BY <1>7 DEF Copy, CopyFails, Goes2, DropSweepEnds, DropSound, ContentSurvives, Pulled, Overtaken
<1>8. CASE \E d \in drops : StartApply(d)
  BY <1>8 DEF StartApply, DropSound, ContentSurvives, Pulled, Overtaken
<1>9. CASE Gates
  BY <1>9 DEF Gates, Goes2, DropSweepEnds, DropSound, ContentSurvives, Pulled, Overtaken
<1>10. CASE AddWorktree
  BY <1>10 DEF AddWorktree, Goes2, DropSweepEnds, DropSound, ContentSurvives, Pulled, Overtaken
<1>11. CASE Commit \/ PushUpstream
  BY <1>11 DEF Commit, PushUpstream, Goes2, DropSound, ContentSurvives, Pulled, Overtaken
<1>12. CASE OpenPull
  BY <1>12 DEF OpenPull, Goes2, DropSound, ContentSurvives, Pulled, Overtaken
<1>13. CASE \E end \in {"remove ok", "remove failed"} : RemoveWorktree(end)
  BY <1>13 DEF RemoveWorktree, Goes2, DropSweepEnds, DropSound, ContentSurvives, Pulled, Overtaken
<1>14. CASE Recycle
  <2>1. /\ dropStep = "recycle" /\ dropCmd = "sweep --apply" /\ drop \in pulls
        /\ workingTree' = base /\ UNCHANGED <<master, base, edited, edits, pulls>>
        /\ dropStep' = "idle" /\ dropCmd' = "none"
    BY <1>14 DEF Recycle, DropSweepEnds, DropSound
  <2>2. ContentSurvives'
    BY <2>1 DEF DropSound, ContentSurvives, Pulled, Overtaken
  <2>3. QED
    BY <2>1, <2>2 DEF DropSound, Overtaken
<1>15. CASE Killed
  BY <1>15 DEF Killed, CutAt, DropSweepEnds, DropSound, ContentSurvives, Pulled, Overtaken
<1>16. CASE UNCHANGED dropVars
  BY <1>16 DEF dropVars, DropSound, ContentSurvives, Pulled, Overtaken
<1>17. QED
  BY <1>1, <1>2, <1>3, <1>4, <1>5, <1>6, <1>7, <1>8, <1>9, <1>10, <1>11, <1>12, <1>13, <1>14,
     <1>15, <1>16 DEF EngineDropNext

LEMMA DropStart ==
    ASSUME EngineDropInit
    PROVE  DropInv
<1>1. Original \in Contents /\ Original \notin Edits
  BY EngineDropAssumption DEF Contents, Edits
<1>2. QED
  BY <1>1 DEF EngineDropInit, DropInv, DropSound, ContentSurvives, Trees, Overtaken

-----------------------------------------------------------------------------
(* The supervision judge *)

\* What of a tick this proof needs to know.
Samples == [phase : PHASES, incarnation : Nat, uptime : Nat, restarts : Nat, error : BOOLEAN,
            draining : BOOLEAN, age : Nat, log : Nat \cup {NoDigest},
            probe : {"ok", "down", "none"}]

SamplesOK ==
    /\ phase \in PHASES /\ incarnation \in Nat /\ uptime \in Nat /\ restarts \in Nat
    /\ log \in Nat /\ age \in Nat
    /\ lastError \in BOOLEAN /\ draining \in BOOLEAN
    /\ sampling \in Samples /\ ticks \in Seq(Samples)

\* Every start of the worker has a number of its own; what was sampled of it, and
\* approved, is not ahead of it.
NumbersSound ==
    /\ HasPid => incarnation = restarts + 1
    /\ incarnation <= restarts + 1
    /\ sampling.incarnation <= restarts + 1
    /\ \A i \in DOMAIN ticks : ticks[i].incarnation <= restarts + 1
    /\ bundle.incarnation \in Nat /\ bundle.incarnation <= restarts + 1

\* There is a tick to approve an action by, and once the bundle has restarted the
\* worker, its incarnation is gone and the executor cannot come past check_target.
BundleSound ==
    /\ judging = "render" => ticks # <<>>
    /\ verdictReport = "failed" => judging = "done"
    /\ verdictReport = "failed" /\ bundle = NoBundle => ticks # <<>>
    /\ bundle = NoBundle => acting = "idle" /\ restarted = 0
    /\ restarted \in {0, 1}
    /\ restarted = 1 => bundle.incarnation <= restarts /\ acting \notin {"approve", "execute"}

JudgeInv == SamplesOK /\ NumbersSound /\ BundleSound

LEMMA Sampled ==
    ASSUME Probe
    PROVE  \E t \in {sampling, [sampling EXCEPT !.probe = "ok"], [sampling EXCEPT !.probe = "down"]} :
              ticks' = Append(ticks, t)
  BY DEF Probe, ProbeStates

LEMMA SamplesStep ==
    ASSUME SamplesOK, [JudgeNext]_judgeVars
    PROVE  SamplesOK'
<1> USE DEF SamplesOK, supervised, judgement, executor, PHASES
<1>1. CASE Spawn \/ SpawnFails \/ Crash
  <2>1. phase' \in PHASES /\ incarnation' \in Nat /\ uptime' \in Nat /\ restarts' \in Nat
    BY <1>1 DEF Spawn, SpawnFails, Crash
  <2>2. lastError' \in BOOLEAN /\ UNCHANGED <<log, age, draining, sampling, ticks>>
    BY <1>1 DEF Spawn, SpawnFails, Crash
  <2>3. QED
    BY <2>1, <2>2
<1>2. CASE BeginsToHang \/ BeginDrain \/ Drained
  BY <1>2 DEF BeginsToHang, BeginDrain, Drained
<1>3. CASE Unavailable \/ Render
  BY <1>3 DEF Unavailable, Render
<1>4. CASE ReadStatus
  <2>1. [phase |-> phase, incarnation |-> IF HasPid THEN incarnation ELSE 0,
         uptime |-> uptime, restarts |-> restarts, error |-> lastError,
         draining |-> draining, age |-> age, log |-> NoDigest, probe |-> "none"] \in Samples
    BY DEF Samples
  <2>2. QED
    BY <1>4, <2>1 DEF ReadStatus
<1>5. CASE ReadLogs
  <2>1. [sampling EXCEPT !.log = log] \in Samples
    BY DEF Samples
  <2>2. QED
    BY <1>5, <2>1 DEF ReadLogs
<1>6. CASE Probe
  <2>1. [sampling EXCEPT !.probe = "ok"] \in Samples /\ [sampling EXCEPT !.probe = "down"] \in Samples
    BY DEF Samples
  <2>2. ticks' \in Seq(Samples)
    <3>1. PICK t \in {sampling, [sampling EXCEPT !.probe = "ok"],
                                [sampling EXCEPT !.probe = "down"]} : ticks' = Append(ticks, t)
      BY <1>6, Sampled
    <3>2. t \in Samples
      BY <2>1
    <3>3. QED
      BY <3>1, <3>2, AppendProperties
  <2>3. sampling' \in Samples
    BY <1>6 DEF Probe, NoTick, Samples
  <2>4. QED
    BY <1>6, <2>2, <2>3 DEF Probe
<1>7. CASE JudgeInterval
  <2>1. PICK lines \in {0, 1} : log' = log + lines
    BY <1>7 DEF JudgeInterval
  <2>2. log' \in Nat /\ age' \in Nat /\ uptime' \in Nat
    BY <1>7, <2>1 DEF JudgeInterval
  <2>3. QED
    BY <1>7, <2>2 DEF JudgeInterval
<1>8. CASE Approve
  BY <1>8 DEF Approve
<1>9. CASE WindowCloses \/ ActStarts \/ check_justification \/ check_target \/ RegisterApproval
           \/ ExecuteFails
  BY <1>9 DEF WindowCloses, ActStarts, check_justification, check_target, RegisterApproval,
     ExecuteFails
<1>10. CASE Execute
  <2>1. phase' \in PHASES /\ incarnation' \in Nat /\ uptime' \in Nat /\ restarts' \in Nat
    BY <1>10 DEF Execute
  <2>2. draining' \in BOOLEAN /\ UNCHANGED <<log, age, lastError, sampling, ticks>>
    BY <1>10 DEF Execute
  <2>3. QED
    BY <2>1, <2>2
<1>11. CASE UNCHANGED judgeVars
  BY <1>11 DEF judgeVars
<1>12. QED
  BY <1>1, <1>2, <1>3, <1>4, <1>5, <1>6, <1>7, <1>8, <1>9, <1>10, <1>11
     DEF JudgeNext, MalkuthNext, CollectNext, ActNext

LEMMA NumbersStep ==
    ASSUME JudgeInv, [JudgeNext]_judgeVars
    PROVE  NumbersSound'
<1> USE DEF NumbersSound, supervised, judgement, executor, HasPid
<1>0. SamplesOK /\ NumbersSound /\ BundleSound /\ restarts \in Nat /\ incarnation \in Nat
      /\ bundle.incarnation \in Nat
      /\ sampling.incarnation \in Nat /\ \A i \in DOMAIN ticks : ticks[i].incarnation \in Nat
  <2>1. SamplesOK /\ NumbersSound /\ BundleSound
    BY DEF JudgeInv
  <2>2. \A t \in Samples : t.incarnation \in Nat
    BY DEF Samples
  <2>3. sampling \in Samples /\ \A i \in DOMAIN ticks : ticks[i] \in Samples
    BY <2>1 DEF SamplesOK
  <2>4. QED
    BY <2>1, <2>2, <2>3 DEF SamplesOK
<1>1. CASE Spawn \/ SpawnFails \/ Crash
  BY <1>0, <1>1 DEF Spawn, SpawnFails, Crash
<1>2. CASE BeginsToHang \/ BeginDrain \/ Drained
  BY <1>0, <1>2 DEF BeginsToHang, BeginDrain, Drained
<1>3. CASE Unavailable \/ Render
  BY <1>0, <1>3 DEF Unavailable, Render
<1>4. CASE ReadStatus
  BY <1>0, <1>4 DEF ReadStatus
<1>5. CASE ReadLogs
  <2>1. sampling'.incarnation = sampling.incarnation
    BY <1>0, <1>5 DEF ReadLogs, SamplesOK, Samples
  <2>2. QED
    BY <1>0, <1>5, <2>1 DEF ReadLogs
<1>6. CASE Probe
  <2>1. PICK t \in Samples : ticks' = Append(ticks, t) /\ t.incarnation = sampling.incarnation
    <3>1. PICK t \in {sampling, [sampling EXCEPT !.probe = "ok"],
                                [sampling EXCEPT !.probe = "down"]} : ticks' = Append(ticks, t)
      BY <1>6, Sampled
    <3>2. t \in Samples /\ t.incarnation = sampling.incarnation
      BY <1>0 DEF SamplesOK, Samples
    <3>3. QED
      BY <3>1, <3>2
  <2>2. \A i \in DOMAIN ticks' : ticks'[i].incarnation <= restarts + 1
    BY <1>0, <2>1, AppendProperties DEF SamplesOK
  <2>3. sampling'.incarnation = 0
    BY <1>6 DEF Probe, NoTick
  <2>4. QED
    BY <1>0, <1>6, <2>2, <2>3 DEF Probe
<1>7. CASE JudgeInterval
  BY <1>0, <1>7 DEF JudgeInterval
<1>8. CASE Approve
  <2>1. judging = "done" /\ verdictReport = "failed" /\ bundle = NoBundle
        /\ bundle'.incarnation = Latest.incarnation /\ ticks' = <<>>
        /\ UNCHANGED <<supervised, sampling>>
    BY <1>8 DEF Approve
  <2>2. Len(ticks) \in DOMAIN ticks
    BY <1>0, <2>1 DEF SamplesOK, BundleSound
  <2>3. QED
    BY <1>0, <2>1, <2>2 DEF Latest
<1>9. CASE WindowCloses \/ ActStarts \/ check_justification \/ check_target \/ RegisterApproval
           \/ ExecuteFails
  BY <1>0, <1>9 DEF WindowCloses, ActStarts, check_justification, check_target, RegisterApproval,
     ExecuteFails
<1>10. CASE Execute
  BY <1>0, <1>10 DEF Execute
<1>11. CASE UNCHANGED judgeVars
  BY <1>0, <1>11 DEF judgeVars
<1>12. QED
  BY <1>1, <1>2, <1>3, <1>4, <1>5, <1>6, <1>7, <1>8, <1>9, <1>10, <1>11
     DEF JudgeNext, MalkuthNext, CollectNext, ActNext

LEMMA BundleStep ==
    ASSUME JudgeInv, [JudgeNext]_judgeVars
    PROVE  BundleSound'
<1> USE DEF BundleSound, supervised, judgement, executor
<1>0. SamplesOK /\ NumbersSound /\ BundleSound /\ restarts \in Nat /\ incarnation \in Nat
      /\ bundle.incarnation \in Nat /\ ticks \in Seq(Samples)
      /\ TICKS \in Nat /\ TICKS >= 2
  BY JudgeAssumption DEF JudgeInv, SamplesOK, NumbersSound
<1>1. CASE Spawn \/ SpawnFails \/ Crash
  BY <1>0, <1>1 DEF Spawn, SpawnFails, Crash
<1>2. CASE BeginsToHang \/ BeginDrain \/ Drained
  BY <1>0, <1>2 DEF BeginsToHang, BeginDrain, Drained
<1>3. CASE Unavailable \/ Render
  BY <1>0, <1>3 DEF Unavailable, Render
<1>4. CASE ReadStatus \/ ReadLogs \/ JudgeInterval
  BY <1>0, <1>4 DEF ReadStatus, ReadLogs, JudgeInterval
<1>5. CASE Probe
  <2>1. judging = "probe" /\ verdictReport' = verdictReport /\ UNCHANGED <<supervised, executor>>
        /\ (judging' = "render" => Len(ticks') = TICKS)
    BY <1>5 DEF Probe
  <2>2. judging' = "render" => ticks' # <<>>
    BY <1>0, <2>1
  <2>3. QED
    BY <1>0, <2>1, <2>2
<1>6. CASE Approve
  <2>1. bundle' # NoBundle /\ bundle = NoBundle /\ restarted' = restarted /\ acting' = acting
        /\ judging' = judging /\ verdictReport' = verdictReport /\ judging = "done"
    BY <1>6 DEF Approve, NoBundle
  <2>2. QED
    BY <1>0, <2>1
<1>7. CASE WindowCloses \/ ActStarts \/ RegisterApproval \/ ExecuteFails
  BY <1>0, <1>7 DEF WindowCloses, ActStarts, RegisterApproval, ExecuteFails, Ends, Continues
<1>8. CASE check_justification
  BY <1>0, <1>8 DEF check_justification, Ends, Continues
<1>9. CASE check_target
  <2>1. restarted = 1 => ~ TargetMatches
    BY <1>0 DEF TargetMatches, NumbersSound
  <2>2. QED
    BY <1>0, <1>9, <2>1 DEF check_target, Ends, Continues
<1>10. CASE Execute
  <2>1. restarted = 0 /\ bundle # NoBundle /\ acting' = "idle" /\ bundle' = bundle
        /\ UNCHANGED judgement
        /\ \/ restarted' = restarted + 1 /\ restarts' = restarts + 1
           \/ restarted' = restarted
    BY <1>0, <1>10 DEF Execute, Ends
  <2>2. QED
    BY <1>0, <2>1 DEF NumbersSound
<1>11. CASE UNCHANGED judgeVars
  BY <1>0, <1>11 DEF judgeVars
<1>12. QED
  BY <1>1, <1>2, <1>3, <1>4, <1>5, <1>6, <1>7, <1>8, <1>9, <1>10, <1>11
     DEF JudgeNext, MalkuthNext, CollectNext, ActNext

LEMMA JudgeStart ==
    ASSUME JudgeInit
    PROVE  JudgeInv
<1>1. NoTick \in Samples
  BY DEF NoTick, Samples, PHASES
<1>2. SamplesOK
  <2>1. phase \in PHASES /\ lastError \in BOOLEAN /\ draining \in BOOLEAN
    BY DEF JudgeInit, PHASES
  <2>2. sampling \in Samples /\ ticks \in Seq(Samples)
    BY <1>1, EmptySeq DEF JudgeInit
  <2>3. QED
    BY <2>1, <2>2 DEF JudgeInit, SamplesOK
<1>3. NumbersSound
  BY DEF JudgeInit, NumbersSound, NoTick, NoBundle, HasPid
<1>4. BundleSound
  BY DEF JudgeInit, BundleSound
<1>5. QED
  BY <1>2, <1>3, <1>4 DEF JudgeInv

\* What runs well since the first sample looks well in all of them; what has hung
\* since then has answered no probe of its own, and each probe without evidence is
\* noted.
HealthSound ==
    /\ judging \in {"status", "logs", "probe", "wait", "render", "done"}
    /\ hung \in BOOLEAN
    /\ judging = "render" => Len(ticks) = TICKS
    /\ judging \in {"logs", "probe"} => sampling.probe = "none"
    /\ \A i \in DOMAIN ticks : ticks[i].probe = "none" => unevaluated # {}
    /\ verdictReport = "ok" => judging = "done"

SoundTick(t) == /\ t.phase = "running" /\ ~t.draining /\ t.restarts = restarts
                /\ probed => t.probe # "down"

SoundKept ==
    sound # 0 =>
        /\ phase = "running" /\ ~draining /\ ~hung
        /\ judging \in {"logs", "probe"} => SoundTick(sampling)
        /\ \A i \in DOMAIN ticks : SoundTick(ticks[i])

WedgedKept ==
    wedged # 0 =>
        /\ hung /\ HasPid
        /\ probed => \A i \in DOMAIN ticks : ticks[i].probe # "ok"

\* It grows older and says nothing more, and does not run again once it drains.
SilentKept ==
    wedged # 0 =>
        /\ phase = "running" => \A i \in DOMAIN ticks : ticks[i].phase = "running"
        /\ \A i, j \in DOMAIN ticks : i < j =>
              /\ ticks[j].phase = "running" => ticks[i].phase = "running"
              /\ ticks[i].uptime < ticks[j].uptime
        /\ \A i \in DOMAIN ticks :
              /\ ticks[i].phase = "running" => ticks[i].log = log \/ unevaluated # {}
              /\ ticks[i].uptime <= uptime
              /\ judging \in {"status", "logs", "probe"} => ticks[i].uptime < uptime
        /\ judging \in {"logs", "probe"} =>
              /\ sampling.uptime = uptime
              /\ phase = "running" => sampling.phase = "running"
              /\ sampling.phase = "running" => \A i \in DOMAIN ticks : ticks[i].phase = "running"
        /\ judging = "probe" /\ sampling.phase = "running" =>
              sampling.log = log \/ unevaluated # {}

HealthInv == HealthSound /\ SoundKept /\ WedgedKept /\ SilentKept /\ SilenceIsNotHealth

LEMMA HealthStep ==
    ASSUME JudgeInv, HealthInv, [JudgeNext]_judgeVars
    PROVE  HealthSound' /\ SoundKept' /\ WedgedKept'
<1> USE DEF HealthSound, SoundKept, WedgedKept, SoundTick, supervised, judgement, executor, HasPid,
        Replaced
<1>0. /\ HealthSound /\ SoundKept /\ WedgedKept
      /\ ticks \in Seq(Samples) /\ sampling \in Samples /\ restarts \in Nat /\ TICKS \in Nat
  BY JudgeAssumption DEF HealthInv, JudgeInv, SamplesOK
<1>1. CASE Spawn
  BY <1>0, <1>1 DEF Spawn
<1>2. CASE SpawnFails
  BY <1>0, <1>2 DEF SpawnFails
<1>3. CASE Crash
  BY <1>0, <1>3 DEF Crash
<1>4. CASE BeginsToHang \/ BeginDrain \/ Drained
  <2>1. CASE BeginsToHang
    BY <1>0, <2>1 DEF BeginsToHang
  <2>2. CASE BeginDrain
    BY <1>0, <2>2 DEF BeginDrain
  <2>3. CASE Drained
    BY <1>0, <2>3 DEF Drained
  <2>4. QED
    BY <1>4, <2>1, <2>2, <2>3
<1>5. CASE Unavailable \/ JudgeInterval
  BY <1>0, <1>5 DEF Unavailable, JudgeInterval
<1>6. CASE ReadStatus
  <2> DEFINE t == [phase |-> phase, incarnation |-> IF HasPid THEN incarnation ELSE 0,
                   uptime |-> uptime, restarts |-> restarts, error |-> lastError,
                   draining |-> draining, age |-> age, log |-> NoDigest, probe |-> "none"]
  <2>1. /\ sampling' = t
        /\ judging = "status" /\ judging' \in {"logs", "probe"}
        /\ UNCHANGED <<ticks, unevaluated, verdictReport, supervised>>
    BY <1>6 DEF ReadStatus
  <2>2. /\ t.phase = phase /\ t.draining = draining /\ t.restarts = restarts /\ t.probe = "none"
    OBVIOUS
  <2>3. CASE ticks = <<>>
    BY <1>0, <1>6, <2>1, <2>2, <2>3 DEF ReadStatus
  <2>4. CASE ticks # <<>>
    BY <1>0, <1>6, <2>1, <2>2, <2>4 DEF ReadStatus
  <2>5. QED
    BY <2>3, <2>4
<1>7. CASE ReadLogs
  <2>1. /\ sampling'.phase = sampling.phase /\ sampling'.draining = sampling.draining
        /\ sampling'.restarts = sampling.restarts /\ sampling'.probe = sampling.probe
    BY <1>0, <1>7 DEF ReadLogs, Samples
  <2>2. unevaluated \subseteq unevaluated'
    BY <1>7 DEF ReadLogs, Note
  <2>3. QED
    BY <1>0, <1>7, <2>1, <2>2 DEF ReadLogs
<1>8. CASE Probe
  <2>1. PICK evid \in {"ok", "down", "none"}, t \in Samples :
           /\ ticks' = Append(ticks, t)
           /\ t.phase = sampling.phase /\ t.draining = sampling.draining
           /\ t.restarts = sampling.restarts /\ t.probe = evid
           /\ probed /\ evid = "ok" => phase = "running" /\ ~hung
           /\ probed /\ evid = "down" => ~ (phase = "running" /\ ~hung)
           /\ evid = "none" => unevaluated' # {}
           /\ unevaluated \subseteq unevaluated'
    <3>1. PICK evid \in ProbeStates :
              IF evid = "unreachable"
              THEN Note({"A1", "C1"}) /\ ticks' = Append(ticks, sampling)
              ELSE ticks' = Append(ticks, [sampling EXCEPT !.probe = evid]) /\ UNCHANGED unevaluated
      BY <1>8 DEF Probe
    <3>2. sampling.probe = "none"
      BY <1>0, <1>8 DEF Probe
    <3>3. CASE evid = "unreachable"
      BY <1>0, <3>1, <3>2, <3>3 DEF Note
    <3>4. CASE evid # "unreachable"
      <4> DEFINE u == [sampling EXCEPT !.probe = evid]
      <4>1. /\ evid \in {"ok", "down"}
            /\ probed => (evid = "ok" <=> phase = "running" /\ ~hung)
        BY <3>4 DEF ProbeStates
      <4>2. u \in Samples /\ u.probe = evid
        BY <1>0, <4>1 DEF Samples
      <4>3. u.phase = sampling.phase /\ u.draining = sampling.draining /\ u.restarts = sampling.restarts
        BY <1>0 DEF Samples
      <4>4. ticks' = Append(ticks, u) /\ unevaluated' = unevaluated
        BY <3>1, <3>4
      <4> HIDE DEF u
      <4>5. QED
        BY <4>1, <4>2, <4>3, <4>4
    <3>5. QED
      BY <3>3, <3>4
  <2>2. \A i \in DOMAIN ticks' : ticks'[i] = t \/ (i \in DOMAIN ticks /\ ticks'[i] = ticks[i])
    BY <1>0, <2>1
  <2>3. /\ judging = "probe" /\ judging' = IF Len(ticks') = TICKS THEN "render" ELSE "wait"
        /\ UNCHANGED <<verdictReport, supervised, sound, wedged>>
    BY <1>8 DEF Probe
  <2>4. HealthSound'
    BY <1>0, <2>1, <2>2, <2>3
  <2>5. SoundKept'
    BY <1>0, <2>1, <2>2, <2>3
  <2>6. WedgedKept'
    BY <1>0, <2>1, <2>2, <2>3
  <2>7. QED
    BY <2>4, <2>5, <2>6
<1>9. CASE Render
  <2>1. judging' = "done" /\ UNCHANGED <<ticks, sampling, unevaluated, supervised, sound, wedged>>
    BY <1>9 DEF Render
  <2>2. QED
    BY <1>0, <2>1
<1>10. CASE Approve
  <2>1. /\ judging = "done" /\ verdictReport = "failed" /\ ticks' = <<>>
        /\ UNCHANGED <<supervised, sampling, judging, verdictReport, sound, wedged>>
    BY <1>10 DEF Approve
  <2>2. QED
    BY <1>0, <2>1
<1>11. CASE WindowCloses \/ ActStarts \/ check_justification \/ check_target \/ RegisterApproval
            \/ ExecuteFails
  BY <1>0, <1>11 DEF WindowCloses, ActStarts, check_justification, check_target, RegisterApproval,
     ExecuteFails
<1>12. CASE Execute
  BY <1>0, <1>12 DEF Execute
<1>13. CASE UNCHANGED judgeVars
  BY <1>0, <1>13 DEF judgeVars
<1>14. QED
  BY <1>1, <1>2, <1>3, <1>4, <1>5, <1>6, <1>7, <1>8, <1>9, <1>10, <1>11, <1>12, <1>13
     DEF JudgeNext, MalkuthNext, CollectNext, ActNext

LEMMA SilentStep ==
    ASSUME JudgeInv, HealthInv, [JudgeNext]_judgeVars
    PROVE  SilentKept'
<1> USE DEF SilentKept, supervised, judgement, executor, HasPid, Replaced
<1>0. /\ SilentKept /\ (wedged # 0 => hung /\ HasPid)
      /\ ticks \in Seq(Samples) /\ sampling \in Samples /\ log \in Nat /\ uptime \in Nat
      /\ \A i \in DOMAIN ticks : ticks[i].uptime \in Nat
      /\ judging \in {"status", "logs", "probe", "wait", "render", "done"}
  <2>1. \A t \in Samples : t.uptime \in Nat
    BY DEF Samples
  <2>2. ticks \in Seq(Samples) /\ sampling \in Samples /\ log \in Nat /\ uptime \in Nat
    BY DEF JudgeInv, SamplesOK
  <2>3. \A i \in DOMAIN ticks : ticks[i].uptime \in Nat
    BY <2>1, <2>2
  <2>4. QED
    BY <2>2, <2>3 DEF HealthInv, WedgedKept, HealthSound
<1>1. CASE Spawn \/ SpawnFails \/ Crash
  BY <1>0, <1>1 DEF Spawn, SpawnFails, Crash
<1>2. CASE BeginsToHang \/ BeginDrain \/ Drained
  BY <1>0, <1>2 DEF BeginsToHang, BeginDrain, Drained
<1>3. CASE Unavailable \/ Render
  BY <1>0, <1>3 DEF Unavailable, Render
<1>4. CASE ReadStatus
  <2> DEFINE t == [phase |-> phase, incarnation |-> IF HasPid THEN incarnation ELSE 0,
                   uptime |-> uptime, restarts |-> restarts, error |-> lastError,
                   draining |-> draining, age |-> age, log |-> NoDigest, probe |-> "none"]
  <2>1. /\ sampling' = t /\ t.phase = phase /\ t.uptime = uptime
        /\ judging = "status" /\ judging' = IF phase = "running" THEN "logs" ELSE "probe"
        /\ UNCHANGED <<ticks, unevaluated, supervised>>
        /\ ticks = <<>> \/ wedged' = wedged
    BY <1>4 DEF ReadStatus
  <2> HIDE DEF t
  <2>2. QED
    BY <1>0, <2>1
<1>5. CASE ReadLogs
  <2>1. /\ sampling'.phase = sampling.phase /\ sampling'.uptime = sampling.uptime
        /\ sampling'.log = log \/ unevaluated' # {}
        /\ unevaluated \subseteq unevaluated'
    BY <1>0, <1>5 DEF ReadLogs, Samples, Note
  <2>2. QED
    BY <1>0, <1>5, <2>1 DEF ReadLogs
<1>6. CASE Probe
  <2>1. PICK t \in Samples : /\ ticks' = Append(ticks, t) /\ t.phase = sampling.phase
                             /\ t.uptime = sampling.uptime /\ t.log = sampling.log
    <3>1. PICK t \in {sampling, [sampling EXCEPT !.probe = "ok"],
                                [sampling EXCEPT !.probe = "down"]} : ticks' = Append(ticks, t)
      BY <1>6, Sampled
    <3>2. /\ t \in Samples /\ t.phase = sampling.phase /\ t.uptime = sampling.uptime
          /\ t.log = sampling.log
      BY <1>0 DEF Samples
    <3>3. QED
      BY <3>1, <3>2
  <2>2. /\ DOMAIN ticks' = 1..(Len(ticks) + 1) /\ DOMAIN ticks = 1..Len(ticks)
        /\ Len(ticks) \in Nat /\ ticks'[Len(ticks) + 1] = t
        /\ \A i \in DOMAIN ticks : ticks'[i] = ticks[i]
    BY <1>0, <2>1
  <2>3. /\ judging = "probe" /\ judging' \in {"render", "wait"}
        /\ unevaluated \subseteq unevaluated'
        /\ UNCHANGED <<supervised, wedged>>
    BY <1>6 DEF Probe, Note
  <2>4. SUFFICES ASSUME wedged # 0 PROVE SilentKept'
    BY <2>3
  <2>5. \A i \in DOMAIN ticks' :
           \/ i \in DOMAIN ticks /\ i < Len(ticks) + 1 /\ ticks'[i] = ticks[i]
           \/ i = Len(ticks) + 1 /\ ticks'[i] = t
    BY <2>2
  <2>6. \A i \in DOMAIN ticks' :
           /\ ticks'[i].phase = "running" => ticks'[i].log = log \/ unevaluated' # {}
           /\ ticks'[i].uptime <= uptime
           /\ phase = "running" => ticks'[i].phase = "running"
    <3> SUFFICES ASSUME NEW i \in DOMAIN ticks'
                 PROVE  /\ ticks'[i].phase = "running" => ticks'[i].log = log \/ unevaluated' # {}
                        /\ ticks'[i].uptime <= uptime
                        /\ phase = "running" => ticks'[i].phase = "running"
      OBVIOUS
    <3>1. CASE i \in DOMAIN ticks /\ ticks'[i] = ticks[i]
      BY <1>0, <2>3, <2>4, <3>1
    <3>2. CASE ticks'[i] = t
      <4>1. /\ sampling.uptime = uptime
            /\ sampling.phase = "running" => sampling.log = log \/ unevaluated # {}
        BY <1>0, <2>3, <2>4
      <4>2. phase = "running" => sampling.phase = "running"
        BY <1>0, <2>3, <2>4, Zenon
      <4>3. QED
        BY <1>0, <2>1, <2>3, <3>2, <4>1, <4>2
    <3>3. QED
      BY <2>5, <3>1, <3>2
  <2>7. \A i, j \in DOMAIN ticks' : i < j =>
              /\ ticks'[j].phase = "running" => ticks'[i].phase = "running"
              /\ ticks'[i].uptime < ticks'[j].uptime
    <3> SUFFICES ASSUME NEW i \in DOMAIN ticks', NEW j \in DOMAIN ticks', i < j
                 PROVE  /\ ticks'[j].phase = "running" => ticks'[i].phase = "running"
                        /\ ticks'[i].uptime < ticks'[j].uptime
      OBVIOUS
    <3>1. i \in DOMAIN ticks /\ ticks'[i] = ticks[i]
      BY <2>2, <2>5
    <3>2. CASE j \in DOMAIN ticks /\ ticks'[j] = ticks[j]
      BY <1>0, <2>4, <3>1, <3>2
    <3>3. CASE ticks'[j] = t
      BY <1>0, <2>1, <2>3, <2>4, <3>1, <3>3
    <3>4. QED
      BY <2>5, <3>2, <3>3
  <2>8. /\ judging' \notin {"status", "logs", "probe"}
        /\ phase' = phase /\ log' = log /\ uptime' = uptime
    <3>1. judging' \notin {"status", "logs", "probe"}
      BY <2>3
    <3>2. QED
      BY <2>3, <3>1, Zenon
  <2>9. /\ phase' = "running" => \A i \in DOMAIN ticks' : ticks'[i].phase = "running"
        /\ \A i \in DOMAIN ticks' :
              /\ ticks'[i].phase = "running" => ticks'[i].log = log' \/ unevaluated' # {}
              /\ ticks'[i].uptime <= uptime'
              /\ judging' \in {"status", "logs", "probe"} => ticks'[i].uptime < uptime'
    BY <2>6, <2>8
  <2>10. judging' # "probe"
    BY <2>3
  <2>11. QED
    BY <2>7, <2>8, <2>9, <2>10, Zenon
<1>7. CASE JudgeInterval
  <2>1. PICK lines \in IF HasPid /\ ~hung THEN {0, 1} ELSE {0} : log' = log + lines
    BY <1>7 DEF JudgeInterval
  <2>2. QED
    BY <1>0, <1>7, <2>1 DEF JudgeInterval
<1>8. CASE Approve
  <2>1. /\ judging = "done" /\ ticks' = <<>>
        /\ UNCHANGED <<supervised, sampling, judging, wedged>>
    BY <1>8 DEF Approve
  <2>2. QED
    BY <1>0, <2>1
<1>9. CASE WindowCloses \/ ActStarts \/ check_justification \/ check_target \/ RegisterApproval
           \/ ExecuteFails
  BY <1>0, <1>9 DEF WindowCloses, ActStarts, check_justification, check_target, RegisterApproval,
     ExecuteFails
<1>10. CASE Execute
  BY <1>0, <1>10 DEF Execute
<1>11. CASE UNCHANGED judgeVars
  BY <1>0, <1>11 DEF judgeVars
<1>12. QED
  BY <1>1, <1>2, <1>3, <1>4, <1>5, <1>6, <1>7, <1>8, <1>9, <1>10, <1>11
     DEF JudgeNext, MalkuthNext, CollectNext, ActNext

\* Where no probe was answered, and each had evidence, the readiness is down.
LEMMA SilenceIsProbed ==
    ASSUME JudgeInv, HealthInv, judging = "render", wedged # 0, unevaluated = {},
           Latest.phase = "running", probed
    PROVE  a1_readiness_down
<1>1. \A i \in DOMAIN ticks : ticks[i].probe \notin {"none", "ok"}
  BY DEF HealthInv, HealthSound, WedgedKept
<1>2. DOMAIN ticks = 1..TICKS /\ TICKS \in Nat
  BY JudgeAssumption DEF HealthInv, HealthSound, JudgeInv, SamplesOK
<1>3. {i \in ProbeHistory : \A j \in ProbeHistory : j >= i => ticks[j].probe # "ok"} = 1..TICKS
  BY <1>1, <1>2 DEF ProbeHistory
<1>4. FailingTicks = TICKS
  <2>1. Cardinality(1..TICKS) = TICKS
    BY <1>2, FS_Interval
  <2>2. QED
    BY <1>3, <2>1 DEF FailingTicks
<1>5. READINESS_TICKS <= TICKS
  BY JudgeAssumption
<1>6. QED
  BY <1>4, <1>5 DEF a1_readiness_down

\* And where every log could be read, they are all the same.
LEMMA SilenceIsLogged ==
    ASSUME JudgeInv, HealthInv, judging = "render", wedged # 0, unevaluated = {},
           Latest.phase = "running", TICKS >= STALL_TICKS, Latest.uptime >= STALL_UPTIME
    PROVE  a2_log_stall
<1>1. /\ DOMAIN ticks = 1..TICKS /\ TICKS \in Nat /\ TICKS >= 2 /\ Len(ticks) = TICKS
      /\ log \in Nat /\ log # NoDigest
  BY JudgeAssumption DEF HealthInv, HealthSound, JudgeInv, SamplesOK
<1>2. \A i \in DOMAIN ticks : ticks[i].phase = "running"
  BY <1>1 DEF HealthInv, SilentKept, Latest
<1>3. \A i \in DOMAIN ticks : ticks[i].log = log
  BY <1>2 DEF HealthInv, SilentKept
<1>4. Digests = 1..TICKS
  BY <1>1, <1>3 DEF Digests
<1>5. Cardinality(Digests) = TICKS
  BY <1>1, <1>4, FS_Interval
<1>6. Frozen
  BY <1>1, <1>3, <1>4, <1>5 DEF Frozen
<1>7. ticks[TICKS].uptime > ticks[1].uptime
  <2>1. 1 \in DOMAIN ticks /\ TICKS \in DOMAIN ticks /\ 1 < TICKS
    BY <1>1
  <2>2. ticks[1].uptime < ticks[TICKS].uptime
    BY <2>1 DEF HealthInv, SilentKept
  <2>3. ticks[1].uptime \in Nat /\ ticks[TICKS].uptime \in Nat
    <3>1. \A t \in Samples : t.uptime \in Nat
      BY DEF Samples
    <3>2. ticks \in Seq(Samples)
      BY DEF JudgeInv, SamplesOK
    <3>3. QED
      BY <2>1, <3>1, <3>2
  <2>4. QED
    BY <2>2, <2>3
<1>8. QED
  BY <1>1, <1>6, <1>7 DEF a2_log_stall, Latest

LEMMA SilenceStep ==
    ASSUME JudgeInv, HealthInv, [JudgeNext]_judgeVars
    PROVE  SilenceIsNotHealth'
<1> USE DEF HealthInv
<1>1. CASE Render
  <2>1. /\ judging = "render" /\ (verdictReport' = "ok" => report_status = "ok")
        /\ UNCHANGED <<ticks, wedged, probed>>
    BY <1>1 DEF Render, supervised
  <2>2. SUFFICES ASSUME report_status = "ok", Latest.phase = "running", wedged # 0
                 PROVE  ~ probed /\ (TICKS < STALL_TICKS \/ Latest.uptime < STALL_UPTIME)
    BY <2>1 DEF SilenceIsNotHealth, Latest
  <2>3. Fired = {} /\ unevaluated = {}
    BY <2>2 DEF report_status
  <2>4. ~ a1_readiness_down /\ ~ a2_log_stall
    BY <2>3 DEF Fired, Codes
  <2>5. Latest.uptime \in Nat /\ TICKS \in Nat /\ STALL_TICKS \in Nat /\ STALL_UPTIME \in Nat
    <3>1. Len(ticks) \in DOMAIN ticks /\ ticks \in Seq(Samples)
      BY <2>1, JudgeAssumption DEF HealthSound, JudgeInv, SamplesOK
    <3>2. \A t \in Samples : t.uptime \in Nat
      BY DEF Samples
    <3>3. Latest \in Samples
      BY <3>1 DEF Latest
    <3>4. QED
      BY <3>2, <3>3, JudgeAssumption
  <2>6. QED
    BY <2>1, <2>2, <2>3, <2>4, <2>5, SilenceIsProbed, SilenceIsLogged
<1>2. CASE ~ Render
  <2>1. verdictReport' = "ok" => verdictReport = "ok" /\ judging = "done"
    BY <1>2 DEF HealthSound, JudgeNext, MalkuthNext, CollectNext, ActNext, judgeVars, judgement, executor,
       Spawn, SpawnFails, Crash, BeginsToHang, BeginDrain, Drained, Unavailable, ReadStatus, ReadLogs,
       Probe, JudgeInterval, Approve, WindowCloses, ActStarts, check_justification, check_target,
       RegisterApproval, Execute, ExecuteFails
  <2>2. verdictReport = "ok" /\ judging = "done" =>
            ticks' = ticks /\ wedged' \in {wedged, 0} /\ probed' = probed
    BY <1>2 DEF JudgeNext, MalkuthNext, CollectNext, ActNext, judgeVars, supervised, judgement, executor,
       Replaced,
       Spawn, SpawnFails, Crash, BeginsToHang, BeginDrain, Drained, Unavailable, ReadStatus, ReadLogs,
       Probe, JudgeInterval, Approve, WindowCloses, ActStarts, check_justification, check_target,
       RegisterApproval, Execute, ExecuteFails
  <2>3. QED
    BY <2>1, <2>2 DEF SilenceIsNotHealth, Latest
<1>3. QED
  BY <1>1, <1>2

LEMMA HealthStart == JudgeInit => HealthInv
<1>1. SUFFICES ASSUME JudgeInit PROVE HealthInv
  OBVIOUS
<1>2. ticks = <<>> /\ DOMAIN ticks = {} /\ sound = 0 /\ wedged = 0 /\ hung = FALSE
      /\ judging = "status" /\ verdictReport = "none"
  BY <1>1 DEF JudgeInit
<1>3. HealthSound
  BY <1>2 DEF HealthSound
<1>4. SoundKept /\ WedgedKept /\ SilentKept /\ SilenceIsNotHealth
  BY <1>2 DEF SoundKept, WedgedKept, SilentKept, SilenceIsNotHealth
<1>5. QED
  BY <1>3, <1>4 DEF HealthInv

\* All samples of a worker that runs well are of one start, that was not troubled.
LEMMA RecoveredIsNotBlamed ==
    ASSUME JudgeInv, HealthInv
    PROVE  RecoveredNotBlamed
<1>1. SUFFICES ASSUME judging = "render", sound # 0
               PROVE  /\ ~ b1_crash_loop /\ ~ b3_drain_stalled /\ ~ c2_spawn_failure
                      /\ probed => ~ c1_silent_hang
  BY DEF RecoveredNotBlamed, Fired, CriticalCodes
<1>2. Len(ticks) = TICKS /\ DOMAIN ticks = 1..TICKS /\ TICKS \in Nat /\ TICKS >= 2 /\ restarts \in Nat
  BY <1>1, JudgeAssumption DEF HealthInv, HealthSound, JudgeInv, SamplesOK
<1>3. \A i \in DOMAIN ticks : SoundTick(ticks[i])
  BY <1>1 DEF HealthInv, SoundKept
<1>4. Len(ticks) \in DOMAIN ticks
  BY <1>2
<1>5. RestartCounts = {restarts}
  BY <1>3, <1>4 DEF RestartCounts, SoundTick
<1>6. Delta = 0
  BY <1>2, <1>5 DEF Delta, Max, Min
<1>7. ~ b1_crash_loop
  BY <1>3, <1>4, <1>6, JudgeAssumption DEF b1_crash_loop, Saturated, Recovered, Latest, SoundTick
<1>8. ~ b3_drain_stalled /\ ~ c2_spawn_failure
  BY <1>3, <1>4 DEF b3_drain_stalled, c2_spawn_failure, Latest, SoundTick
<1>9. ASSUME probed
      PROVE  ~ c1_silent_hang
  <2>1. \A i \in ProbeHistory : ticks[i].probe = "ok" /\ i >= i
    <3>1. SUFFICES ASSUME NEW i \in ProbeHistory PROVE ticks[i].probe = "ok" /\ i >= i
      OBVIOUS
    <3>2. i \in 1..TICKS /\ ticks[i] \in Samples /\ ticks[i].probe # "none"
      BY <1>2, <3>1 DEF ProbeHistory, JudgeInv, SamplesOK
    <3>3. QED
      BY <1>2, <1>3, <1>9, <3>2 DEF Samples, SoundTick
  <2>2. {i \in ProbeHistory : \A j \in ProbeHistory : j >= i => ticks[j].probe # "ok"} = {}
    BY <2>1
  <2>3. FailingTicks = 0
    BY <2>2, FS_EmptySet DEF FailingTicks
  <2>4. QED
    BY <2>3, JudgeAssumption DEF c1_silent_hang
<1>10. QED
  BY <1>7, <1>8, <1>9

-----------------------------------------------------------------------------
(* The orphan janitor *)

\* A process of a job that runs is no older than the job's Worker.
BuildsSound ==
    /\ \A s \in Slots : worker[s] <= clock
    /\ \A p \in BuildPids : build[p] # NoBuild /\ build[p].live =>
          worker[build[p].slot] # 0 /\ worker[build[p].slot] <= build[p].born

\* While it scans, a Worker is one the janitor has seen or started after it looked,
\* less than GRACE ago; and what it means to kill is of no job that runs.
ScanSound ==
    /\ sweep = "scan" =>
          /\ sighted <= clock /\ clock < sighted + GRACE
          /\ \A s \in Slots : worker[s] # 0 => worker[s] = workersSeen[s] \/ worker[s] >= sighted
    /\ \A v \in victims :
          /\ v[2] < clock
          /\ build[v[1]] # NoBuild /\ build[v[1]].born = v[2] => ~ build[v[1]].live

JanitorInv == JanitorTypeOK /\ BuildsSound /\ ScanSound

LEMMA JanitorTypeStep ==
    ASSUME JanitorTypeOK, [JanitorNext]_janitorVars
    PROVE  JanitorTypeOK'
<1> USE DEF JanitorTypeOK, machine, cycle
<1>0. /\ MaxClock \in Nat \ {0} /\ clock \in Nat
      /\ \A p \in BuildPids : build[p] # NoBuild =>
            build[p] \in Builds /\ build[p].slot \in Slots /\ build[p].born \in Clock
  BY JanitorAssumption DEF Clock, Builds
<1>1. CASE ClockTicks
  BY <1>0, <1>1 DEF ClockTicks, Clock
<1>2. CASE \E s \in Slots : JobStarts(s)
  BY <1>2 DEF JobStarts
<1>3. CASE \E s \in Slots : CancelRequested(s)
  BY <1>3 DEF CancelRequested
<1>4. CASE \E s \in Slots, p \in BuildPids : BuildStarts(s, p)
  <2>1. PICK s \in Slots, p \in BuildPids : BuildStarts(s, p)
    BY <1>4
  <2>2. PICK attached \in BOOLEAN :
           build' = [build EXCEPT ![p] = [slot |-> s, born |-> clock, attached |-> attached,
                                          live |-> TRUE]]
    BY <2>1 DEF BuildStarts
  <2>3. [slot |-> s, born |-> clock, attached |-> attached, live |-> TRUE] \in Builds
    BY DEF Builds
  <2>4. build' \in [BuildPids -> Builds \cup {NoBuild}]
    BY <2>2, <2>3
  <2>5. QED
    BY <2>1, <2>4 DEF BuildStarts
<1>5. CASE \E p \in BuildPids : BuildExits(p)
  BY <1>5 DEF BuildExits
<1>6. ASSUME NEW b \in Builds PROVE Orphaned(b) \in Builds
  BY <1>6 DEF Orphaned, Builds
<1>7. CASE \E s \in Slots : JobEnds(s)
  <2>1. PICK s \in Slots : JobEnds(s)
    BY <1>7
  <2>2. build' \in [BuildPids -> Builds \cup {NoBuild}]
    <3>1. \A p \in BuildPids : p \in OfJob(s) => build[p] \in Builds
      BY <1>0 DEF OfJob
    <3>2. QED
      BY <1>6, <2>1, <3>1 DEF JobEnds
  <2>3. worker' \in [Slots -> Clock \cup {0}]
    BY <2>1 DEF JobEnds
  <2>4. QED
    BY <2>1, <2>2, <2>3 DEF JobEnds
<1>8. CASE SweepStarts
  BY <1>8 DEF SweepStarts
<1>9. CASE \E s \in Slots : CheckSlot(s)
  <2>1. PICK s \in Slots : CheckSlot(s)
    BY <1>9
  <2>2. \A named, loaded : SlotUnit(s, named, loaded) \in {s, 0}
    BY DEF SlotUnit, ServesHome
  <2>3. suspect' \in (Slots \X Clock) \cup {NoSuspect} /\ sweep' \in {sweep, "restart"}
    BY <2>1, <2>2 DEF CheckSlot, IsZombie
  <2>4. QED
    BY <2>1, <2>3 DEF CheckSlot
<1>10. CASE Restarts
  <2>1. build' \in [BuildPids -> Builds \cup {NoBuild}]
    <3>1. \A s : \A p \in BuildPids : p \in OfJob(s) => build[p] \in Builds
      BY <1>0 DEF OfJob
    <3>2. QED
      BY <1>6, <1>10, <3>1 DEF Restarts
  <2>2. worker' \in [Slots -> Clock \cup {0}]
    BY <1>10 DEF Restarts
  <2>3. QED
    BY <1>10, <2>1, <2>2 DEF Restarts
<1>11. CASE LookForWorkers \/ SweepEnds
  BY <1>11 DEF LookForWorkers, SweepEnds
<1>12. CASE ScanBuilds
  <2>1. victims' \subseteq BuildPids \X Clock
    BY <1>0, <1>12 DEF ScanBuilds
  <2>2. QED
    BY <1>12, <2>1 DEF ScanBuilds
<1>13. CASE KillNext
  BY <1>13 DEF KillNext
<1>14. CASE UNCHANGED janitorVars
  BY <1>14 DEF janitorVars
<1>15. QED
  BY <1>1, <1>2, <1>3, <1>4, <1>5, <1>7, <1>8, <1>9, <1>10, <1>11, <1>12, <1>13, <1>14
     DEF JanitorNext, Machine, Sweep

LEMMA JanitorSoundStep ==
    ASSUME JanitorInv, [JanitorNext]_janitorVars
    PROVE  BuildsSound' /\ ScanSound'
<1> USE DEF BuildsSound, ScanSound, machine, cycle
<1>0. /\ JanitorTypeOK /\ BuildsSound /\ ScanSound
      /\ clock \in Nat /\ clock > 0 /\ GRACE \in Nat \ {0} /\ sighted \in Nat
      /\ worker \in [Slots -> Nat] /\ build \in [BuildPids -> Builds \cup {NoBuild}]
      /\ NoBuild \notin Builds
      /\ \A v \in victims : v[1] \in BuildPids /\ v[2] \in Nat
      /\ \A p \in BuildPids : build[p] # NoBuild => build[p].slot \in Slots /\ build[p].born \in Nat
  BY JanitorAssumption, BuildsAssumption DEF JanitorInv, JanitorTypeOK, Clock, Builds
<1>1. CASE ClockTicks
  BY <1>0, <1>1 DEF ClockTicks
<1>2. CASE \E s \in Slots : JobStarts(s)
  BY <1>0, <1>2 DEF JobStarts
<1>3. CASE \E s \in Slots : CancelRequested(s)
  BY <1>0, <1>3 DEF CancelRequested
<1>4. CASE \E s \in Slots, p \in BuildPids : BuildStarts(s, p)
  BY <1>0, <1>4 DEF BuildStarts
<1>5. CASE \E p \in BuildPids : BuildExits(p)
  BY <1>0, <1>5 DEF BuildExits
<1>6. \A b \in Builds : /\ Orphaned(b).slot = b.slot /\ Orphaned(b).born = b.born
                        /\ Orphaned(b).live = FALSE
  BY DEF Orphaned, Builds
<1>7. ASSUME NEW s \in Slots,
             worker' = [worker EXCEPT ![s] = 0],
             \A p \in BuildPids : IF p \in OfJob(s) THEN build'[p] \in {NoBuild, Orphaned(build[p])}
                                  ELSE build'[p] = build[p],
             UNCHANGED <<clock, cancel, workersSeen, sighted, victims>>,
             sweep' = "scan" => sweep = "scan"
      PROVE  BuildsSound' /\ ScanSound'
  <2>1. \A t \in Slots : worker'[t] = IF t = s THEN 0 ELSE worker[t]
    BY <1>0, <1>7
  <2>2. ASSUME NEW p \in BuildPids, build'[p] # NoBuild
        PROVE  /\ build[p] # NoBuild /\ build'[p].slot = build[p].slot
               /\ build'[p].born = build[p].born
               /\ build'[p].live => build[p].live /\ build[p].slot # s
    <3>1. CASE p \in OfJob(s)
      BY <1>0, <1>6, <1>7, <2>2, <3>1 DEF OfJob
    <3>2. CASE p \notin OfJob(s)
      BY <1>0, <1>7, <2>2, <3>2 DEF OfJob
    <3>3. QED
      BY <3>1, <3>2
  <2>3. BuildsSound'
    BY <1>0, <1>7, <2>1, <2>2
  <2>4. ScanSound'
    BY <1>0, <1>7, <2>1, <2>2
  <2>5. QED
    BY <2>3, <2>4
<1>8. CASE \E s \in Slots : JobEnds(s)
  <2>1. PICK s \in Slots : JobEnds(s)
    BY <1>8
  <2>2. \A p \in BuildPids : IF p \in OfJob(s) THEN build'[p] \in {NoBuild, Orphaned(build[p])}
                             ELSE build'[p] = build[p]
    BY <2>1 DEF JobEnds
  <2>3. /\ worker' = [worker EXCEPT ![s] = 0]
        /\ UNCHANGED <<clock, cancel, sweep, workersSeen, sighted, victims>>
    BY <2>1 DEF JobEnds
  <2>4. QED
    BY <1>7, <2>2, <2>3
<1>9. CASE SweepStarts \/ SweepEnds \/ \E s \in Slots : CheckSlot(s)
  BY <1>0, <1>9 DEF SweepStarts, SweepEnds, CheckSlot
<1>10. CASE Restarts
  <2>1. CASE UNCHANGED <<worker, build>>
    BY <1>0, <1>10, <2>1 DEF Restarts
  <2>2. CASE suspect[1] \in Slots /\ ~ UNCHANGED <<worker, build>>
    <3>1. \A p \in BuildPids : IF p \in OfJob(suspect[1]) THEN build'[p] \in {NoBuild, Orphaned(build[p])}
                               ELSE build'[p] = build[p]
      BY <1>10, <2>2 DEF Restarts
    <3>2. /\ worker' = [worker EXCEPT ![suspect[1]] = 0] /\ sweep' = "zombies"
          /\ UNCHANGED <<clock, cancel, workersSeen, sighted, victims>>
      BY <1>10, <2>2 DEF Restarts
    <3>3. QED
      BY <1>7, <2>2, <3>1, <3>2
  <2>3. CASE suspect[1] \notin Slots
    <3>1. \A p \in BuildPids : p \notin OfJob(suspect[1])
      BY <1>0, <2>3 DEF OfJob
    <3>2. UNCHANGED <<worker, build>>
      BY <1>0, <1>10, <2>3, <3>1 DEF Restarts
    <3>3. QED
      BY <2>1, <3>2
  <2>4. QED
    BY <2>1, <2>2, <2>3
<1>11. CASE LookForWorkers
  BY <1>0, <1>11 DEF LookForWorkers
<1>12. CASE ScanBuilds
  <2>1. ASSUME NEW p \in BuildPids, build[p] # NoBuild, IsOrphan(build[p])
        PROVE  ~ build[p].live /\ build[p].born < clock
    BY <1>0, <1>12, <2>1 DEF ScanBuilds, IsOrphan
  <2>2. \A v \in victims' : \E p \in BuildPids :
           v = <<p, build[p].born>> /\ build[p] # NoBuild /\ IsOrphan(build[p])
    BY <1>12 DEF ScanBuilds
  <2>3. UNCHANGED <<clock, worker, build>> /\ sweep' = "kill"
    BY <1>12 DEF ScanBuilds
  <2>4. QED
    BY <1>0, <2>1, <2>2, <2>3
<1>13. CASE KillNext
  BY <1>0, <1>13 DEF KillNext
<1>14. CASE UNCHANGED janitorVars
  BY <1>0, <1>14 DEF janitorVars
<1>15. QED
  BY <1>1, <1>2, <1>3, <1>4, <1>5, <1>8, <1>9, <1>10, <1>11, <1>12, <1>13, <1>14
     DEF JanitorNext, Machine, Sweep

LEMMA JanitorStart ==
    ASSUME JanitorInit
    PROVE  JanitorInv
  BY JanitorAssumption DEF JanitorInit, JanitorInv, JanitorTypeOK, BuildsSound, ScanSound, Clock

LEMMA LiveJobsKeptStep ==
    ASSUME JanitorInv, [JanitorNext]_janitorVars
    PROVE  LiveJobsKept
<1>1. \A v \in victims : build[v[1]] # NoBuild /\ build[v[1]].born = v[2] => ~ build[v[1]].live
  BY DEF JanitorInv, ScanSound
<1>2. ASSUME suspect' \notin {suspect, NoSuspect}
      PROVE  /\ worker[suspect'[1]] = suspect'[2] /\ cancel[suspect'[1]] > worker[suspect'[1]]
             /\ clock - cancel[suspect'[1]] >= CANCEL_GRACE
  <2>1. PICK s \in Slots : CheckSlot(s)
    BY <1>2 DEF JanitorNext, Machine, Sweep, ClockTicks, JobStarts, JobEnds, CancelRequested,
       BuildStarts, BuildExits, SweepStarts, Restarts, LookForWorkers, ScanBuilds, KillNext,
       SweepEnds, janitorVars, machine, cycle
  <2>2. \A named, loaded : SlotUnit(s, named, loaded) \in {s, 0}
    BY DEF SlotUnit, ServesHome
  <2>3. suspect' = <<s, worker[s]>> /\ IsZombie(s)
    BY <1>2, <2>1, <2>2 DEF CheckSlot
  <2>4. worker[s] \in Nat /\ cancel[s] \in Nat
    BY JanitorAssumption DEF JanitorInv, JanitorTypeOK, Clock
  <2>5. QED
    BY <2>3, <2>4 DEF IsZombie
<1>3. QED
  BY <1>1, <1>2 DEF LiveJobsKept

-----------------------------------------------------------------------------
(* The branch sweep *)

\* What is written is new.  A branch the sweep has listed is there until the sweep
\* deletes it, and its files only move on; and where nothing was committed to the
\* branch in hand since it was listed, master has had what it touched.
BranchesSound ==
    /\ written \in Nat
    /\ baseBranch \in [Tracked -> 0..written]
    /\ DOMAIN onBase = Tracked
    /\ \A f \in Tracked : baseBranch[f] \in onBase[f]
    /\ \A b \in DOMAIN topicBranches :
          topicBranches[b] \in [tip : [Tracked -> 0..written], fork : [Tracked -> 0..written],
                               upstream : {"none", "alive", "gone"}]
    /\ DOMAIN broom = {"step", "listed", "busy", "branch", "unread"}

\* The patch of a branch is of the tip it had some time after it was listed.
PatchBetween(b, p) ==
    /\ p = [of |-> b, tip |-> p.tip] /\ p.tip \in [Tracked -> 0..written]
    /\ \A f \in Tracked : /\ broom.listed[b].tip[f] <= p.tip[f]
                          /\ p.tip[f] <= topicBranches[b].tip[f]

ListedSound ==
    /\ broom.step # "idle" =>
          \A b \in DOMAIN broom.listed :
              /\ b \in DOMAIN topicBranches
              /\ broom.listed[b].tip \in [Tracked -> 0..written]
              /\ \A f \in Tracked : broom.listed[b].tip[f] <= topicBranches[b].tip[f]
    /\ broom.step \in {"patch", "delete"} =>
          /\ broom.branch \in DOMAIN broom.listed
          /\ ~broom.unread /\ topicBranches[broom.branch].tip = broom.listed[broom.branch].tip =>
                \A f \in Touched(broom.branch) \ QuotedPaths :
                    topicBranches[broom.branch].tip[f] \in onBase[f]
    /\ broom.step = "delete" =>
          /\ PatchName[broom.branch] \in DOMAIN patches
          /\ PatchBetween(broom.branch, patches[PatchName[broom.branch]])

BranchesInv == BranchesSound /\ ListedSound

LEMMA BranchesCases ==
    ASSUME [BranchesNext]_branchVars
    PROVE  \/ \E b \in Topics : \/ WorktreeCreate(b) \/ WorktreeRemove(b) \/ PushBranch(b)
                                \/ PullEnds(b)
           \/ \E b \in Topics, blind \in BOOLEAN : PickBranch(b, blind)
           \/ \E b \in Topics, f \in Tracked : CommitTo(b, f)
           \/ \E f \in Tracked : MasterCommits(f)
           \/ StartBroom \/ WritePatch \/ DeleteBranch \/ EndBroom
           \/ UNCHANGED branchVars
  BY DEF BranchesNext

\* A pull request that ends leaves the branch its tip; merged, it moves the merge base there.
LEMMA PullLeaves ==
    ASSUME BranchesSound, NEW b \in Topics, PullEnds(b)
    PROVE  /\ b \in DOMAIN topicBranches /\ DOMAIN topicBranches' = DOMAIN topicBranches
           /\ \A x \in DOMAIN topicBranches : x # b => topicBranches'[x] = topicBranches[x]
           /\ \/ topicBranches'[b] = [tip |-> topicBranches[b].tip, fork |-> topicBranches[b].fork,
                                      upstream |-> "gone"]
              \/ topicBranches'[b] = [tip |-> topicBranches[b].tip, fork |-> topicBranches[b].tip,
                                      upstream |-> "gone"]
<1>1. b \in DOMAIN topicBranches
  BY DEF PullEnds
<1>2. topicBranches[b] \in [tip : [Tracked -> 0..written], fork : [Tracked -> 0..written],
                            upstream : {"none", "alive", "gone"}]
  BY <1>1 DEF BranchesSound
<1>3. \/ topicBranches' = [topicBranches EXCEPT ![b].upstream = "gone"]
      \/ topicBranches' = [topicBranches EXCEPT ![b].upstream = "gone",
                                                ![b].fork = topicBranches[b].tip]
      \/ topicBranches' = [topicBranches EXCEPT ![b].upstream = "gone", ![b].fork = @]
  BY DEF PullEnds
<1>4. CASE topicBranches' = [topicBranches EXCEPT ![b].upstream = "gone"]
  BY <1>1, <1>2, <1>4
<1>5. CASE topicBranches' = [topicBranches EXCEPT ![b].upstream = "gone",
                                                  ![b].fork = topicBranches[b].tip]
  BY <1>1, <1>2, <1>5
<1>6. CASE topicBranches' = [topicBranches EXCEPT ![b].upstream = "gone", ![b].fork = @]
  BY <1>1, <1>2, <1>6
<1>7. QED
  BY <1>3, <1>4, <1>5, <1>6

LEMMA BranchesSoundStep ==
    ASSUME BranchesSound, [BranchesNext]_branchVars
    PROVE  BranchesSound'
<1> USE DEF BranchesSound
<1>1. ASSUME NEW b \in Topics, WorktreeCreate(b)
      PROVE  BranchesSound'
  BY <1>1 DEF WorktreeCreate, Put
<1>2. ASSUME NEW b \in Topics, WorktreeRemove(b) \/ PushBranch(b)
      PROVE  BranchesSound'
  <2>1. CASE WorktreeRemove(b)
    BY <2>1 DEF WorktreeRemove
  <2>2. CASE PushBranch(b)
    BY <2>2 DEF PushBranch
  <2>3. QED
    BY <1>2, <2>1, <2>2
<1>12. ASSUME NEW b \in Topics, NEW blind \in BOOLEAN, PickBranch(b, blind)
      PROVE  BranchesSound'
  BY <1>12 DEF PickBranch
<1>3. ASSUME NEW b \in Topics, PullEnds(b)
      PROVE  BranchesSound'
  <2>1. /\ written' = written /\ broom' = broom /\ b \in DOMAIN topicBranches
        /\ onBase' = [f \in Tracked |-> onBase[f] \cup {baseBranch'[f]}]
    BY <1>3 DEF PullEnds
  <2>2. baseBranch' \in [Tracked -> 0..written]
    BY <1>3, <2>1 DEF PullEnds
  <2>3. /\ DOMAIN topicBranches' = DOMAIN topicBranches
        /\ \A x \in DOMAIN topicBranches : x # b => topicBranches'[x] = topicBranches[x]
    BY <1>3, PullLeaves
  <2>4. topicBranches'[b] \in [tip : [Tracked -> 0..written], fork : [Tracked -> 0..written],
                               upstream : {"none", "alive", "gone"}]
    <3>1. /\ topicBranches[b].tip \in [Tracked -> 0..written]
          /\ topicBranches[b].fork \in [Tracked -> 0..written]
      BY <2>1
    <3>2. PICK fork \in {topicBranches[b].tip, topicBranches[b].fork} :
             topicBranches'[b] = [tip |-> topicBranches[b].tip, fork |-> fork, upstream |-> "gone"]
      BY <1>3, PullLeaves
    <3>3. QED
      BY <3>1, <3>2
  <2>5. QED
    BY <2>1, <2>2, <2>3, <2>4
<1>4. ASSUME NEW b \in Topics, NEW f \in Tracked, CommitTo(b, f)
      PROVE  BranchesSound'
  <2>1. /\ b \in DOMAIN topicBranches /\ written' = written + 1
        /\ topicBranches' = [topicBranches EXCEPT ![b].tip[f] = written + 1]
        /\ UNCHANGED <<baseBranch, onBase, broom>>
    BY <1>4 DEF CommitTo
  <2>2. /\ 0..written \subseteq 0..written' /\ written + 1 \in 0..written'
    BY <2>1
  <2>3. topicBranches[b].tip \in [Tracked -> 0..written]
    BY <2>1
  <2>4. [topicBranches[b].tip EXCEPT ![f] = written + 1] \in [Tracked -> 0..written']
    BY <2>2, <2>3
  <2>5. \A x \in DOMAIN topicBranches :
           topicBranches[x] \in [tip : [Tracked -> 0..written'], fork : [Tracked -> 0..written'],
                                upstream : {"none", "alive", "gone"}]
    BY <2>2
  <2>6. topicBranches'[b] = [topicBranches[b] EXCEPT
                                !.tip = [topicBranches[b].tip EXCEPT ![f] = written + 1]]
    BY <2>1
  <2>7. topicBranches'[b] \in [tip : [Tracked -> 0..written'], fork : [Tracked -> 0..written'],
                               upstream : {"none", "alive", "gone"}]
    <3>1. topicBranches[b] \in [tip : [Tracked -> 0..written'], fork : [Tracked -> 0..written'],
                               upstream : {"none", "alive", "gone"}]
      BY <2>1, <2>5
    <3> DEFINE tip == [topicBranches[b].tip EXCEPT ![f] = written + 1]
    <3>2. tip \in [Tracked -> 0..written']
      BY <2>4
    <3>3. topicBranches'[b] = [topicBranches[b] EXCEPT !.tip = tip]
      BY <2>6
    <3> HIDE DEF tip
    <3>4. QED
      BY <3>1, <3>2, <3>3
  <2>8. /\ DOMAIN topicBranches' = DOMAIN topicBranches
        /\ \A x \in DOMAIN topicBranches \ {b} : topicBranches'[x] = topicBranches[x]
    BY <2>1
  <2>9. \A x \in DOMAIN topicBranches' :
           topicBranches'[x] \in [tip : [Tracked -> 0..written'], fork : [Tracked -> 0..written'],
                                 upstream : {"none", "alive", "gone"}]
    BY <2>5, <2>7, <2>8
  <2>10. written' \in Nat /\ baseBranch' \in [Tracked -> 0..written']
    BY <2>1, <2>2
  <2>11. /\ DOMAIN onBase' = Tracked /\ \A x \in Tracked : baseBranch'[x] \in onBase'[x]
         /\ DOMAIN broom' = {"step", "listed", "busy", "branch", "unread"}
    BY <2>1
  <2>12. QED
    BY <2>9, <2>10, <2>11
<1>5. ASSUME NEW f \in Tracked, MasterCommits(f)
      PROVE  BranchesSound'
  BY <1>5 DEF MasterCommits
<1>6. CASE StartBroom
  BY <1>6 DEF StartBroom
<1>7. CASE WritePatch
  BY <1>7 DEF WritePatch
<1>8. CASE DeleteBranch
  BY <1>8 DEF DeleteBranch, RestOf
<1>9. CASE EndBroom
  BY <1>9 DEF EndBroom
<1>10. CASE UNCHANGED branchVars
  BY <1>10 DEF branchVars
<1>11. QED
  BY <1>1, <1>2, <1>3, <1>4, <1>5, <1>6, <1>7, <1>8, <1>9, <1>10, <1>12, BranchesCases

\* Where the sweep's own record stays as it is, it stays true if branches and master only
\* move on: a branch keeps its tip and touches no more than it did, or gets a file that is new.
LEMMA ListedKept ==
    ASSUME BranchesSound, BranchesSound', ListedSound, broom' = broom, patches' = patches,
           written <= written',
           \A b \in DOMAIN topicBranches :
              /\ b \in DOMAIN topicBranches'
              /\ \/ /\ topicBranches'[b].tip = topicBranches[b].tip
                    /\ \A f \in Tracked : \/ topicBranches'[b].fork[f] = topicBranches[b].fork[f]
                                          \/ topicBranches'[b].fork[f] = topicBranches[b].tip[f]
                 \/ \E f \in Tracked :
                       /\ topicBranches'[b].tip[f] > written
                       /\ \A g \in Tracked \ {f} :
                             topicBranches'[b].tip[g] = topicBranches[b].tip[g],
           \A f \in Tracked : onBase[f] \subseteq onBase'[f]
    PROVE  ListedSound'
<1> USE DEF BranchesSound, ListedSound
<1>1. ASSUME NEW b \in DOMAIN topicBranches
      PROVE  /\ b \in DOMAIN topicBranches'
             /\ \A f \in Tracked : topicBranches[b].tip[f] <= topicBranches'[b].tip[f]
  <2>1. /\ topicBranches[b].tip \in [Tracked -> 0..written]
        /\ topicBranches'[b].tip \in [Tracked -> 0..written'] /\ written' \in Nat
    OBVIOUS
  <2>2. ASSUME NEW f \in Tracked PROVE topicBranches[b].tip[f] <= topicBranches'[b].tip[f]
    <3>1. /\ topicBranches[b].tip[f] \in 0..written /\ written \in Nat
          /\ topicBranches'[b].tip[f] \in 0..written'
      BY <2>1, <2>2
    <3>2. CASE topicBranches'[b].tip = topicBranches[b].tip
      BY <3>1, <3>2
    <3>3. CASE topicBranches'[b].tip[f] > written
      BY <3>1, <3>3
    <3>4. CASE topicBranches'[b].tip[f] = topicBranches[b].tip[f]
      BY <3>1, <3>4
    <3>5. QED
      BY <2>2, <3>2, <3>3, <3>4
  <2>3. b \in DOMAIN topicBranches'
    OBVIOUS
  <2>4. QED
    BY <2>2, <2>3
<1>2. broom.step # "idle" =>
          \A b \in DOMAIN broom.listed :
              /\ b \in DOMAIN topicBranches'
              /\ broom.listed[b].tip \in [Tracked -> 0..written']
              /\ \A f \in Tracked : broom.listed[b].tip[f] <= topicBranches'[b].tip[f]
  <2> SUFFICES ASSUME broom.step # "idle", NEW b \in DOMAIN broom.listed
               PROVE  /\ b \in DOMAIN topicBranches'
                      /\ broom.listed[b].tip \in [Tracked -> 0..written']
                      /\ \A f \in Tracked : broom.listed[b].tip[f] <= topicBranches'[b].tip[f]
    OBVIOUS
  <2>1. /\ b \in DOMAIN topicBranches /\ broom.listed[b].tip \in [Tracked -> 0..written]
        /\ \A f \in Tracked : broom.listed[b].tip[f] <= topicBranches[b].tip[f]
    OBVIOUS
  <2>2. written' \in Nat /\ written \in Nat
    OBVIOUS
  <2>3. /\ topicBranches[b].tip \in [Tracked -> 0..written]
        /\ topicBranches'[b].tip \in [Tracked -> 0..written']
    BY <2>1, <1>1
  <2>4. QED
    BY <2>1, <2>2, <2>3, <1>1
<1>3. ASSUME broom.step \in {"patch", "delete"}, ~broom.unread,
             topicBranches'[broom.branch].tip = broom.listed[broom.branch].tip
      PROVE  \A f \in Touched(broom.branch)' \ QuotedPaths :
                topicBranches'[broom.branch].tip[f] \in onBase'[f]
  <2> DEFINE b == broom.branch
  <2>1. /\ b \in DOMAIN broom.listed /\ b \in DOMAIN topicBranches
        /\ broom.listed[b].tip \in [Tracked -> 0..written]
    BY <1>3
  <2>2. /\ topicBranches'[b].tip = topicBranches[b].tip
        /\ \A f \in Tracked : \/ topicBranches'[b].fork[f] = topicBranches[b].fork[f]
                              \/ topicBranches'[b].fork[f] = topicBranches[b].tip[f]
    BY <1>3, <2>1
  <2>3. \A f \in Touched(b) \ QuotedPaths : topicBranches[b].tip[f] \in onBase[f]
    BY <1>3, <2>2
  <2>4. \A f \in Touched(b)' : f \in Touched(b)
    BY <2>2, <1>3 DEF Touched
  <2>5. QED
    BY <2>2, <2>3, <2>4, <1>3 DEF Touched
<1>5. ASSUME broom.step = "delete"
      PROVE  /\ PatchName[broom.branch] \in DOMAIN patches'
             /\ PatchBetween(broom.branch, patches[PatchName[broom.branch]])'
  <2> DEFINE b == broom.branch
             p == patches[PatchName[b]]
  <2>1. b \in DOMAIN broom.listed /\ b \in DOMAIN topicBranches /\ PatchName[b] \in DOMAIN patches
    BY <1>5
  <2>2. /\ p = [of |-> b, tip |-> p.tip] /\ p.tip \in [Tracked -> 0..written]
        /\ \A f \in Tracked : broom.listed[b].tip[f] <= p.tip[f] /\ p.tip[f] <= topicBranches[b].tip[f]
    BY <1>5 DEF PatchBetween
  <2>3. \A f \in Tracked : topicBranches[b].tip[f] <= topicBranches'[b].tip[f]
    BY <1>1, <2>1
  <2>4. /\ topicBranches[b].tip \in [Tracked -> 0..written] /\ written \in Nat
        /\ topicBranches'[b].tip \in [Tracked -> 0..written'] /\ written' \in Nat
    BY <1>1, <2>1
  <2>5. p.tip \in [Tracked -> 0..written']
    BY <2>2, <2>4
  <2>6. \A f \in Tracked : p.tip[f] <= topicBranches'[b].tip[f]
    BY <2>2, <2>3, <2>4
  <2> HIDE DEF p
  <2>7. QED
    BY <2>1, <2>2, <2>5, <2>6 DEF PatchBetween, p
<1>4. QED
  BY <1>2, <1>3, <1>5

LEMMA ListedSoundStep ==
    ASSUME BranchesSound, BranchesSound', ListedSound, [BranchesNext]_branchVars
    PROVE  ListedSound'
<1>1. ASSUME NEW b \in Topics, WorktreeCreate(b)
      PROVE  ListedSound'
  BY <1>1, ListedKept DEF WorktreeCreate, Put, BranchesSound
<1>2. ASSUME NEW b \in Topics, WorktreeRemove(b) \/ PushBranch(b)
      PROVE  ListedSound'
  <2>1. /\ UNCHANGED <<written, broom, onBase, patches>> /\ written <= written'
        /\ DOMAIN topicBranches' = DOMAIN topicBranches
        /\ \A x \in DOMAIN topicBranches : x # b => topicBranches'[x] = topicBranches[x]
    BY <1>2 DEF WorktreeRemove, PushBranch, BranchesSound
  <2>2. ASSUME b \in DOMAIN topicBranches
        PROVE  /\ topicBranches'[b].tip = topicBranches[b].tip
               /\ topicBranches'[b].fork = topicBranches[b].fork
    <3>1. CASE WorktreeRemove(b)
      BY <3>1 DEF WorktreeRemove
    <3>2. CASE PushBranch(b)
      BY <3>2, <2>2 DEF PushBranch, BranchesSound
    <3>3. QED
      BY <1>2, <3>1, <3>2
  <2>3. QED
    BY <2>1, <2>2, ListedKept
<1>3. ASSUME NEW b \in Topics, PullEnds(b)
      PROVE  ListedSound'
  <2>1. /\ written' = written /\ broom' = broom /\ patches' = patches
        /\ \A f \in Tracked : onBase[f] \subseteq onBase'[f]
    BY <1>3 DEF PullEnds
  <2>2. \A x \in DOMAIN topicBranches :
           /\ x \in DOMAIN topicBranches'
           /\ topicBranches'[x].tip = topicBranches[x].tip
           /\ \A f \in Tracked : \/ topicBranches'[x].fork[f] = topicBranches[x].fork[f]
                                 \/ topicBranches'[x].fork[f] = topicBranches[x].tip[f]
    <3>1. PICK fork \in {topicBranches[b].tip, topicBranches[b].fork} :
             topicBranches'[b] = [tip |-> topicBranches[b].tip, fork |-> fork, upstream |-> "gone"]
      BY <1>3, PullLeaves
    <3>2. /\ topicBranches'[b].tip = topicBranches[b].tip
          /\ topicBranches'[b].fork \in {topicBranches[b].tip, topicBranches[b].fork}
      BY <3>1
    <3>3. /\ DOMAIN topicBranches' = DOMAIN topicBranches
          /\ \A x \in DOMAIN topicBranches : x # b => topicBranches'[x] = topicBranches[x]
      BY <1>3, PullLeaves
    <3>4. QED
      BY <3>2, <3>3
  <2>3. written <= written'
    BY <2>1 DEF BranchesSound
  <2>4. QED
    BY <2>1, <2>2, <2>3, ListedKept
<1>4. ASSUME NEW b \in Topics, NEW f \in Tracked, CommitTo(b, f)
      PROVE  ListedSound'
  <2>1. /\ b \in DOMAIN topicBranches /\ written' = written + 1 /\ broom' = broom
        /\ patches' = patches /\ onBase' = onBase /\ DOMAIN topicBranches' = DOMAIN topicBranches
        /\ \A x \in DOMAIN topicBranches : x # b => topicBranches'[x] = topicBranches[x]
    BY <1>4 DEF CommitTo
  <2>2. /\ topicBranches'[b].tip[f] > written
        /\ \A g \in Tracked \ {f} : topicBranches'[b].tip[g] = topicBranches[b].tip[g]
    BY <1>4, <2>1 DEF CommitTo, BranchesSound
  <2>3. written <= written'
    BY <2>1 DEF BranchesSound
  <2>4. QED
    BY <2>1, <2>2, <2>3, ListedKept
<1>5. ASSUME NEW f \in Tracked, MasterCommits(f)
      PROVE  ListedSound'
  <2>1. /\ written' = written + 1 /\ broom' = broom /\ topicBranches' = topicBranches
        /\ patches' = patches
        /\ onBase' = [onBase EXCEPT ![f] = onBase[f] \cup {written + 1}]
    BY <1>5 DEF MasterCommits
  <2>2. \A g \in Tracked : onBase[g] \subseteq onBase'[g]
    BY <2>1 DEF BranchesSound
  <2>3. written <= written'
    BY <2>1 DEF BranchesSound
  <2>4. QED
    BY <2>1, <2>2, <2>3, ListedKept
<1>6. CASE StartBroom
  BY <1>6 DEF StartBroom, ListedSound, BranchesSound
<1>7. ASSUME NEW b \in Topics, NEW blind \in BOOLEAN, PickBranch(b, blind)
      PROVE  ListedSound'
  <2>1. /\ broom.step = "next" /\ b \in DOMAIN broom.listed
        /\ UNCHANGED <<baseBranch, onBase, topicBranches, written, patches>>
    BY <1>7 DEF PickBranch
  <2>2. CASE broom' = [broom EXCEPT !.listed = [x \in DOMAIN broom.listed \ {b} |->
                                                   broom.listed[x]]]
    BY <2>1, <2>2 DEF ListedSound, BranchesSound
  <2>3. CASE /\ broom' = [broom EXCEPT !.step = "patch", !.branch = b, !.unread = blind]
             /\ NothingOfItsOwn(b, blind) /\ b \in DOMAIN topicBranches
    <3>1. ~blind => \A f \in Touched(b) \ QuotedPaths : topicBranches[b].tip[f] \in onBase[f]
      BY <2>3 DEF NothingOfItsOwn, FileIdentical, TouchedFiles, Touched, BranchesSound
    <3>2. \A x : Touched(x)' = Touched(x)
      BY <2>1 DEF Touched
    <3>3. QED
      BY <2>1, <2>3, <3>1, <3>2 DEF ListedSound, BranchesSound
  <2>4. QED
    BY <1>7, <2>2, <2>3 DEF PickBranch
<1>8. CASE WritePatch
  <2>1. \A x : Touched(x)' = Touched(x)
    BY <1>8 DEF WritePatch, Touched
  <2> DEFINE b == broom.branch
             p == [of |-> b, tip |-> topicBranches[b].tip]
  <2>2. /\ broom' = [broom EXCEPT !.step = "delete"] /\ broom.step = "patch"
        /\ UNCHANGED <<topicBranches, onBase, written>>
        /\ PatchName[b] \in DOMAIN patches' /\ patches'[PatchName[b]] = p
    BY <1>8 DEF WritePatch
  <2>3. b \in DOMAIN broom.listed /\ b \in DOMAIN topicBranches
    BY <1>8, <2>2 DEF ListedSound
  <2>4. /\ topicBranches[b].tip \in [Tracked -> 0..written] /\ written \in Nat
        /\ \A f \in Tracked : broom.listed[b].tip[f] <= topicBranches[b].tip[f]
    BY <2>2, <2>3 DEF ListedSound, BranchesSound
  <2>5. \A f \in Tracked : topicBranches[b].tip[f] <= topicBranches[b].tip[f]
    BY <2>4
  <2>6. broom'.branch = b /\ broom'.listed = broom.listed /\ broom'.step = "delete"
        /\ broom'.unread = broom.unread
    BY <2>2 DEF BranchesSound
  <2>7. PatchBetween(broom.branch, patches[PatchName[broom.branch]])'
    BY <2>2, <2>4, <2>5, <2>6 DEF PatchBetween
  <2>8. QED
    BY <2>1, <2>2, <2>6, <2>7 DEF ListedSound
<1>9. CASE DeleteBranch
  BY <1>9 DEF DeleteBranch, RestOf, ListedSound, BranchesSound
<1>10. CASE EndBroom
  BY <1>10 DEF EndBroom, ListedSound, BranchesSound
<1>11. CASE UNCHANGED branchVars
  BY <1>11, ListedKept DEF branchVars, BranchesSound
<1>12. QED
  BY <1>1, <1>2, <1>3, <1>4, <1>5, <1>6, <1>7, <1>8, <1>9, <1>10, <1>11, BranchesCases

LEMMA BranchesStart ==
    ASSUME BranchesInit
    PROVE  BranchesInv
<1> USE DEF BranchesInit, Empty
<1>1. BranchesSound
  BY DEF BranchesSound
<1>2. ListedSound
  BY DEF ListedSound
<1>3. QED
  BY <1>1, <1>2 DEF BranchesInv

LEMMA SweptWorkKeptStep ==
    ASSUME BranchesInv, [BranchesNext]_branchVars
    PROVE  SweptWorkKept
<1> SUFFICES ASSUME NEW b \in DOMAIN topicBranches \ DOMAIN topicBranches',
                    topicBranches[b].tip = broom.listed[b].tip
             PROVE  /\ PatchName[b] \in DOMAIN patches
                    /\ patches[PatchName[b]] = [of |-> b, tip |-> topicBranches[b].tip]
                    /\ ~broom.unread => \A f \in Touched(b) \ QuotedPaths :
                                           topicBranches[b].tip[f] \in onBase[f]
  BY DEF SweptWorkKept
<1>1. DeleteBranch
  BY BranchesCases DEF WorktreeCreate, Put, WorktreeRemove, PushBranch, PullEnds, PickBranch,
     CommitTo, MasterCommits, StartBroom, WritePatch, EndBroom, branchVars
<1>2. b = broom.branch /\ broom.step = "delete"
  BY <1>1 DEF DeleteBranch, RestOf
<1> DEFINE p == patches[PatchName[b]]
<1>3. /\ PatchName[b] \in DOMAIN patches
      /\ p = [of |-> b, tip |-> p.tip] /\ p.tip \in [Tracked -> 0..written]
      /\ \A f \in Tracked : broom.listed[b].tip[f] <= p.tip[f] /\ p.tip[f] <= topicBranches[b].tip[f]
  BY <1>2 DEF BranchesInv, ListedSound, PatchBetween
<1>4. written \in Nat /\ topicBranches[b].tip \in [Tracked -> 0..written]
  BY <1>2 DEF BranchesInv, BranchesSound
<1>5. p.tip = topicBranches[b].tip
  <2>1. \A f \in Tracked : p.tip[f] = topicBranches[b].tip[f]
    BY <1>3, <1>4
  <2>2. QED
    BY <1>3, <1>4, <2>1
<1>6. ~broom.unread => \A f \in Touched(b) \ QuotedPaths : topicBranches[b].tip[f] \in onBase[f]
  BY <1>2 DEF BranchesInv, ListedSound
<1>7. QED
  BY <1>3, <1>5, <1>6

-----------------------------------------------------------------------------
(* The shutdown of the children: none is started any more, and those alive  *)
(* are those still to reap.                                                 *)

Children == [leader : {"none", "runs", "told", "exited", "killed"}, helper : BOOLEAN]

ServeInv ==
    /\ child \in [Tags -> Children]
    /\ manager = "reap" => \A t \in Tags : Alive(t) => t \in toEnd
    /\ manager = "done" => \A t \in Tags : ~Alive(t)

LEMMA ChildrenStay ==
    ASSUME NEW c \in Children
    PROVE  /\ Terminated(c) \in Children /\ Killed_(c) \in Children
           /\ [c EXCEPT !.leader = "exited"] \in Children
           /\ [c EXCEPT !.helper = TRUE] \in Children
           /\ [leader |-> "runs", helper |-> FALSE] \in Children
BY DEF Children, Terminated, Killed_

LEMMA ServeInvStep ==
    ASSUME ServeInv, [ServeNext]_serveVars
    PROVE  ServeInv'
<1> USE DEF ServeInv, Alive
<1>0. ServeInv
  OBVIOUS
<1>1. CASE WaitForever \/ BeginShutdown \/ SecondSignal \/ AllReaped
  BY <1>1 DEF WaitForever, BeginShutdown, SecondSignal, AllReaped
<1>2. CASE AllTold
  BY <1>2 DEF AllTold, Begun, NoChild
<1>3. ASSUME NEW t \in Tags, ScriptStarts(t) \/ RestartTells(t) \/ RestartStarts(t) PROVE ServeInv'
  <2>1. child' \in [Tags -> Children]
    BY <1>0, <1>3, ChildrenStay DEF ScriptStarts, RestartTells, RestartStarts, Start
  <2>2. manager' \notin {"reap", "done"}
    BY <1>3 DEF ScriptStarts, RestartTells, RestartStarts
  <2>3. QED
    BY <2>1, <2>2
<1>4. ASSUME NEW t \in Tags, ChildExits(t) \/ SpawnsHelper(t) \/ ReadyLine(t) PROVE ServeInv'
  <2>1. child' \in [Tags -> Children]
    <3>1. /\ [child[t] EXCEPT !.leader = "exited"] \in Children
          /\ [child[t] EXCEPT !.helper = TRUE] \in Children
      BY <1>0, ChildrenStay
    <3>2. \/ child' = [child EXCEPT ![t] = [child[t] EXCEPT !.leader = "exited"]]
          \/ child' = [child EXCEPT ![t] = [child[t] EXCEPT !.helper = TRUE]]
          \/ child' = child
      BY <1>4 DEF ChildExits, SpawnsHelper, ReadyLine
    <3>3. QED
      BY <1>0, <3>1, <3>2
  <2>2. \A u \in Tags : Alive(u)' => Alive(u)
    BY <1>0, <1>4 DEF Children, ChildExits, SpawnsHelper, ReadyLine
  <2>3. manager' = manager /\ toEnd' = toEnd
    BY <1>4 DEF ChildExits, SpawnsHelper, ReadyLine
  <2>4. QED
    BY <1>0, <2>1, <2>2, <2>3
<1>5. ASSUME NEW t \in Tags, TermOne(t) \/ ReapOne(t) PROVE ServeInv'
  <2>1. child' \in [Tags -> Children]
    BY <1>0, <1>5, ChildrenStay DEF TermOne, ReapOne
  <2>2. manager' = manager /\ toEnd' = toEnd \ {t}
    BY <1>5 DEF TermOne, ReapOne
  <2>3. ReapOne(t) => /\ ~ Alive(t)'
                      /\ \A u \in Tags : u # t => child'[u] = child[u]
    BY <1>0 DEF ReapOne, Killed_, Children
  <2>4. TermOne(t) => manager = "term"
    BY DEF TermOne
  <2>5. QED
    BY <1>0, <1>5, <2>1, <2>2, <2>3, <2>4
<1>6. CASE UNCHANGED serveVars
  BY <1>6 DEF serveVars
<1>7. QED
  BY <1>1, <1>2, <1>3, <1>4, <1>5, <1>6 DEF ServeNext


-----------------------------------------------------------------------------
(* A reply: the fragments read so far are those of the message the app is   *)
(* at, and an answer kept is one of this request, whole; as long as the     *)
(* reader has refused no frame with its payload unread.                     *)

Frames   == [of : Nat, n : Nat, fin : BOOLEAN]
Messages == [kind : Kinds, replyTo : Nat]

\* The fragments of one message of the app, from its first on.
InOrder(fs) == \A i \in DOMAIN fs : fs[i].of = fs[1].of /\ fs[i].n = i

CdpSound ==
    /\ content \in Seq(Messages) /\ sent = Len(content) /\ next_id \in Nat
    /\ in_message \in BOOLEAN
    /\ fragments \in Seq(Frames) /\ taken \in Seq(Frames)
    /\ sending # NoMessage => sending.of \in 1..sent /\ sending.n \in Nat
    /\ in_message =>
          /\ fragments # <<>> /\ InOrder(fragments)
          /\ \A i \in DOMAIN fragments : ~fragments[i].fin
          /\ sending # NoMessage
          /\ sending.of = fragments[1].of /\ sending.n = Len(fragments)
    /\ taken # <<>> => taken[1].of \in 1..sent
    /\ taken # <<>> => TakenWhole

\* A frame that ends a message leaves the message whole, or drops what was read.
LEMMA DeliverStep ==
    ASSUME CdpSound, NEW message \in Seq(Frames), message # <<>>, InOrder(message),
           \A i \in DOMAIN message : message[i].fin <=> i = Len(message),
           content' \in Seq(Messages), sent' = Len(content'), sent <= sent',
           \A k \in 1..sent : content'[k] = content[k],
           message[1].of \in 1..sent',
           sending' # NoMessage => sending'.of \in 1..sent' /\ sending'.n \in Nat,
           Deliver(message, content'[message[1].of])
    PROVE  CdpSound'
<1> DEFINE what == content'[message[1].of]
<1>1. fragments' = <<>> /\ in_message' = FALSE /\ next_id' = next_id
  BY DEF Deliver, Settles, Waits
<1>2. \/ taken' = taken
      \/ taken' = <<>>
      \/ taken' = message /\ what.replyTo = next_id
  BY DEF Deliver, Settles, Waits
<1>3. CASE taken' = taken
  <2>1. taken # <<>> => taken[1].of \in 1..sent' /\ content'[taken[1].of] = content[taken[1].of]
    BY DEF CdpSound
  <2>2. (taken # <<>> => TakenWhole)'
    BY <1>1, <1>3, <2>1 DEF CdpSound, TakenWhole
  <2>3. QED
    BY <1>1, <1>3, <2>1, <2>2, EmptySeq DEF CdpSound
<1>4. CASE taken' = <<>>
  BY <1>1, <1>4, EmptySeq DEF CdpSound, TakenWhole
<1>5. CASE taken' = message /\ what.replyTo = next_id
  <2>1. (taken # <<>> => TakenWhole)'
    BY <1>1, <1>5 DEF TakenWhole, InOrder
  <2>2. QED
    BY <1>1, <1>5, <2>1, EmptySeq DEF CdpSound
<1>6. QED
  BY <1>2, <1>3, <1>4, <1>5

\* What changes nothing of a kept answer keeps it.
LEMMA RaisesStep ==
    ASSUME CdpSound, NEW code, Raises(code),
           content' \in Seq(Messages), sent' = Len(content'), sent <= sent',
           \A k \in 1..sent : content'[k] = content[k],
           sending' # NoMessage => sending'.of \in 1..sent' /\ sending'.n \in Nat
    PROVE  CdpSound'
<1>1. fragments' = <<>> /\ in_message' = FALSE /\ next_id' = next_id /\ taken' = taken
  BY DEF Raises
<1>2. taken # <<>> => taken[1].of \in 1..sent' /\ content'[taken[1].of] = content[taken[1].of]
  BY DEF CdpSound
<1>3. (taken # <<>> => TakenWhole)'
  BY <1>1, <1>2 DEF CdpSound, TakenWhole
<1>4. QED
  BY <1>1, <1>2, <1>3, EmptySeq DEF CdpSound

LEMMA AppStartsStep ==
    ASSUME CdpSound, AppStarts
    PROVE  CdpSound'
<1>1. PICK fin \in BOOLEAN, kind \in Kinds, id \in 0..next_id :
          /\ content' = Append(content, [kind |-> kind, replyTo |-> id])
          /\ sending' = IF fin THEN NoMessage ELSE [of |-> sent', n |-> 1]
          /\ TextFrame([of |-> sent', n |-> 1, fin |-> fin], content'[sent'])
  BY DEF AppStarts
<1> DEFINE f == [of |-> sent', n |-> 1, fin |-> fin]
           m == [kind |-> kind, replyTo |-> id]
<1>2. sent' = sent + 1 /\ sent \in Nat /\ sent = Len(content) /\ content \in Seq(Messages)
      /\ next_id \in Nat
  BY DEF AppStarts, CdpSound
<1>3. m \in Messages
  BY <1>2 DEF Messages
<1>4. /\ content' \in Seq(Messages) /\ Len(content') = sent'
      /\ \A k \in 1..sent : content'[k] = content[k]
  <2> HIDE DEF m
  <2>1. QED
    BY <1>1, <1>2, <1>3, AppendProperties DEF m
<1>5. f \in Frames /\ f.of = sent' /\ f.n = 1 /\ f.fin = fin
  BY <1>2 DEF Frames
<1>6. sending' # NoMessage => sending'.of \in 1..sent' /\ sending'.n \in Nat
  BY <1>1, <1>2
<1> HIDE DEF f, m
<1>7. TextFrame(f, content'[sent'])
  BY <1>1 DEF f
<1> DEFINE w == <<f>>
<1>8. /\ w \in Seq(Frames) /\ w # <<>> /\ Len(w) = 1 /\ w[1] = f
      /\ \A i \in DOMAIN w : i = 1 /\ w[i] = f
  BY <1>5
<1> HIDE DEF w
<1>9. CASE in_message
  BY <1>2, <1>4, <1>6, <1>7, <1>9, RaisesStep DEF TextFrame
<1>10. CASE ~in_message /\ fin
  <2>1. Deliver(w, content'[w[1].of])
    BY <1>5, <1>7, <1>8, <1>10 DEF TextFrame, w
  <2>2. InOrder(w)
    BY <1>5, <1>8 DEF InOrder
  <2>3. \A i \in DOMAIN w : w[i].fin <=> i = Len(w)
    BY <1>5, <1>8, <1>10
  <2>4. w[1].of \in 1..sent' /\ sent <= sent'
    BY <1>2, <1>5, <1>8
  <2>5. QED
    BY <1>4, <1>6, <1>8, <2>1, <2>2, <2>3, <2>4, DeliverStep
<1>11. CASE ~in_message /\ ~fin
  <2>1. in_message' = TRUE /\ fragments' = w /\ taken' = taken /\ next_id' = next_id
    BY <1>5, <1>7, <1>11 DEF TextFrame, Waits, w
  <2>2. sending' = [of |-> sent', n |-> 1] /\ sending' # NoMessage
    BY <1>1, <1>2, <1>11 DEF NoMessage
  <2>3. taken # <<>> => taken[1].of \in 1..sent' /\ content'[taken[1].of] = content[taken[1].of]
    BY <1>2, <1>4 DEF CdpSound
  <2>4. (taken # <<>> => TakenWhole)'
    BY <2>1, <2>3 DEF CdpSound, TakenWhole
  <2>5. InOrder(fragments') /\ \A i \in DOMAIN fragments' : ~fragments'[i].fin
    BY <1>5, <1>8, <1>11, <2>1 DEF InOrder
  <2>6. taken' \in Seq(Frames) /\ next_id' \in Nat
    BY <2>1 DEF CdpSound
  <2>7. QED
    BY <1>2, <1>4, <1>5, <1>8, <2>1, <2>2, <2>3, <2>4, <2>5, <2>6 DEF CdpSound
<1>12. QED
  BY <1>9, <1>10, <1>11

LEMMA AppContinuesStep ==
    ASSUME CdpSound, AppContinues
    PROVE  CdpSound'
<1>1. PICK fin \in BOOLEAN :
          LET f == [of |-> sending.of, n |-> sending.n + 1, fin |-> fin]
          IN  /\ fin \/ f.n <= MAX_MESSAGE
              /\ sending' = IF fin THEN NoMessage ELSE [of |-> f.of, n |-> f.n]
              /\ ContinuationFrame(f, content[f.of])
  BY DEF AppContinues
<1> DEFINE f == [of |-> sending.of, n |-> sending.n + 1, fin |-> fin]
<1>2. /\ sending # NoMessage /\ UNCHANGED <<sent, content>>
      /\ sending.of \in 1..sent /\ sending.n \in Nat /\ sent \in Nat /\ sent = Len(content)
      /\ content \in Seq(Messages)
  BY DEF AppContinues, CdpSound
<1>3. f \in Frames /\ f.of = sending.of /\ f.n = sending.n + 1 /\ f.fin = fin
  BY <1>2 DEF Frames
<1>4. /\ sending' = IF fin THEN NoMessage ELSE [of |-> f.of, n |-> f.n]
      /\ ContinuationFrame(f, content[f.of])
  BY <1>1
<1>5. sending' # NoMessage => sending'.of \in 1..sent' /\ sending'.n \in Nat
  BY <1>2, <1>3, <1>4
<1> HIDE DEF f
<1>6. CASE ~in_message \/ Len(fragments) + 1 > MAX_MESSAGE
  <2>1. Raises("cdp-protocol")
    BY <1>4, <1>6 DEF ContinuationFrame
  <2>2. QED
    BY <1>2, <1>5, <2>1, RaisesStep
<1>7. CASE in_message /\ ~ (Len(fragments) + 1 > MAX_MESSAGE)
  <2> DEFINE whole == Append(fragments, f)
  <2>1. /\ fragments \in Seq(Frames) /\ fragments # <<>> /\ InOrder(fragments)
        /\ \A i \in DOMAIN fragments : ~fragments[i].fin
        /\ sending.of = fragments[1].of /\ sending.n = Len(fragments)
    BY <1>7 DEF CdpSound
  <2>2. /\ whole \in Seq(Frames) /\ whole # <<>> /\ Len(whole) = Len(fragments) + 1
        /\ Len(fragments) \in Nat /\ Len(fragments) > 0
        /\ DOMAIN fragments = 1..Len(fragments) /\ DOMAIN whole = 1..Len(whole)
        /\ \A i \in 1..Len(fragments) : whole[i] = fragments[i]
        /\ whole[Len(whole)] = f
    BY <1>3, <2>1, AppendProperties, LenProperties
  <2> HIDE DEF whole
  <2>3. InOrder(whole) /\ whole[1].of = sending.of
    BY <1>2, <1>3, <2>1, <2>2 DEF InOrder
  <2>4. \A i \in DOMAIN whole : whole[i].fin <=> (i = Len(whole) /\ fin)
    BY <1>3, <2>1, <2>2
  <2>5. CASE fin
    <3>1. Deliver(whole, content'[whole[1].of])
      BY <1>2, <1>3, <1>4, <1>7, <2>3, <2>5 DEF ContinuationFrame, whole
    <3>2. \A i \in DOMAIN whole : whole[i].fin <=> i = Len(whole)
      BY <2>4, <2>5
    <3>3. QED
      BY <1>2, <1>5, <2>2, <2>3, <3>1, <3>2, DeliverStep
  <2>6. CASE ~fin
    <3>1. fragments' = whole /\ UNCHANGED <<in_message, taken, next_id>>
      BY <1>3, <1>4, <1>7, <2>6 DEF ContinuationFrame, Waits, whole
    <3>2. sending' # NoMessage /\ sending'.of = sending.of /\ sending'.n = Len(whole)
      BY <1>2, <1>3, <1>4, <2>1, <2>2, <2>6 DEF NoMessage
    <3>3. (taken # <<>> => TakenWhole)'
      BY <1>2, <3>1 DEF CdpSound, TakenWhole
    <3>4. \A i \in DOMAIN whole : ~whole[i].fin
      BY <2>4, <2>6
    <3>5. QED
      BY <1>2, <1>5, <1>7, <2>2, <2>3, <3>1, <3>2, <3>3, <3>4 DEF CdpSound
  <2>7. QED
    BY <2>5, <2>6
<1>8. QED
  BY <1>6, <1>7

\* A session none of whose frames was refused unread: there is no way back from the other.
CdpInv == ~garbled => CdpSound

LEMMA CdpInvStep ==
    ASSUME CdpInv, [CdpNext]_cdpVars
    PROVE  CdpInv'
<1>0. SUFFICES ASSUME CdpSound, ~garbled, ~garbled' PROVE CdpSound'
  <2>1. garbled' = garbled \/ garbled' = TRUE
    BY DEF CdpNext, cdpVars, TargetsChange, PollFindsPage, PollTimesOut, Connect, Close, session,
       AppStarts, AppContinues, ControlFrame, IllegalFrame, Misread, ReadTimesOut, Request
  <2>2. CASE garbled' = garbled
    BY <2>2, Zenon DEF CdpInv
  <2>3. CASE garbled' = TRUE
    BY <2>3, Zenon DEF CdpInv
  <2>4. QED
    BY <2>1, <2>2, <2>3
<1>1. CASE TargetsChange \/ PollFindsPage \/ PollTimesOut \/ Connect \/ Close \/ UNCHANGED cdpVars
  <2>1. UNCHANGED <<content, sent, next_id, in_message, fragments, taken, sending>>
    BY <1>1 DEF TargetsChange, PollFindsPage, PollTimesOut, Connect, Close, cdpVars, session
  <2>2. QED
    BY <1>0, <2>1 DEF CdpSound, TakenWhole, InOrder
<1>2. CASE AppStarts
  BY <1>0, <1>2, AppStartsStep
<1>3. CASE AppContinues
  BY <1>0, <1>3, AppContinuesStep
<1>4. CASE ControlFrame \/ IllegalFrame \/ ReadTimesOut
  <2>1. /\ UNCHANGED <<sending, sent, content>>
        /\ Raises("cdp-disconnected") \/ Raises("cdp-protocol") \/ Raises("cdp-timeout")
    BY <1>4 DEF ControlFrame, IllegalFrame, ReadTimesOut
  <2>2. content \in Seq(Messages) /\ sent = Len(content) /\ sent \in Nat
        /\ (sending # NoMessage => sending.of \in 1..sent /\ sending.n \in Nat)
    BY <1>0 DEF CdpSound
  <2>3. QED
    BY <1>0, <2>1, <2>2, RaisesStep
<1>5. ASSUME NEW m \in {"Runtime.evaluate", "Page.enable", "Page.captureScreenshot"}, Request(m)
      PROVE  CdpSound'
  <2>1. /\ next_id' = next_id + 1 /\ taken' = <<>>
        /\ UNCHANGED <<fragments, in_message, sending, sent, content>>
    BY <1>5 DEF Request
  <2>2. QED
    BY <1>0, <2>1, EmptySeq DEF CdpSound, TakenWhole, InOrder
<1>6. ~Misread
  BY <1>0 DEF Misread
<1>7. QED
  BY <1>1, <1>2, <1>3, <1>4, <1>5, <1>6 DEF CdpNext

LEMMA CdpStart ==
    ASSUME CdpInit
    PROVE  CdpInv
<1>1. content = <<>> /\ fragments = <<>> /\ taken = <<>> /\ sent = 0 /\ next_id = 0
      /\ in_message = FALSE /\ sending = NoMessage
  BY DEF CdpInit
<1>2. content \in Seq(Messages) /\ Len(content) = 0 /\ fragments \in Seq(Frames)
      /\ taken \in Seq(Frames)
  BY <1>1
<1>3. taken = <<>>
  BY <1>1
<1>4. QED
  BY <1>1, <1>2, <1>3 DEF CdpInv, CdpSound

LEMMA ServeStart == ServeInit => ServeInv
BY DEF ServeInit, ServeInv, Children, NoChild

-----------------------------------------------------------------------------
(* The heartbeat referee                                                    *)

RoundTyped ==
    /\ saved \in [Guests -> Entries] /\ mem \in [Guests -> Entries] /\ todo \subseteq Guests
    /\ reverted \in [Guests -> Seq(Ages)] /\ lost \in Seq(Ages)

\* Of any two entries of a list the earlier is the older.
Ordered(ages) == \A i, j \in DOMAIN ages : i < j => ages[i] >= ages[j]
Spaced(ages)  == \A i, j \in DOMAIN ages : i < j => ages[i] >= ages[j] + COOLDOWN

\* What the file, or the round, says of a guest keeps to budget and cooldown.
KeptWithin(e) ==
    /\ Len(e.reverts) <= REVERT_BUDGET
    /\ Spaced(e.reverts)
    /\ \A i \in DOMAIN e.reverts : e.reverts[i] >= Least(e.action, COOLDOWN)

ListsSound ==
    /\ Ordered(lost)
    /\ \A g \in Guests : KeptWithin(saved[g]) /\ KeptWithin(mem[g]) /\ Ordered(reverted[g])

\* A guest that the round has not come to stands as it does in the file.
Unvisited(g) == at # "idle" /\ g \in todo /\ ~ (at = "rearm" /\ g = First)
RoundSound ==
    /\ at \in {"revert", "rearm"} => todo # {}
    /\ \A g \in Guests : Unvisited(g) => mem[g].reverts = saved[g].reverts
    /\ at = "revert" => Len(mem[First].reverts) < REVERT_BUDGET /\ mem[First].action >= COOLDOWN

\* What counts: the round's dict, and between two rounds the file.
Counting(g) == IF at = "idle" THEN saved[g].reverts ELSE mem[g].reverts

\* Up to every age: what is counted was done; what was done and is not counted, a
\* lost round did, unless the file keeps too little; and a round reverts a guest once.
CountsSound ==
    \A g \in Guests, a \in Ages :
        /\ REVERT_BUDGET <= KEPT_REVERTS =>
              Recent(reverted[g], a) <= Recent(Counting(g), a) + Recent(lost, a)
        /\ Recent(saved[g].reverts, a) <= Recent(reverted[g], a)
        /\ Recent(mem[g].reverts, a) <= Recent(reverted[g], a)
        /\ Recent(mem[g].reverts, a) <= Recent(saved[g].reverts, a) + 1

RefereeInv == RoundTyped /\ ListsSound /\ RoundSound /\ CountsSound

LEMMA RefereeConstants ==
    /\ WINDOW \in Nat /\ COOLDOWN \in Nat /\ COOLDOWN >= 1 /\ COOLDOWN <= WINDOW
    /\ REVERT_BUDGET \in Nat /\ REVERT_BUDGET >= 1 /\ KEPT_REVERTS \in Nat /\ KEPT_REVERTS >= 1
BY RefereeAssumption

LEMMA ListIs ==
    ASSUME NEW s \in Seq(Ages)
    PROVE  /\ Len(s) \in Nat /\ DOMAIN s = 1..Len(s)
           /\ \A i \in DOMAIN s : s[i] \in Nat /\ s[i] <= WINDOW
<1>1. Len(s) \in Nat /\ DOMAIN s = 1..Len(s) /\ \A i \in 1..Len(s) : s[i] \in Ages
  OBVIOUS
<1>2. QED
  BY <1>1, RefereeConstants DEF Ages

LEMMA RecentIs ==
    ASSUME NEW s \in Seq(Ages), Ordered(s), NEW a \in Nat
    PROVE  /\ Recent(s, a) \in 0..Len(s)
           /\ \A i \in DOMAIN s : s[i] <= a <=> i > Len(s) - Recent(s, a)
<1> DEFINE T == {n \in 0..Len(s) : \A k \in DOMAIN s : k > Len(s) - n => s[k] <= a}
<1>1. Len(s) \in Nat /\ DOMAIN s = 1..Len(s) /\ \A i \in DOMAIN s : s[i] \in Nat
  BY ListIs
<1>2. 0 \in T /\ T \in SUBSET (0..Len(s))
  BY <1>1
<1>3. Max(T) \in T /\ \A x \in T : Max(T) >= x
  <2> HIDE DEF T
  <2>1. QED
    BY <1>1, <1>2, MaxIs
<1>4. PICK n \in T : \A x \in T : n >= x
  BY <1>3
<1>5. ASSUME NEW i \in DOMAIN s, s[i] <= a PROVE i > Len(s) - n
  <2>1. \A k \in DOMAIN s : k > Len(s) - (Len(s) - i + 1) => s[k] <= a
    <3>1. SUFFICES ASSUME NEW k \in DOMAIN s, k >= i PROVE s[k] <= a
      BY <1>1
    <3>2. k = i \/ s[i] >= s[k]
      BY <1>1, <3>1 DEF Ordered
    <3>3. QED
      BY <1>1, <1>5, <3>2
  <2>2. Len(s) - i + 1 \in T
    BY <1>1, <2>1
  <2>3. QED
    BY <1>1, <1>4, <2>2
<1>6. n \in 0..Len(s) /\ \A i \in DOMAIN s : s[i] <= a <=> i > Len(s) - n
  BY <1>4, <1>5
<1>7. QED
  BY <1>6 DEF Recent

LEMMA RecentIsOnly ==
    ASSUME NEW s \in Seq(Ages), Ordered(s), NEW a \in Nat, NEW n \in 0..Len(s),
           \A i \in DOMAIN s : s[i] <= a <=> i > Len(s) - n
    PROVE  Recent(s, a) = n
<1> DEFINE r == Recent(s, a)
<1>1. r \in 0..Len(s) /\ \A i \in DOMAIN s : s[i] <= a <=> i > Len(s) - r
  BY RecentIs
<1> HIDE DEF r
<1>2. Len(s) \in Nat /\ DOMAIN s = 1..Len(s)
  OBVIOUS
<1>3. ~ (r > n)
  <2>1. SUFFICES ASSUME r > n PROVE FALSE
    OBVIOUS
  <2>2. Len(s) - n \in DOMAIN s
    BY <1>1, <1>2, <2>1
  <2>3. QED
    BY <1>1, <1>2, <2>1, <2>2
<1>4. ~ (r < n)
  <2>1. SUFFICES ASSUME r < n PROVE FALSE
    OBVIOUS
  <2>2. Len(s) - r \in DOMAIN s
    BY <1>1, <1>2, <2>1
  <2>3. QED
    BY <1>1, <1>2, <2>1, <2>2
<1>5. QED
  BY <1>1, <1>3, <1>4 DEF r

\* The last entry is one more, whichever age one counts up to.
LEMMA RecentAppend ==
    ASSUME NEW s \in Seq(Ages), Ordered(s)
    PROVE  /\ Append(s, 0) \in Seq(Ages) /\ Ordered(Append(s, 0))
           /\ \A a \in Nat : Recent(Append(s, 0), a) = Recent(s, a) + 1
<1>1. Append(s, 0) \in Seq(Ages) /\ Len(Append(s, 0)) = Len(s) + 1 /\ Len(s) \in Nat
  BY RefereeConstants DEF Ages
<1>2. /\ DOMAIN s = 1..Len(s) /\ DOMAIN Append(s, 0) = 1..(Len(s) + 1)
      /\ \A i \in DOMAIN s : Append(s, 0)[i] = s[i] /\ s[i] \in Nat
      /\ Append(s, 0)[Len(s) + 1] = 0
  BY <1>1, ListIs
<1>3. Ordered(Append(s, 0))
  <2>1. SUFFICES ASSUME NEW i \in DOMAIN Append(s, 0), NEW j \in DOMAIN Append(s, 0), i < j
                 PROVE  Append(s, 0)[i] >= Append(s, 0)[j]
    BY DEF Ordered
  <2>2. i \in DOMAIN s /\ (j \in DOMAIN s \/ j = Len(s) + 1)
    BY <1>1, <1>2, <2>1
  <2>3. QED
    BY <1>2, <2>1, <2>2 DEF Ordered
<1>4. ASSUME NEW a \in Nat PROVE Recent(Append(s, 0), a) = Recent(s, a) + 1
  <2> DEFINE n == Recent(s, a)
  <2>1. n \in 0..Len(s) /\ \A i \in DOMAIN s : s[i] <= a <=> i > Len(s) - n
    BY RecentIs
  <2> HIDE DEF n
  <2>2. \A i \in DOMAIN Append(s, 0) :
           Append(s, 0)[i] <= a <=> i > Len(Append(s, 0)) - (n + 1)
    <3>1. SUFFICES ASSUME NEW i \in DOMAIN Append(s, 0)
                   PROVE  Append(s, 0)[i] <= a <=> i > Len(s) - n
      BY <1>1, <2>1
    <3>2. CASE i \in DOMAIN s
      BY <1>2, <2>1, <3>2
    <3>3. CASE i = Len(s) + 1
      BY <1>1, <1>2, <2>1, <3>3
    <3>4. QED
      BY <1>1, <1>2, <3>2, <3>3
  <2>3. n + 1 \in 0..Len(Append(s, 0))
    BY <1>1, <2>1
  <2>4. QED
    BY <1>1, <1>3, <2>2, <2>3, RecentIsOnly DEF n
<1>5. QED
  BY <1>1, <1>3, <1>4

LEMMA RecentAll ==
    ASSUME NEW s \in Seq(Ages), Ordered(s)
    PROVE  Recent(s, WINDOW) = Len(s)
<1>1. Len(s) \in 0..Len(s) /\ \A i \in DOMAIN s : s[i] <= WINDOW <=> i > Len(s) - Len(s)
  BY ListIs
<1>2. QED
  BY <1>1, RefereeConstants, RecentIsOnly

\* A tick later: the younger entries of the list, each a tick older, in their order.
LEMMA OlderIs ==
    ASSUME NEW s \in Seq(Ages), Ordered(s)
    PROVE  /\ Older(s) \in Seq(Ages) /\ Len(Older(s)) <= Len(s)
           /\ \A i \in DOMAIN Older(s) :
                 LET k == Len(s) - Len(Older(s)) + i IN k \in DOMAIN s /\ Older(s)[i] = s[k] + 1
           /\ Len(Older(s)) = Recent(s, WINDOW - 1)
<1> DEFINE kept == Recent(s, WINDOW - 1)
           older == [i \in 1..kept |-> s[Len(s) - kept + i] + 1]
<1>1. WINDOW - 1 \in Nat
  BY RefereeConstants
<1>2. kept \in 0..Len(s) /\ \A i \in DOMAIN s : s[i] <= WINDOW - 1 <=> i > Len(s) - kept
  BY <1>1, RecentIs
<1>3. Older(s) = older
  BY DEF Older
<1> HIDE DEF kept
<1>4. Len(s) \in Nat /\ DOMAIN s = 1..Len(s) /\ \A i \in DOMAIN s : s[i] \in Nat
  BY ListIs
<1>5. \A i \in 1..kept : /\ Len(s) - kept + i \in DOMAIN s
                         /\ s[Len(s) - kept + i] + 1 \in Ages
  <2>1. SUFFICES ASSUME NEW i \in 1..kept
                 PROVE  /\ Len(s) - kept + i \in DOMAIN s
                        /\ s[Len(s) - kept + i] + 1 \in Ages
    OBVIOUS
  <2>2. Len(s) - kept + i \in DOMAIN s /\ Len(s) - kept + i > Len(s) - kept
    BY <1>2, <1>4
  <2>3. s[Len(s) - kept + i] <= WINDOW - 1
    BY <1>2, <2>2
  <2>4. QED
    BY <1>1, <1>4, <2>2, <2>3, RefereeConstants DEF Ages
<1>6. older \in Seq(Ages) /\ Len(older) = kept /\ DOMAIN older = 1..kept
  <2>1. kept \in Nat
    BY <1>2, <1>4
  <2>2. older \in [1..kept -> Ages]
    BY <1>5
  <2> HIDE DEF older
  <2>3. older \in Seq(Ages) /\ DOMAIN older = 1..kept /\ DOMAIN older = 1..Len(older)
    BY <2>1, <2>2, IsASeq, LenProperties
  <2>4. QED
    BY <2>1, <2>2, <2>3
<1>7. QED
  BY <1>2, <1>3, <1>4, <1>5, <1>6 DEF kept

\* Up to an age it has as many entries as the list had a tick ago up to one tick less.
LEMMA OlderRecent ==
    ASSUME NEW s \in Seq(Ages), Ordered(s)
    PROVE  /\ Ordered(Older(s))
           /\ \A a \in Ages : Recent(Older(s), a) = IF a = 0 THEN 0 ELSE Recent(s, a - 1)
<1> DEFINE o == Older(s)
           gone == Len(s) - Len(o)
<1>1. /\ o \in Seq(Ages) /\ Len(o) = Recent(s, WINDOW - 1) /\ gone \in Nat
      /\ Len(o) \in Nat /\ Len(s) \in Nat /\ DOMAIN o = 1..Len(o) /\ DOMAIN s = 1..Len(s)
      /\ \A i \in DOMAIN o : gone + i \in DOMAIN s /\ o[i] = s[gone + i] + 1
      /\ \A i \in DOMAIN s : s[i] \in Nat
  BY OlderIs, ListIs
<1> HIDE DEF o
<1>2. Ordered(o)
  <2>1. SUFFICES ASSUME NEW i \in DOMAIN o, NEW j \in DOMAIN o, i < j PROVE o[i] >= o[j]
    BY DEF Ordered
  <2>2. s[gone + i] >= s[gone + j]
    BY <1>1, <2>1 DEF Ordered
  <2>3. QED
    BY <1>1, <2>2
<1>3. ASSUME NEW a \in Ages PROVE Recent(o, a) = IF a = 0 THEN 0 ELSE Recent(s, a - 1)
  <2>0. a \in Nat /\ a <= WINDOW /\ WINDOW - 1 \in Nat
    BY RefereeConstants DEF Ages
  <2>1. CASE a = 0
    <3>1. 0 \in 0..Len(o) /\ \A i \in DOMAIN o : o[i] <= 0 <=> i > Len(o) - 0
      BY <1>1
    <3>2. QED
      BY <1>1, <1>2, <2>1, <3>1, RecentIsOnly
  <2>2. CASE a # 0
    <3> DEFINE n == Recent(s, a - 1)
               kept == Recent(s, WINDOW - 1)
    <3>1. a - 1 \in Nat /\ a - 1 <= WINDOW - 1
      BY <2>0, <2>2, RefereeConstants
    <3>2. n \in 0..Len(s) /\ \A i \in DOMAIN s : s[i] <= a - 1 <=> i > Len(s) - n
      BY <3>1, RecentIs
    <3>3. kept \in 0..Len(s) /\ \A i \in DOMAIN s : s[i] <= WINDOW - 1 <=> i > Len(s) - kept
      BY <2>0, RecentIs
    <3>4. kept = Len(o)
      BY <1>1
    <3> HIDE DEF n, kept
    <3>5. n <= kept
      <4>1. SUFFICES ASSUME n > kept PROVE FALSE
        BY <3>2, <3>3
      <4>0. Len(s) - kept \in 1..Len(s) /\ Len(s) - kept > Len(s) - n
        BY <1>1, <3>2, <3>3, <4>1
      <4>2. Len(s) - kept \in DOMAIN s /\ s[Len(s) - kept] <= a - 1
        BY <1>1, <3>2, <4>0
      <4>3. s[Len(s) - kept] <= WINDOW - 1
        BY <1>1, <2>0, <3>1, <4>2
      <4>4. QED
        BY <1>1, <3>3, <4>2, <4>3
    <3>6. n \in 0..Len(o) /\ \A i \in DOMAIN o : o[i] <= a <=> i > Len(o) - n
      <4>1. SUFFICES ASSUME NEW i \in DOMAIN o PROVE o[i] <= a <=> i > Len(o) - n
        BY <3>2, <3>4, <3>5
      <4>2. s[gone + i] <= a - 1 <=> gone + i > Len(s) - n
        BY <1>1, <3>2
      <4>3. o[i] <= a <=> s[gone + i] <= a - 1
        BY <1>1, <2>0
      <4>4. gone + i > Len(s) - n <=> i > Len(o) - n
        BY <1>1, <3>2
      <4>5. QED
        BY <4>2, <4>3, <4>4
    <3>7. QED
      BY <1>1, <1>2, <2>0, <2>2, <3>6, RecentIsOnly DEF n
  <2>3. QED
    BY <2>1, <2>2
<1>4. QED
  BY <1>2, <1>3 DEF o

LEMMA SpacedIsOrdered ==
    ASSUME NEW s \in Seq(Ages), Spaced(s)
    PROVE  Ordered(s)
BY ListIs, RefereeConstants DEF Spaced, Ordered

LEMMA NothingRecent ==
    /\ <<>> \in Seq(Ages) /\ Len(<<>>) = 0 /\ Ordered(<<>>) /\ Spaced(<<>>) /\ Older(<<>>) = <<>>
    /\ \A a \in Nat : Recent(<<>>, a) = 0
<1>1. <<>> \in Seq(Ages) /\ Len(<<>>) = 0 /\ Ordered(<<>>) /\ Spaced(<<>>)
  BY DEF Ordered, Spaced
<1>2. Older(<<>>) \in Seq(Ages) /\ Len(Older(<<>>)) <= 0
  BY <1>1, OlderIs
<1>3. Len(Older(<<>>)) = 0
  BY <1>2, ListIs
<1>4. Older(<<>>) = <<>>
  BY <1>2, <1>3, EmptySeq
<1>5. ASSUME NEW a \in Nat PROVE Recent(<<>>, a) = 0
  <2>1. Recent(<<>>, a) \in 0..0
    BY <1>1, RecentIs
  <2>2. QED
    BY <2>1
<1>6. QED
  BY <1>1, <1>4, <1>5

\* Lists that agree up to every age are as far apart.
LEMMA SameRecent ==
    ASSUME NEW s \in Seq(Ages), NEW t \in Seq(Ages), Ordered(s), Ordered(t),
           \A a \in Ages : Recent(s, a) = Recent(t, a)
    PROVE  s = t
<1>1. Len(s) = Len(t)
  BY RecentAll, RefereeConstants DEF Ages
<1>2. ASSUME NEW i \in 1..Len(s) PROVE s[i] = t[i]
  <2>1. i \in DOMAIN s /\ i \in DOMAIN t /\ s[i] \in Ages /\ t[i] \in Ages
    BY <1>1
  <2>2. s[i] \in Nat /\ t[i] \in Nat
    BY <2>1, ListIs
  <2>3. \A a \in Ages : a \in Nat => (s[i] <= a <=> t[i] <= a)
    <3>1. SUFFICES ASSUME NEW a \in Ages, a \in Nat PROVE s[i] <= a <=> t[i] <= a
      OBVIOUS
    <3>2. s[i] <= a <=> i > Len(s) - Recent(s, a)
      BY <2>1, <3>1, RecentIs
    <3>3. t[i] <= a <=> i > Len(t) - Recent(t, a)
      BY <2>1, <3>1, RecentIs
    <3>4. QED
      BY <1>1, <3>2, <3>3
  <2>4. QED
    BY <2>1, <2>2, <2>3
<1>3. QED
  BY <1>1, <1>2, SeqEqual

-----------------------------------------------------------------------------
LEMMA EntryChanged ==
    ASSUME NEW e \in Entries, NEW ages \in Seq(Ages), NEW act \in Nat,
           NEW f, f = [e EXCEPT !.reverts = ages, !.action = act]
    PROVE  f = [stale |-> e.stale, reverts |-> ages, action |-> act]
BY DEF Entries

\* A tick leaves an entry of the file within its budget and cooldown.
LEMMA AgedKept ==
    ASSUME NEW e \in Entries, KeptWithin(e)
    PROVE  Aged(e) \in Entries /\ Aged(e).reverts = Older(e.reverts) /\ KeptWithin(Aged(e))
<1> DEFINE s == e.reverts
           o == Older(s)
           gone == Len(s) - Len(o)
<1>1. s \in Seq(Ages) /\ Ordered(s) /\ Spaced(s) /\ e.action \in 0..(COOLDOWN + 1)
  BY SpacedIsOrdered DEF Entries, KeptWithin
<1>2. /\ o \in Seq(Ages) /\ gone \in Nat /\ Len(o) <= Len(s)
      /\ Len(o) \in Nat /\ Len(s) \in Nat /\ DOMAIN o = 1..Len(o) /\ DOMAIN s = 1..Len(s)
      /\ \A i \in DOMAIN o : gone + i \in DOMAIN s /\ o[i] = s[gone + i] + 1
      /\ \A i \in DOMAIN s : s[i] \in Nat
  <2>1. o \in Seq(Ages) /\ Len(o) <= Len(s)
        /\ \A i \in DOMAIN o : gone + i \in DOMAIN s /\ o[i] = s[gone + i] + 1
    BY <1>1, OlderIs
  <2>2. Len(o) \in Nat /\ DOMAIN o = 1..Len(o)
    BY <2>1, ListIs
  <2>3. Len(s) \in Nat /\ DOMAIN s = 1..Len(s) /\ \A i \in DOMAIN s : s[i] \in Nat
    BY <1>1, ListIs
  <2> HIDE DEF o
  <2>4. QED
    BY <2>1, <2>2, <2>3
<1>3. Least(e.action + 1, COOLDOWN + 1) \in 0..(COOLDOWN + 1)
  BY <1>1, RefereeConstants DEF Least
<1>4. Aged(e) = [stale |-> e.stale, reverts |-> o, action |-> Least(e.action + 1, COOLDOWN + 1)]
  <2>1. Least(e.action + 1, COOLDOWN + 1) \in Nat /\ o \in Seq(Ages)
    BY <1>2, <1>3, RefereeConstants
  <2> DEFINE later == Least(e.action + 1, COOLDOWN + 1)
             f == [e EXCEPT !.reverts = o, !.action = later]
  <2>2. Aged(e) = f
    BY DEF Aged
  <2>3. f = [stale |-> e.stale, reverts |-> o, action |-> later]
    <3> HIDE DEF o, later
    <3>1. \A x : x = f => x = [stale |-> e.stale, reverts |-> o, action |-> later]
      BY <2>1, EntryChanged DEF later
    <3> HIDE DEF f
    <3>2. QED
      BY <3>1
  <2>4. QED
    BY <2>2, <2>3
<1>5. Aged(e) \in Entries
  BY <1>2, <1>3, <1>4 DEF Entries
<1> HIDE DEF o
<1>6. Spaced(o)
  <2>1. SUFFICES ASSUME NEW i \in DOMAIN o, NEW j \in DOMAIN o, i < j PROVE o[i] >= o[j] + COOLDOWN
    BY DEF Spaced
  <2>2. /\ gone + i \in DOMAIN s /\ gone + j \in DOMAIN s
        /\ o[i] = s[gone + i] + 1 /\ o[j] = s[gone + j] + 1
    BY <1>2, <2>1
  <2>3. gone \in Nat /\ i \in Nat /\ j \in Nat /\ s[gone + i] \in Nat /\ s[gone + j] \in Nat
    BY <1>2, <2>1, <2>2
  <2> HIDE DEF gone, s
  <2>4. gone + i < gone + j
    BY <2>1, <2>3
  <2>5. s[gone + i] >= s[gone + j] + COOLDOWN
    BY <1>1, <2>2, <2>4 DEF Spaced
  <2>6. QED
    BY <2>2, <2>3, <2>5, RefereeConstants
<1>7. ASSUME NEW i \in DOMAIN o PROVE o[i] >= Least(Least(e.action + 1, COOLDOWN + 1), COOLDOWN)
  <2>1. s[gone + i] >= Least(e.action, COOLDOWN)
    BY <1>2 DEF KeptWithin
  <2>2. QED
    BY <1>1, <1>2, <2>1, RefereeConstants DEF Least
<1>8. Len(o) <= REVERT_BUDGET
  BY <1>2, RefereeConstants DEF KeptWithin
<1>9. QED
  BY <1>4, <1>5, <1>6, <1>7, <1>8 DEF KeptWithin, o

\* The end of a list is in its order, and up to any age as long or full.
LEMMA LastRevertsAre ==
    ASSUME NEW s \in Seq(Ages), Ordered(s)
    PROVE  /\ LastReverts(s) \in Seq(Ages) /\ Len(LastReverts(s)) <= Len(s)
           /\ Ordered(LastReverts(s)) /\ (Spaced(s) => Spaced(LastReverts(s)))
           /\ \A a \in Nat : Recent(LastReverts(s), a) <= Recent(s, a)
           /\ Len(s) <= KEPT_REVERTS => LastReverts(s) = s
<1> DEFINE d == IF Len(s) > KEPT_REVERTS THEN Len(s) - KEPT_REVERTS ELSE 0
           t == LastReverts(s)
<1>1. Len(s) \in Nat /\ DOMAIN s = 1..Len(s) /\ \A i \in DOMAIN s : s[i] \in Nat
  BY ListIs
<1>2. t = SubSeq(s, d + 1, Len(s)) /\ d \in 0..Len(s) /\ (Len(s) <= KEPT_REVERTS => d = 0)
  <2>1. CASE Len(s) > KEPT_REVERTS
    <3>1. d = Len(s) - KEPT_REVERTS
      BY <2>1
    <3>2. d + 1 = Len(s) - KEPT_REVERTS + 1
      BY <1>1, <3>1, RefereeConstants
    <3>3. t = SubSeq(s, Len(s) - KEPT_REVERTS + 1, Len(s))
      BY <2>1 DEF LastReverts
    <3>4. d \in 0..Len(s) /\ ~ (Len(s) <= KEPT_REVERTS)
      BY <1>1, <2>1, <3>1, RefereeConstants
    <3> HIDE DEF d, t
    <3>5. QED
      BY <3>2, <3>3, <3>4
  <2>2. CASE ~ (Len(s) > KEPT_REVERTS)
    <3>1. d = 0 /\ t = SubSeq(s, 1, Len(s))
      BY <2>2 DEF LastReverts
    <3> HIDE DEF d, t
    <3>2. QED
      BY <1>1, <3>1
  <2>3. QED
    BY <2>1, <2>2
<1> HIDE DEF d, t
<1>3. /\ t \in Seq(Ages) /\ Len(t) = Len(s) - d /\ DOMAIN t = 1..(Len(s) - d)
      /\ \A i \in DOMAIN t : t[i] = s[d + i] /\ d + i \in DOMAIN s
  <2>1. \A i \in 1..(Len(s) - d) : d + i \in 1..Len(s) /\ s[d + i] \in Ages
    BY <1>1, <1>2
  <2>2. /\ t = [i \in 1..(Len(s) - d) |-> s[d + i]] /\ Len(s) - d \in Nat
    BY <1>1, <1>2 DEF SubSeq
  <2>3. t \in Seq(Ages)
    BY <2>1, <2>2
  <2>4. QED
    BY <1>1, <2>1, <2>2, <2>3
<1>8. d \in Nat /\ Len(s) \in Nat /\ Len(t) \in Nat /\ Len(t) = Len(s) - d /\ DOMAIN t = 1..Len(t)
  <2>1. d \in Nat /\ d <= Len(s)
    BY <1>1, <1>2
  <2>2. QED
    BY <1>1, <1>3, <2>1
<1>4. Ordered(t) /\ (Spaced(s) => Spaced(t))
  <2>1. \A i, j \in 1..Len(t) : i < j => d + i < d + j
    BY <1>8
  <2>2. QED
    BY <1>3, <1>8, <2>1 DEF Ordered, Spaced
<1>5. ASSUME NEW a \in Nat PROVE Recent(t, a) <= Recent(s, a)
  <2> DEFINE n == Recent(t, a)
             m == Recent(s, a)
  <2>1. /\ n \in 0..Len(t) /\ \A i \in DOMAIN t : t[i] <= a <=> i > Len(t) - n
        /\ m \in 0..Len(s) /\ \A i \in DOMAIN s : s[i] <= a <=> i > Len(s) - m
    BY <1>3, <1>4, RecentIs
  <2> HIDE DEF n, m
  <2>2. SUFFICES ASSUME n > m PROVE FALSE
    <3>1. n \in Nat /\ m \in Nat
      BY <1>8, <2>1
    <3>2. QED
      BY <3>1 DEF n, m
  <2>3. /\ Len(t) - n + 1 \in DOMAIN t /\ d + (Len(t) - n + 1) = Len(s) - n + 1
        /\ Len(s) - n + 1 \in DOMAIN s
    <3>1. n \in 1..Len(t) /\ n \in Nat /\ Len(t) \in Nat /\ Len(s) \in Nat /\ d \in Nat
      BY <1>8, <2>1, <2>2
    <3>2. Len(t) - n + 1 \in 1..Len(t) /\ d + (Len(t) - n + 1) = Len(s) - n + 1
      BY <1>8, <3>1
    <3>3. QED
      BY <1>3, <1>8, <3>2
  <2>4. s[Len(s) - n + 1] <= a
    <3>1. Len(t) - n + 1 > Len(t) - n
      BY <1>8, <2>1
    <3>2. t[Len(t) - n + 1] <= a
      BY <2>1, <2>3, <3>1
    <3>3. QED
      BY <1>3, <2>3, <3>2
  <2>5. Len(s) - n + 1 > Len(s) - m
    BY <2>1, <2>3, <2>4
  <2>6. QED
    BY <1>8, <2>1, <2>2, <2>5
<1>6. ASSUME Len(s) <= KEPT_REVERTS PROVE t = s
  <2>1. d = 0
    BY <1>2, <1>6
  <2>2. \A i \in 1..Len(t) : t[i] = s[i]
    BY <1>3, <1>8, <2>1
  <2>3. Len(t) = Len(s)
    BY <1>8, <2>1
  <2>4. QED
    BY <1>3, <2>2, <2>3
<1>9. Len(t) <= Len(s)
  BY <1>8
<1>7. QED
  BY <1>3, <1>4, <1>5, <1>6, <1>9 DEF t

\* A revert that the budget and the cooldown allow leaves it there too.
LEMMA RevertKept ==
    ASSUME NEW e \in Entries, KeptWithin(e), Len(e.reverts) < REVERT_BUDGET, e.action >= COOLDOWN,
           NEW f, f = [e EXCEPT !.reverts = LastReverts(Append(@, 0)), !.action = 0]
    PROVE  f \in Entries /\ f.reverts = LastReverts(Append(e.reverts, 0)) /\ KeptWithin(f)
<1> DEFINE s == e.reverts
           l == Append(s, 0)
           r == LastReverts(l)
<1>1. s \in Seq(Ages) /\ Ordered(s) /\ Spaced(s) /\ e.action \in 0..(COOLDOWN + 1)
  BY SpacedIsOrdered DEF Entries, KeptWithin
<1>2. f = [stale |-> e.stale, reverts |-> r, action |-> 0]
  BY DEF Entries
<1>3. l \in Seq(Ages) /\ Ordered(l) /\ Len(l) = Len(s) + 1
  BY <1>1, RecentAppend
<1>4. /\ r \in Seq(Ages) /\ Len(r) <= Len(s) + 1 /\ (Spaced(l) => Spaced(r))
  <2> HIDE DEF l, r
  <2>1. QED
    BY <1>3, LastRevertsAre DEF r
<1>11. f \in Entries
  <2> HIDE DEF l, r
  <2>1. QED
    BY <1>1, <1>2, <1>4, RefereeConstants, SMTT(30) DEF Entries
<1>5. /\ Len(s) \in Nat /\ DOMAIN s = 1..Len(s) /\ DOMAIN l = 1..(Len(s) + 1)
      /\ \A i \in DOMAIN s : l[i] = s[i] /\ s[i] \in Nat
      /\ l[Len(s) + 1] = 0
  BY <1>1, <1>3, ListIs
<1>6. \A i \in DOMAIN s : s[i] >= COOLDOWN
  BY <1>1, <1>5, RefereeConstants DEF KeptWithin, Least
<1> HIDE DEF l, r
<1>7. Spaced(l)
  <2>1. SUFFICES ASSUME NEW i \in DOMAIN l, NEW j \in DOMAIN l, i < j PROVE l[i] >= l[j] + COOLDOWN
    BY DEF Spaced
  <2>2. i \in DOMAIN s /\ (j \in DOMAIN s \/ j = Len(s) + 1)
    BY <1>5, <2>1
  <2>3. CASE j \in DOMAIN s
    BY <1>1, <1>5, <2>1, <2>2, <2>3 DEF Spaced
  <2>4. CASE j = Len(s) + 1
    BY <1>5, <1>6, <2>2, <2>4, RefereeConstants
  <2>5. QED
    BY <2>2, <2>3, <2>4
<1>8. \A i \in DOMAIN r : r[i] >= Least(0, COOLDOWN)
  <2>1. Least(0, COOLDOWN) = 0
    BY RefereeConstants DEF Least
  <2>2. \A i \in DOMAIN r : r[i] \in Nat
    BY <1>4, ListIs
  <2>3. QED
    BY <2>1, <2>2
<1>9. Len(r) <= REVERT_BUDGET
  <2>1. Len(r) \in Nat
    BY <1>4, ListIs
  <2>2. QED
    BY <1>4, <1>5, <2>1, RefereeConstants
<1>10. QED
  BY <1>2, <1>4, <1>11, <1>7, <1>8, <1>9 DEF KeptWithin, l, r

-----------------------------------------------------------------------------
LEMMA FirstIsThere ==
    ASSUME RoundTyped, todo # {}
    PROVE  First \in todo /\ First \in Guests
<1> DEFINE R == OpToRel(<, Nat)
<1>1. todo \subseteq Nat /\ todo \subseteq Guests
  BY RefereeAssumption DEF RoundTyped
<1>2. PICK g \in todo : \A h \in todo : ~ (<<h, g>> \in R)
  BY <1>1, NatLessThanWellFounded, WFMin
<1>3. \A h \in todo : g <= h
  <2>1. SUFFICES ASSUME NEW h \in todo, h < g PROVE FALSE
    BY <1>1
  <2>2. <<h, g>> \in R
    BY <1>1, <2>1 DEF OpToRel
  <2>3. QED
    BY <1>2, <2>2
<1>4. QED
  BY <1>1, <1>3 DEF First

LEMMA UntroubledIs ==
    /\ Untroubled \in [Guests -> Entries]
    /\ \A g \in Guests : KeptWithin(Untroubled[g]) /\ Untroubled[g].reverts = <<>>
                         /\ Aged(Untroubled[g]).reverts = <<>>
<1>1. /\ Fresh \in Entries /\ Fresh.reverts = <<>> /\ Fresh.stale = 0 /\ Fresh.action = COOLDOWN + 1
  BY NothingRecent, RefereeConstants DEF Fresh, Entries
<1>2. KeptWithin(Fresh)
  BY <1>1, NothingRecent, RefereeConstants DEF KeptWithin
<1>3. Aged(Fresh).reverts = <<>>
  BY <1>1, <1>2, AgedKept, NothingRecent
<1>4. QED
  BY <1>1, <1>2, <1>3 DEF Untroubled

\* A list of the inventory of lists: what the proofs below use of them.
LEMMA ListsThere ==
    ASSUME RefereeInv
    PROVE  /\ lost \in Seq(Ages) /\ Ordered(lost)
           /\ \A g \in Guests : /\ saved[g] \in Entries /\ mem[g] \in Entries
                                /\ saved[g].reverts \in Seq(Ages) /\ Ordered(saved[g].reverts)
                                /\ mem[g].reverts \in Seq(Ages) /\ Ordered(mem[g].reverts)
                                /\ reverted[g] \in Seq(Ages) /\ Ordered(reverted[g])
                                /\ Counting(g) \in Seq(Ages) /\ Ordered(Counting(g))
<1>1. lost \in Seq(Ages) /\ Ordered(lost)
  BY DEF RefereeInv, RoundTyped, ListsSound
<1>2. ASSUME NEW g \in Guests
      PROVE  /\ saved[g] \in Entries /\ mem[g] \in Entries /\ reverted[g] \in Seq(Ages)
             /\ Ordered(reverted[g]) /\ KeptWithin(saved[g]) /\ KeptWithin(mem[g])
  BY DEF RefereeInv, RoundTyped, ListsSound
<1>3. ASSUME NEW g \in Guests
      PROVE  /\ saved[g].reverts \in Seq(Ages) /\ Ordered(saved[g].reverts)
             /\ mem[g].reverts \in Seq(Ages) /\ Ordered(mem[g].reverts)
  <2>1. saved[g].reverts \in Seq(Ages) /\ mem[g].reverts \in Seq(Ages)
    BY <1>2 DEF Entries
  <2>2. QED
    BY <1>2, <2>1, SpacedIsOrdered DEF KeptWithin
<1>4. QED
  BY <1>1, <1>2, <1>3 DEF Counting

LEMMA RecentsAreNumbers ==
    ASSUME RefereeInv, NEW g \in Guests, NEW a \in Ages
    PROVE  /\ Recent(lost, a) \in Nat /\ Recent(reverted[g], a) \in Nat /\ a \in Nat
           /\ Recent(saved[g].reverts, a) \in Nat /\ Recent(mem[g].reverts, a) \in Nat
           /\ Recent(Counting(g), a) \in Nat
<1>1. a \in Nat
  BY RefereeConstants DEF Ages
<1>2. ASSUME NEW s \in Seq(Ages), Ordered(s) PROVE Recent(s, a) \in Nat
  BY <1>1, <1>2, RecentIs, ListIs
<1>3. QED
  BY <1>1, <1>2, ListsThere

LEMMA RefereeStart == RefereeInit => RefereeInv
<1>1. SUFFICES ASSUME RefereeInit PROVE RefereeInv
  OBVIOUS
<1>2. /\ saved = Untroubled /\ mem = Untroubled /\ at = "idle" /\ todo = {}
      /\ reverted = [g \in Guests |-> <<>>] /\ lost = <<>>
  BY <1>1 DEF RefereeInit
<1>3. RoundTyped
  <2>1. reverted \in [Guests -> Seq(Ages)] /\ lost \in Seq(Ages)
    BY <1>2, NothingRecent
  <2>2. QED
    BY <1>2, <2>1, UntroubledIs DEF RoundTyped
<1>4. ListsSound
  BY <1>2, UntroubledIs, NothingRecent DEF ListsSound
<1>5. RoundSound
  BY <1>2 DEF RoundSound, Unvisited
<1>6. CountsSound
  <2>1. \A a \in Ages : Recent(<<>>, a) = 0
    BY NothingRecent, RefereeConstants DEF Ages
  <2>2. \A g \in Guests : /\ saved[g].reverts = <<>> /\ mem[g].reverts = <<>>
                          /\ reverted[g] = <<>> /\ Counting(g) = <<>>
    BY <1>2, UntroubledIs DEF Counting
  <2>3. QED
    BY <1>2, <2>1, <2>2 DEF CountsSound
<1>7. QED
  BY <1>3, <1>4, <1>5, <1>6 DEF RefereeInv

LEMMA GuestsStep ==
    ASSUME RefereeInv,
           \/ \E g \in Guests : Beat(g) \/ Hang(g) \/ Repair(g)
           \/ ProbeFails
           \/ UNCHANGED refereeVars
    PROVE  RefereeInv'
<1>1. UNCHANGED <<saved, mem, at, todo, reverted, lost>>
  BY DEF Beat, Hang, Repair, ProbeFails, refereeVars, round, happened
<1>2. RoundTyped'
  BY <1>1 DEF RefereeInv, RoundTyped
<1>3. ListsSound' /\ RoundSound' /\ CountsSound'
  BY <1>1 DEF RefereeInv, ListsSound, RoundSound, CountsSound, Unvisited, First, Counting
<1>4. QED
  BY <1>2, <1>3 DEF RefereeInv

-----------------------------------------------------------------------------
LEMMA PassStep == RefereeInv /\ Pass => RefereeInv'
<1> SUFFICES ASSUME RefereeInv, Pass PROVE RefereeInv'
  OBVIOUS
<1>1. /\ at # "revert" /\ at' = at /\ todo' = todo /\ lost' = Older(lost)
      /\ saved' = [g \in Guests |-> Aged(saved[g])] /\ mem' = [g \in Guests |-> Aged(mem[g])]
      /\ reverted' = [g \in Guests |-> Older(reverted[g])]
  BY DEF Pass
<1>2. lost' \in Seq(Ages) /\ Ordered(lost')
  BY <1>1, ListsThere, OlderIs, OlderRecent
<1>3. ASSUME NEW g \in Guests
      PROVE  /\ saved'[g] \in Entries /\ KeptWithin(saved'[g]) /\ saved'[g].reverts = Older(saved[g].reverts)
             /\ mem'[g] \in Entries /\ KeptWithin(mem'[g]) /\ mem'[g].reverts = Older(mem[g].reverts)
             /\ reverted'[g] \in Seq(Ages) /\ Ordered(reverted'[g]) /\ reverted'[g] = Older(reverted[g])
  <2>1. /\ saved'[g] = Aged(saved[g]) /\ mem'[g] = Aged(mem[g]) /\ reverted'[g] = Older(reverted[g])
    BY <1>1
  <2>2. saved[g] \in Entries /\ mem[g] \in Entries /\ KeptWithin(saved[g]) /\ KeptWithin(mem[g])
    BY ListsThere DEF RefereeInv, ListsSound
  <2>3. Older(reverted[g]) \in Seq(Ages) /\ Ordered(Older(reverted[g]))
    BY ListsThere, OlderIs, OlderRecent
  <2>4. QED
    BY <2>1, <2>2, <2>3, AgedKept
<1>4. RoundTyped'
  BY <1>1, <1>2, <1>3 DEF RefereeInv, RoundTyped
<1>5. ListsSound'
  BY <1>2, <1>3 DEF ListsSound, KeptWithin, Ordered, Spaced
<1>6. RoundSound'
  <2>1. at' \in {"revert", "rearm"} => todo' # {}
    BY <1>1 DEF RefereeInv, RoundSound
  <2>2. \A g \in Guests : Unvisited(g)' => mem'[g].reverts = saved'[g].reverts
    BY <1>1, <1>3 DEF RefereeInv, RoundSound, Unvisited, First
  <2>3. QED
    BY <1>1, <2>1, <2>2 DEF RoundSound
<1>7. CountsSound'
  <2>1. SUFFICES ASSUME NEW g \in Guests, NEW a \in Ages
                 PROVE  /\ REVERT_BUDGET <= KEPT_REVERTS =>
                              Recent(reverted'[g], a) <= Recent(Counting(g)', a) + Recent(lost', a)
                        /\ Recent(saved'[g].reverts, a) <= Recent(reverted'[g], a)
                        /\ Recent(mem'[g].reverts, a) <= Recent(reverted'[g], a)
                        /\ Recent(mem'[g].reverts, a) <= Recent(saved'[g].reverts, a) + 1
    BY DEF CountsSound
  <2>2. Counting(g)' = Older(Counting(g))
    BY <1>1, <1>3 DEF Counting
  <2>3. ASSUME NEW s \in Seq(Ages), Ordered(s)
        PROVE  Recent(Older(s), a) = IF a = 0 THEN 0 ELSE Recent(s, a - 1)
    BY <2>3, OlderRecent
  <2>4. /\ Recent(reverted'[g], a) = IF a = 0 THEN 0 ELSE Recent(reverted[g], a - 1)
        /\ Recent(Counting(g)', a) = IF a = 0 THEN 0 ELSE Recent(Counting(g), a - 1)
        /\ Recent(lost', a) = IF a = 0 THEN 0 ELSE Recent(lost, a - 1)
        /\ Recent(saved'[g].reverts, a) = IF a = 0 THEN 0 ELSE Recent(saved[g].reverts, a - 1)
        /\ Recent(mem'[g].reverts, a) = IF a = 0 THEN 0 ELSE Recent(mem[g].reverts, a - 1)
    BY <1>1, <1>3, <2>2, <2>3, ListsThere
  <2>5. CASE a = 0
    BY <2>4, <2>5
  <2>6. CASE a # 0
    <3>1. a - 1 \in Ages
      BY <2>6, RefereeConstants DEF Ages
    <3>2. /\ REVERT_BUDGET <= KEPT_REVERTS =>
                Recent(reverted[g], a - 1) <= Recent(Counting(g), a - 1) + Recent(lost, a - 1)
          /\ Recent(saved[g].reverts, a - 1) <= Recent(reverted[g], a - 1)
          /\ Recent(mem[g].reverts, a - 1) <= Recent(reverted[g], a - 1)
          /\ Recent(mem[g].reverts, a - 1) <= Recent(saved[g].reverts, a - 1) + 1
      BY <3>1 DEF RefereeInv, CountsSound
    <3>3. QED
      BY <2>4, <2>6, <3>2
  <2>7. QED
    BY <2>5, <2>6
<1>8. QED
  BY <1>4, <1>5, <1>6, <1>7 DEF RefereeInv

LEMMA RoundStartsStep == RefereeInv /\ RoundStarts => RefereeInv'
<1> SUFFICES ASSUME RefereeInv, RoundStarts PROVE RefereeInv'
  OBVIOUS
<1>1. /\ at = "idle" /\ at' = "visit" /\ todo' = Monitored /\ mem' = saved /\ saved' = saved
      /\ reverted' = reverted /\ lost' = lost
  BY DEF RoundStarts, happened
<1>2. RoundTyped'
  BY <1>1 DEF RefereeInv, RoundTyped, Monitored
<1>3. ListsSound'
  BY <1>1 DEF RefereeInv, ListsSound
<1>4. RoundSound'
  BY <1>1 DEF RoundSound
<1>5. CountsSound'
  <2>1. \A g \in Guests : Counting(g) = saved[g].reverts /\ Counting(g)' = saved[g].reverts
    BY <1>1 DEF Counting
  <2>2. QED
    BY <1>1, <2>1, RecentsAreNumbers DEF RefereeInv, CountsSound
<1>6. QED
  BY <1>2, <1>3, <1>4, <1>5 DEF RefereeInv

\* A decision leaves the reverts and the last action of every guest alone.
LEMMA NotedKeeps ==
    ASSUME RefereeInv, NEW h \in Guests, NEW d
    PROVE  /\ Noted(h, d) \in [Guests -> Entries]
           /\ \A g \in Guests : Noted(h, d)[g].reverts = mem[g].reverts /\ Noted(h, d)[g].action = mem[g].action
<1>1. mem \in [Guests -> Entries] /\ mem[h] \in Entries /\ mem[h].stale \in Nat
  BY DEF RefereeInv, RoundTyped, Entries
<1>2. StalePolls(mem[h], d) \in Nat
  BY <1>1 DEF StalePolls
<1> DEFINE polls == Least(StalePolls(mem[h], d), STALE_ROUNDS)
<1>3. polls \in Nat
  BY <1>2, RefereeAssumption DEF Least
<1>4. Noted(h, d) = [mem EXCEPT ![h].stale = polls]
  BY DEF Noted
<1> HIDE DEF polls
<1> DEFINE e == [mem[h] EXCEPT !.stale = polls]
<1>5. e \in Entries /\ e.reverts = mem[h].reverts /\ e.action = mem[h].action
  BY <1>1, <1>3 DEF Entries
<1>6. Noted(h, d) = [mem EXCEPT ![h] = e]
  BY <1>4
<1> HIDE DEF e
<1>7. QED
  BY <1>1, <1>5, <1>6

\* A step inside a round that reverts nothing.
LEMMA QuietStep ==
    ASSUME RefereeInv, at # "idle", at' # "idle", mem' \in [Guests -> Entries],
           saved' = saved, reverted' = reverted, lost' = lost,
           todo' \subseteq Guests, at' \in {"revert", "rearm"} => todo' # {},
           \A g \in Guests : mem'[g].reverts = mem[g].reverts /\ mem'[g].action = mem[g].action,
           \A g \in Guests : Unvisited(g)' => Unvisited(g),
           at' = "revert" => /\ First' \in Guests /\ Len(mem[First'].reverts) < REVERT_BUDGET
                             /\ mem[First'].action >= COOLDOWN
    PROVE  RefereeInv'
<1>1. RoundTyped'
  BY DEF RefereeInv, RoundTyped
<1>2. ListsSound'
  <2>1. \A g \in Guests : KeptWithin(mem[g]) => KeptWithin(mem'[g])
    BY DEF KeptWithin
  <2>2. QED
    BY <2>1 DEF RefereeInv, ListsSound
<1>3. RoundSound'
  <2>1. \A g \in Guests : Unvisited(g)' => mem'[g].reverts = saved'[g].reverts
    BY DEF RefereeInv, RoundSound
  <2>2. at' = "revert" => Len(mem'[First'].reverts) < REVERT_BUDGET /\ mem'[First'].action >= COOLDOWN
    OBVIOUS
  <2>3. QED
    BY <2>1, <2>2 DEF RoundSound
<1>4. CountsSound'
  <2>1. \A g \in Guests : Counting(g) = mem[g].reverts /\ Counting(g)' = mem[g].reverts
    BY DEF Counting
  <2>2. QED
    BY <2>1 DEF RefereeInv, CountsSound
<1>5. QED
  BY <1>1, <1>2, <1>3, <1>4 DEF RefereeInv

LEMMA JudgeStep == RefereeInv /\ Judge => RefereeInv'
<1> SUFFICES ASSUME RefereeInv, Judge PROVE RefereeInv'
  OBVIOUS
<1> DEFINE d == Decide(mem[First], beatAge[First])
<1>1. /\ at = "visit" /\ todo # {} /\ mem' = Noted(First, d)
      /\ saved' = saved /\ reverted' = reverted /\ lost' = lost
      /\ \/ at' = "visit" /\ todo' = todo \ {First}
         \/ d = "trigger" /\ at' = "revert" /\ todo' = todo
  BY DEF Judge, happened
<1>2. First \in todo /\ First \in Guests
  BY <1>1, FirstIsThere DEF RefereeInv
<1>3. /\ mem' \in [Guests -> Entries]
      /\ \A g \in Guests : mem'[g].reverts = mem[g].reverts /\ mem'[g].action = mem[g].action
  BY <1>1, <1>2, NotedKeeps
<1>4. d = "trigger" => Len(mem[First].reverts) < REVERT_BUDGET /\ mem[First].action >= COOLDOWN
  <2>1. mem[First].action \in Nat /\ Len(mem[First].reverts) \in Nat
    <3>1. mem[First].reverts \in Seq(Ages) /\ mem[First] \in Entries
      BY <1>2, ListsThere
    <3>2. QED
      BY <3>1, RefereeConstants DEF Entries
  <2>2. QED
    BY <2>1, RefereeConstants DEF Decide
<1>5. at' = "revert" => First' = First /\ d = "trigger"
  BY <1>1 DEF First
<1>6. \A g \in Guests : Unvisited(g)' => Unvisited(g)
  BY <1>1 DEF Unvisited
<1>7. todo' \subseteq Guests /\ (at' \in {"revert", "rearm"} => todo' # {}) /\ at' # "idle"
  BY <1>1 DEF RefereeInv, RoundTyped
<1> HIDE DEF d
<1>8. at' = "revert" => /\ First' \in Guests /\ Len(mem[First'].reverts) < REVERT_BUDGET
                        /\ mem[First'].action >= COOLDOWN
  BY <1>2, <1>4, <1>5
<1>9. QED
  BY <1>1, <1>3, <1>6, <1>7, <1>8, QuietStep

LEMMA UnmappedStep == RefereeInv /\ Unmapped => RefereeInv'
<1> SUFFICES ASSUME RefereeInv, Unmapped PROVE RefereeInv'
  OBVIOUS
<1>1. /\ at = "visit" /\ at' = "visit" /\ todo' = todo \ {First} /\ mem' = mem
      /\ saved' = saved /\ reverted' = reverted /\ lost' = lost
  BY DEF Unmapped, happened
<1>2. mem' \in [Guests -> Entries] /\ todo' \subseteq Guests
  BY <1>1 DEF RefereeInv, RoundTyped
<1>3. \A g \in Guests : Unvisited(g)' => Unvisited(g)
  BY <1>1 DEF Unvisited
<1>4. QED
  BY <1>1, <1>2, <1>3, QuietStep

LEMMA RearmStep == RefereeInv /\ Rearm => RefereeInv'
<1> SUFFICES ASSUME RefereeInv, Rearm PROVE RefereeInv'
  OBVIOUS
<1>1. /\ at = "rearm" /\ at' = "visit" /\ todo' = todo \ {First} /\ mem' = mem
      /\ saved' = saved /\ reverted' = reverted /\ lost' = lost
  BY DEF Rearm, happened
<1>2. mem' \in [Guests -> Entries] /\ todo' \subseteq Guests
  BY <1>1 DEF RefereeInv, RoundTyped
<1>3. \A g \in Guests : Unvisited(g)' => Unvisited(g)
  BY <1>1 DEF Unvisited
<1>4. QED
  BY <1>1, <1>2, <1>3, QuietStep

\* A round reverts a guest once, counts it, and reports to the file when it is over.
LEMMA RevertStep == RefereeInv /\ Revert => RefereeInv'
<1> SUFFICES ASSUME RefereeInv, Revert PROVE RefereeInv'
  OBVIOUS
<1> DEFINE g0 == First
<1>1. /\ at = "revert" /\ mem' = Counted(g0) /\ saved' = saved /\ lost' = lost
      /\ reverted' = [reverted EXCEPT ![g0] = Append(@, 0)]
      /\ \/ at' = "rearm" /\ todo' = todo
         \/ at' = "visit" /\ todo' = todo \ {g0}
  BY DEF Revert
<1>2. g0 \in todo /\ g0 \in Guests /\ todo # {} /\ Unvisited(g0)
  BY <1>1, FirstIsThere DEF RefereeInv, RoundSound, Unvisited
<1>3. at' = "rearm" => First' = g0
  BY <1>1 DEF First
<1>4. /\ mem[g0] \in Entries /\ KeptWithin(mem[g0])
      /\ Len(mem[g0].reverts) < REVERT_BUDGET /\ mem[g0].action >= COOLDOWN
      /\ mem[g0].reverts = saved[g0].reverts
  BY <1>1, <1>2 DEF RefereeInv, RoundSound, ListsSound, RoundTyped
<1> DEFINE f == [mem[g0] EXCEPT !.reverts = LastReverts(Append(@, 0)), !.action = 0]
<1>5. f \in Entries /\ f.reverts = LastReverts(Append(mem[g0].reverts, 0)) /\ KeptWithin(f)
  BY <1>4, RevertKept
<1>6. mem' = [mem EXCEPT ![g0] = f]
  BY <1>1, <1>2 DEF Counted, RefereeInv, RoundTyped
<1> HIDE DEF f, g0
<1>7. /\ mem' \in [Guests -> Entries] /\ mem'[g0] = f
      /\ \A g \in Guests : g # g0 => mem'[g] = mem[g]
  BY <1>2, <1>5, <1>6 DEF RefereeInv, RoundTyped
<1>8. /\ reverted' \in [Guests -> Seq(Ages)] /\ reverted'[g0] = Append(reverted[g0], 0)
      /\ Ordered(reverted'[g0]) /\ \A g \in Guests : g # g0 => reverted'[g] = reverted[g]
  <2>1. Append(reverted[g0], 0) \in Seq(Ages) /\ Ordered(Append(reverted[g0], 0))
    BY <1>2, ListsThere, RecentAppend
  <2>2. QED
    BY <1>1, <1>2, <2>1 DEF RefereeInv, RoundTyped
<1>9. RoundTyped'
  BY <1>1, <1>7, <1>8 DEF RefereeInv, RoundTyped
<1>10. ListsSound'
  BY <1>1, <1>5, <1>7, <1>8 DEF RefereeInv, ListsSound
<1>11. RoundSound'
  <2>1. \A g \in Guests : Unvisited(g)' => g # g0 /\ Unvisited(g)
    BY <1>1, <1>3 DEF Unvisited
  <2>2. \A g \in Guests : Unvisited(g)' => mem'[g].reverts = saved'[g].reverts
    BY <1>1, <1>7, <2>1 DEF RefereeInv, RoundSound
  <2>3. QED
    BY <1>1, <1>2, <2>2 DEF RoundSound
<1>12. CountsSound'
  <2>1. SUFFICES ASSUME NEW g \in Guests, NEW a \in Ages
                 PROVE  /\ REVERT_BUDGET <= KEPT_REVERTS =>
                              Recent(reverted'[g], a) <= Recent(Counting(g)', a) + Recent(lost', a)
                        /\ Recent(saved'[g].reverts, a) <= Recent(reverted'[g], a)
                        /\ Recent(mem'[g].reverts, a) <= Recent(reverted'[g], a)
                        /\ Recent(mem'[g].reverts, a) <= Recent(saved'[g].reverts, a) + 1
    BY DEF CountsSound
  <2>2. Counting(g) = mem[g].reverts /\ Counting(g)' = mem'[g].reverts
    BY <1>1 DEF Counting
  <2>3. /\ REVERT_BUDGET <= KEPT_REVERTS =>
              Recent(reverted[g], a) <= Recent(mem[g].reverts, a) + Recent(lost, a)
        /\ Recent(saved[g].reverts, a) <= Recent(reverted[g], a)
        /\ Recent(mem[g].reverts, a) <= Recent(reverted[g], a)
        /\ Recent(mem[g].reverts, a) <= Recent(saved[g].reverts, a) + 1
    BY <2>2 DEF RefereeInv, CountsSound
  <2>4. CASE g # g0
    BY <1>1, <1>7, <1>8, <2>2, <2>3, <2>4
  <2>5. CASE g = g0
    <3> DEFINE l == Append(mem[g].reverts, 0)
    <3>4. /\ l \in Seq(Ages) /\ Ordered(l) /\ a \in Nat
          /\ Recent(l, a) = Recent(mem[g].reverts, a) + 1
          /\ Len(l) <= REVERT_BUDGET /\ Len(l) \in Nat
      <4>1. /\ mem[g].reverts \in Seq(Ages) /\ Ordered(mem[g].reverts) /\ a \in Nat
            /\ Len(mem[g].reverts) < REVERT_BUDGET
        BY <1>4, <2>5, ListsThere, RecentsAreNumbers
      <4>2. l \in Seq(Ages) /\ Ordered(l) /\ Recent(l, a) = Recent(mem[g].reverts, a) + 1
        BY <4>1, RecentAppend
      <4>3. Len(l) = Len(mem[g].reverts) + 1 /\ Len(mem[g].reverts) \in Nat
        BY <4>1, RefereeConstants DEF Ages
      <4>4. QED
        BY <4>1, <4>2, <4>3, RefereeConstants
    <3>5. mem'[g].reverts = LastReverts(l)
      BY <1>5, <1>7, <2>5
    <3> HIDE DEF l
    <3>6. Recent(LastReverts(l), a) <= Recent(l, a) /\ Recent(LastReverts(l), a) \in Nat
      <4>1. LastReverts(l) \in Seq(Ages) /\ Ordered(LastReverts(l))
        BY <3>4, LastRevertsAre
      <4>2. Recent(LastReverts(l), a) \in Nat
        BY <3>4, <4>1, RecentIs, ListIs
      <4>3. QED
        BY <3>4, <4>2, LastRevertsAre
    <3>7. REVERT_BUDGET <= KEPT_REVERTS => LastReverts(l) = l
      BY <3>4, LastRevertsAre, RefereeConstants
    <3>1. /\ Recent(reverted'[g], a) = Recent(reverted[g], a) + 1
          /\ Recent(mem'[g].reverts, a) <= Recent(mem[g].reverts, a) + 1
          /\ REVERT_BUDGET <= KEPT_REVERTS =>
                Recent(mem'[g].reverts, a) = Recent(mem[g].reverts, a) + 1
          /\ Recent(mem'[g].reverts, a) \in Nat
      <4>1. reverted[g] \in Seq(Ages) /\ Ordered(reverted[g]) /\ a \in Nat
        BY <3>4, ListsThere
      <4>2. Recent(Append(reverted[g], 0), a) = Recent(reverted[g], a) + 1
        BY <4>1, RecentAppend
      <4>3. reverted'[g] = Append(reverted[g], 0)
        BY <1>8, <2>5
      <4>4. Recent(reverted'[g], a) = Recent(reverted[g], a) + 1
        BY <4>2, <4>3
      <4>5. QED
        BY <3>4, <3>5, <3>6, <3>7, <4>4
    <3>2. Recent(mem[g].reverts, a) = Recent(saved[g].reverts, a)
      BY <1>4, <2>5
    <3>3. QED
      BY <1>1, <2>2, <2>3, <3>1, <3>2, RecentsAreNumbers
  <2>6. QED
    BY <2>4, <2>5
<1>13. QED
  BY <1>9, <1>10, <1>11, <1>12 DEF RefereeInv

LEMMA SaveRoundStep == RefereeInv /\ SaveRound => RefereeInv'
<1> SUFFICES ASSUME RefereeInv, SaveRound PROVE RefereeInv'
  OBVIOUS
<1>1. /\ at = "visit" /\ at' = "idle" /\ todo' = {} /\ mem' = Untroubled /\ saved' = mem
      /\ reverted' = reverted /\ lost' = lost
  BY DEF SaveRound, RoundOver, happened
<1>2. RoundTyped'
  BY <1>1, UntroubledIs DEF RefereeInv, RoundTyped
<1>3. ListsSound'
  BY <1>1, UntroubledIs DEF RefereeInv, ListsSound
<1>4. RoundSound'
  BY <1>1 DEF RoundSound, Unvisited
<1>5. CountsSound'
  <2>1. \A g \in Guests : /\ Counting(g) = mem[g].reverts /\ Counting(g)' = mem[g].reverts
                          /\ mem'[g].reverts = <<>>
    BY <1>1, UntroubledIs DEF Counting
  <2>2. \A a \in Ages : Recent(<<>>, a) = 0
    BY NothingRecent, RefereeConstants DEF Ages
  <2>3. QED
    BY <1>1, <2>1, <2>2, RecentsAreNumbers DEF RefereeInv, CountsSound
<1>6. QED
  BY <1>2, <1>3, <1>4, <1>5 DEF RefereeInv

\* The file does not know of a lost round: of one revert of a guest at the most.
LEMMA LoseRoundStep == RefereeInv /\ LoseRound => RefereeInv'
<1> SUFFICES ASSUME RefereeInv, LoseRound PROVE RefereeInv'
  OBVIOUS
<1>1. /\ at # "idle" /\ at' = "idle" /\ todo' = {} /\ mem' = Untroubled /\ saved' = saved
      /\ lost' = Append(lost, 0)
      /\ \/ reverted' = reverted
         \/ at = "revert" /\ reverted' = [reverted EXCEPT ![First] = Append(@, 0)]
  BY DEF LoseRound, RoundOver
<1>2. lost' \in Seq(Ages) /\ Ordered(lost')
  BY <1>1, ListsThere, RecentAppend
<1>3. ASSUME NEW g \in Guests
      PROVE  \/ reverted'[g] = reverted[g]
             \/ reverted'[g] = Append(reverted[g], 0) /\ mem[g].reverts = saved[g].reverts
  <2>1. CASE reverted' = reverted
    BY <2>1
  <2>2. CASE at = "revert" /\ reverted' = [reverted EXCEPT ![First] = Append(@, 0)]
    <3>1. First \in Guests /\ Unvisited(First)
      BY <2>2, FirstIsThere DEF RefereeInv, RoundSound, Unvisited
    <3>2. QED
      BY <2>2, <3>1 DEF RefereeInv, RoundSound, RoundTyped
  <2>3. QED
    BY <1>1, <2>1, <2>2
<1>4. reverted' \in [Guests -> Seq(Ages)] /\ \A g \in Guests : Ordered(reverted'[g])
  <2>1. \A g \in Guests : reverted'[g] \in Seq(Ages) /\ Ordered(reverted'[g])
    BY <1>3, ListsThere, RecentAppend
  <2>2. \E f : reverted' = [x \in Guests |-> f[x]]
    BY <1>1 DEF RefereeInv, RoundTyped
  <2>3. QED
    BY <2>1, <2>2
<1>5. RoundTyped'
  BY <1>1, <1>2, <1>4, UntroubledIs DEF RefereeInv, RoundTyped
<1>6. ListsSound'
  BY <1>1, <1>2, <1>4, UntroubledIs DEF RefereeInv, ListsSound
<1>7. RoundSound'
  BY <1>1 DEF RoundSound, Unvisited
<1>8. CountsSound'
  <2>1. SUFFICES ASSUME NEW g \in Guests, NEW a \in Ages
                 PROVE  /\ REVERT_BUDGET <= KEPT_REVERTS =>
                              Recent(reverted'[g], a) <= Recent(saved[g].reverts, a) + Recent(lost', a)
                        /\ Recent(saved[g].reverts, a) <= Recent(reverted'[g], a)
                        /\ 0 <= Recent(reverted'[g], a)
    <3>1. \A g \in Guests : Counting(g)' = saved[g].reverts /\ mem'[g].reverts = <<>>
      BY <1>1, UntroubledIs DEF Counting
    <3>2. \A a \in Ages : Recent(<<>>, a) = 0
      BY NothingRecent, RefereeConstants DEF Ages
    <3>3. \A g \in Guests, a \in Ages : Recent(saved[g].reverts, a) \in Nat
      BY RecentsAreNumbers
    <3>4. QED
      BY <1>1, <2>1, <3>1, <3>2, <3>3 DEF CountsSound
  <2>2. Recent(lost', a) = Recent(lost, a) + 1
    BY <1>1, ListsThere, RecentAppend, RecentsAreNumbers
  <2>3. /\ REVERT_BUDGET <= KEPT_REVERTS =>
              Recent(reverted[g], a) <= Recent(mem[g].reverts, a) + Recent(lost, a)
        /\ Recent(saved[g].reverts, a) <= Recent(reverted[g], a)
        /\ Recent(mem[g].reverts, a) <= Recent(saved[g].reverts, a) + 1
    BY <1>1 DEF RefereeInv, CountsSound, Counting
  <2>4. CASE reverted'[g] = reverted[g]
    BY <2>2, <2>3, <2>4, RecentsAreNumbers
  <2>5. CASE reverted'[g] = Append(reverted[g], 0) /\ mem[g].reverts = saved[g].reverts
    <3>1. Recent(reverted'[g], a) = Recent(reverted[g], a) + 1
      BY <2>5, ListsThere, RecentAppend, RecentsAreNumbers
    <3>2. QED
      BY <2>2, <2>3, <2>5, <3>1, RecentsAreNumbers
  <2>6. QED
    BY <1>3, <2>4, <2>5
<1>9. QED
  BY <1>5, <1>6, <1>7, <1>8 DEF RefereeInv

LEMMA RefereeStep == RefereeInv /\ [RefereeNext]_refereeVars => RefereeInv'
BY GuestsStep, PassStep, RoundStartsStep, JudgeStep, UnmappedStep, RevertStep, RearmStep,
   SaveRoundStep, LoseRoundStep DEF RefereeNext

LEMMA RationedWell == RefereeInv => RevertsRationed
<1> SUFFICES ASSUME RefereeInv, NEW g \in Guests, REVERT_BUDGET <= KEPT_REVERTS
             PROVE  /\ Len(reverted[g]) <= REVERT_BUDGET + Len(lost)
                    /\ lost = <<>> => \A i, j \in DOMAIN reverted[g] :
                                         i < j => reverted[g][i] - reverted[g][j] >= COOLDOWN
  BY DEF RevertsRationed
<1> DEFINE c == Counting(g)
<1>1. /\ c \in Seq(Ages) /\ Ordered(c) /\ reverted[g] \in Seq(Ages) /\ Ordered(reverted[g])
      /\ lost \in Seq(Ages) /\ Ordered(lost) /\ WINDOW \in Ages
  BY ListsThere, RefereeConstants DEF Ages
<1>2. Len(c) <= REVERT_BUDGET /\ Spaced(c)
  BY DEF Counting, RefereeInv, ListsSound, KeptWithin
<1>3. \A a \in Ages : /\ Recent(reverted[g], a) <= Recent(c, a) + Recent(lost, a)
                      /\ Recent(c, a) <= Recent(reverted[g], a)
  BY DEF Counting, RefereeInv, CountsSound
<1> HIDE DEF c
<1>4. Len(reverted[g]) <= Len(c) + Len(lost)
  BY <1>1, <1>3, RecentAll
<1>5. ASSUME lost = <<>>, NEW i \in DOMAIN reverted[g], NEW j \in DOMAIN reverted[g], i < j
      PROVE  reverted[g][i] - reverted[g][j] >= COOLDOWN
  <2>1. \A a \in Ages : Recent(reverted[g], a) = Recent(c, a)
    <3>1. SUFFICES ASSUME NEW a \in Ages PROVE Recent(reverted[g], a) = Recent(c, a)
      OBVIOUS
    <3>2. Recent(lost, a) = 0
      BY <1>5, NothingRecent, RefereeConstants DEF Ages
    <3>3. Recent(c, a) \in Nat /\ Recent(reverted[g], a) \in Nat
      BY RecentsAreNumbers DEF c
    <3>4. QED
      BY <1>3, <3>2, <3>3
  <2>2. reverted[g] = c
    BY <1>1, <2>1, SameRecent
  <2>3. reverted[g][i] >= reverted[g][j] + COOLDOWN
    BY <1>2, <1>5, <2>2 DEF Spaced
  <2>4. reverted[g][i] \in Nat /\ reverted[g][j] \in Nat
    BY <1>1, <1>5, ListIs
  <2>5. QED
    BY <2>3, <2>4, RefereeConstants
<1>6. Len(c) \in Nat /\ Len(lost) \in Nat /\ Len(reverted[g]) \in Nat
  BY <1>1, ListIs
<1>7. QED
  BY <1>2, <1>4, <1>5, <1>6, RefereeConstants

-----------------------------------------------------------------------------
(* The fixer of timeouts                                                    *)

\* Every file that is not spoiled reads as its author and the fixes since mean
\* it; a fix under way has only parsed texts left to write, and has none to add
\* to the files it passed over or has written.
FixStates == {"none", "refused", "audit", "fixing", "fixed", "killed"}
FlowTypes ==
    /\ author \in [Workflows -> Authored]
    /\ savedFlow = [w \in Workflows |-> savedFlow[w]]
    /\ DOMAIN fixing \subseteq Workflows
    /\ fixScope \in Scope
    /\ timeoutRun \in [did : FixStates, exit : 0..2, dry : BOOLEAN, scope : Scope]
    /\ reached \in [Workflows -> Reaches] /\ spoiled \subseteq Workflows
FlowsWhole ==
    \A w \in Workflows \ spoiled : author[w].shape # "flush" =>
        savedFlow[w] = Meant(author[w], reached[w])
TextsParsed == \A w \in DOMAIN fixing : ~Unparsed(fixing[w])
FixEnds ==
    /\ timeoutRun.did = "fixing" => timeoutRun.scope = fixScope
    /\ timeoutRun.did = "fixed" => DOMAIN fixing = {}
    /\ timeoutRun.did \in {"fixing", "fixed"} /\ ~timeoutRun.dry =>
          \A w \in Workflows \ (spoiled \cup DOMAIN fixing) : author[w].shape # "flush" =>
              /\ savedFlow[w] = Meant(author[w], reached[w] \cup Reach(timeoutRun.scope))
              /\ Editable(savedFlow[w], timeoutRun.scope) = {}
TimeoutsInv == FlowTypes /\ FlowsWhole /\ TextsParsed /\ FixEnds

LEMMA ReachesGrow ==
    ASSUME NEW r \in Reaches, NEW scope \in Scope
    PROVE  r \cup Reach(scope) \in Reaches
<1>1. CASE r = {}
  BY <1>1 DEF Reaches, Reach
<1>2. CASE r # {}
  <2>1. PICK s \in Scope : r = Reach(s)
    BY <1>2 DEF Reaches
  <2>2. s \cup scope \in Scope /\ r \cup Reach(scope) = Reach(s \cup scope)
    BY <2>1 DEF Scope, Reach
  <2>3. QED
    BY <2>2 DEF Reaches
<1>3. QED
  BY <1>1, <1>2

\* What a fix makes of a text that is whole.
LEMMA FixOfWhole ==
    ASSUME NEW a \in Authored, a.shape # "flush", NEW r \in Reaches, NEW scope \in Scope,
           NEW t, t = Meant(a, r), ~Unparsed(t)
    PROVE  /\ Inserted(t, scope) = Meant(a, r \cup Reach(scope))
           /\ Editable(t, scope) = {} => t = Meant(a, r \cup Reach(scope))
           /\ Editable(Inserted(t, scope), scope) = {}
BY FixIsRight

LEMMA TimeoutsStart == TimeoutsInit => TimeoutsInv
<1> SUFFICES ASSUME TimeoutsInit PROVE TimeoutsInv
  OBVIOUS
<1> USE DEF TimeoutsInit
<1>1. Plain \in Authored /\ {} \in Scope /\ {} \in Reaches
  BY DEF Plain, Authored, Shapes, TimeoutPlaces, Scope, Reaches
<1>2. FlowTypes
  BY <1>1 DEF FlowTypes, FixStates
<1>3. FlowsWhole
  BY <1>1, FixIsRight DEF FlowsWhole
<1>4. TextsParsed /\ FixEnds
  BY DEF TextsParsed, FixEnds
<1>5. QED
  BY <1>2, <1>3, <1>4 DEF TimeoutsInv

LEMMA TimeoutsStep == TimeoutsInv /\ [TimeoutsNext]_timeoutVars => TimeoutsInv'
<1> SUFFICES ASSUME TimeoutsInv, [TimeoutsNext]_timeoutVars PROVE TimeoutsInv'
  OBVIOUS
<1> USE DEF TimeoutsInv
<1>1. ASSUME NEW w \in Workflows, EditWorkflow(w) PROVE TimeoutsInv'
  <2>1. PICK a \in Authored :
            /\ author' = [author EXCEPT ![w] = a]
            /\ savedFlow' = [savedFlow EXCEPT ![w] = FlowText(a)]
    BY <1>1 DEF EditWorkflow
  <2>2. /\ reached' = [reached EXCEPT ![w] = {}] /\ spoiled' = spoiled \ {w}
        /\ timeoutRun' = [timeoutRun EXCEPT !.did = "none"]
        /\ UNCHANGED <<fixing, fixScope>>
    BY <1>1 DEF EditWorkflow
  <2>3. FlowTypes'
    BY <2>1, <2>2 DEF FlowTypes, FixStates, Reaches
  <2>4. FlowsWhole'
    <3>1. SUFFICES ASSUME NEW x \in Workflows \ spoiled', author'[x].shape # "flush"
                   PROVE  savedFlow'[x] = Meant(author'[x], reached'[x])
      BY DEF FlowsWhole
    <3>2. CASE x = w
      BY <2>1, <2>2, <3>2, FixIsRight DEF FlowTypes
    <3>3. CASE x # w
      BY <2>1, <2>2, <3>1, <3>3 DEF FlowTypes, FlowsWhole
    <3>4. QED
      BY <3>2, <3>3
  <2>5. TextsParsed' /\ FixEnds'
    BY <2>2 DEF TextsParsed, FixEnds, FlowTypes
  <2>6. QED
    BY <2>3, <2>4, <2>5
<1>2. ASSUME NEW scope \in Scope, NEW dry \in BOOLEAN, FixReads(scope, dry) PROVE TimeoutsInv'
  <2> DEFINE toEdit == {w \in Workflows : Editable(savedFlow[w], scope) # {}}
  <2>1. /\ DOMAIN fixing = {}
        /\ \A w \in Workflows : ~Unparsed(savedFlow[w])
        /\ fixing' = IF dry THEN << >> ELSE [w \in toEdit |-> savedFlow[w]]
        /\ fixScope' = scope
        /\ timeoutRun' = [did |-> IF dry \/ toEdit = {} THEN "fixed" ELSE "fixing",
                          exit |-> 0, dry |-> dry, scope |-> scope]
        /\ UNCHANGED <<author, savedFlow, reached, spoiled>>
    BY <1>2 DEF FixReads, StartTimeouts
  <2>2. FlowTypes'
    <3>1. timeoutRun' \in [did : FixStates, exit : 0..2, dry : BOOLEAN, scope : Scope]
      BY <2>1 DEF FixStates
    <3>2. DOMAIN fixing' \subseteq Workflows
      BY <2>1
    <3>3. QED
      BY <2>1, <3>1, <3>2 DEF FlowTypes
  <2>3. FlowsWhole'
    BY <2>1 DEF FlowsWhole
  <2>4. TextsParsed'
    BY <2>1 DEF TextsParsed
  <2>5. FixEnds'
    <3>1. (timeoutRun.did)' = "fixed" => DOMAIN fixing' = {}
      BY <2>1
    <3>2. ASSUME NEW w \in Workflows \ (spoiled \cup toEdit), author[w].shape # "flush"
          PROVE  /\ savedFlow[w] = Meant(author[w], reached[w] \cup Reach(scope))
                 /\ Editable(savedFlow[w], scope) = {}
      <4>1. author[w] \in Authored /\ reached[w] \in Reaches /\ ~Unparsed(savedFlow[w])
        BY <2>1 DEF FlowTypes
      <4>2. savedFlow[w] = Meant(author[w], reached[w])
        BY <3>2 DEF FlowsWhole
      <4>3. Editable(savedFlow[w], scope) = {}
        BY DEF toEdit
      <4>4. QED
        BY <3>2, <4>1, <4>2, <4>3, FixOfWhole
    <3>3. ~dry => DOMAIN fixing' = toEdit
      BY <2>1
    <3>4. (timeoutRun.scope)' = scope /\ (timeoutRun.dry)' = dry
      BY <2>1
    <3> HIDE DEF toEdit
    <3>5. QED
      BY <2>1, <3>1, <3>2, <3>3, <3>4 DEF FixEnds
  <2>6. QED
    BY <2>2, <2>3, <2>4, <2>5
<1>3. ASSUME NEW w \in Workflows, FixWrites(w) PROVE TimeoutsInv'
  <2>1. /\ w \in DOMAIN fixing
        /\ savedFlow' = [savedFlow EXCEPT ![w] = Inserted(fixing[w], fixScope)]
        /\ spoiled' = IF savedFlow[w] = fixing[w] THEN spoiled ELSE spoiled \cup {w}
        /\ reached' = [reached EXCEPT ![w] = @ \cup Reach(fixScope)]
        /\ fixing' = [x \in DOMAIN fixing \ {w} |-> fixing[x]]
        /\ UNCHANGED <<author, fixScope>>
    BY <1>3 DEF FixWrites
  <2>2. timeoutRun' = IF DOMAIN fixing = {w} /\ timeoutRun.did = "fixing"
                      THEN [timeoutRun EXCEPT !.did = "fixed"] ELSE timeoutRun
    BY <1>3 DEF FixWrites
  <2>3. timeoutRun' \in [did : FixStates, exit : 0..2, dry : BOOLEAN, scope : Scope]
    BY <2>2 DEF FlowTypes, FixStates
  <2>4. FlowTypes'
    <3>1. reached[w] \cup Reach(fixScope) \in Reaches
      BY ReachesGrow DEF FlowTypes
    <3>2. reached' \in [Workflows -> Reaches]
      BY <2>1, <3>1 DEF FlowTypes
    <3>3. QED
      BY <2>1, <2>3, <3>2 DEF FlowTypes
  <2>5. \A x \in Workflows : x # w =>
            /\ savedFlow'[x] = savedFlow[x] /\ reached'[x] = reached[x]
            /\ x \in spoiled' <=> x \in spoiled
    BY <2>1 DEF FlowTypes
  <2>6. ASSUME w \notin spoiled', author[w].shape # "flush"
        PROVE  /\ reached'[w] = reached[w] \cup Reach(fixScope)
               /\ savedFlow'[w] = Meant(author[w], reached[w] \cup Reach(fixScope))
               /\ Editable(savedFlow'[w], fixScope) = {}
    <3>1. savedFlow[w] = fixing[w] /\ w \notin spoiled
      BY <2>1, <2>6
    <3>2. fixing[w] = Meant(author[w], reached[w]) /\ ~Unparsed(fixing[w])
      BY <2>1, <2>6, <3>1 DEF FlowsWhole, TextsParsed
    <3>3. author[w] \in Authored /\ reached[w] \in Reaches /\ fixScope \in Scope
      BY DEF FlowTypes
    <3>4. /\ Inserted(fixing[w], fixScope) = Meant(author[w], reached[w] \cup Reach(fixScope))
          /\ Editable(Inserted(fixing[w], fixScope), fixScope) = {}
      BY <2>6, <3>2, <3>3, FixOfWhole
    <3>5. QED
      BY <2>1, <3>4 DEF FlowTypes
  <2>7. FlowsWhole'
    BY <2>1, <2>5, <2>6 DEF FlowsWhole
  <2>8. TextsParsed'
    BY <2>1 DEF TextsParsed
  <2>9. FixEnds'
    <3>1. /\ timeoutRun'.scope = timeoutRun.scope /\ timeoutRun'.dry = timeoutRun.dry
          /\ timeoutRun'.did = IF DOMAIN fixing = {w} /\ timeoutRun.did = "fixing"
                               THEN "fixed" ELSE timeoutRun.did
      BY <2>2 DEF FlowTypes
    <3>2. timeoutRun.did # "fixed"
      BY <2>1 DEF FixEnds
    <3>3. DOMAIN fixing' = DOMAIN fixing \ {w}
      BY <2>1
    <3>4. timeoutRun'.did = "fixed" => DOMAIN fixing' = {}
      BY <3>1, <3>2, <3>3
    <3>5. SUFFICES ASSUME timeoutRun'.did \in {"fixing", "fixed"}, ~timeoutRun'.dry,
                          NEW x \in Workflows \ (spoiled' \cup DOMAIN fixing'),
                          author'[x].shape # "flush"
                   PROVE  /\ savedFlow'[x] = Meant(author'[x], reached'[x] \cup Reach(timeoutRun'.scope))
                          /\ Editable(savedFlow'[x], timeoutRun'.scope) = {}
      BY <2>1, <3>1, <3>4 DEF FixEnds
    <3>6. timeoutRun.did = "fixing" /\ timeoutRun.scope = fixScope /\ ~timeoutRun.dry
      BY <3>1, <3>2, <3>5 DEF FixEnds
    <3>7. CASE x = w
      <4>1. (reached[w] \cup Reach(fixScope)) \cup Reach(fixScope) = reached[w] \cup Reach(fixScope)
        OBVIOUS
      <4>2. QED
        BY <2>1, <2>6, <3>1, <3>5, <3>6, <3>7, <4>1
    <3>8. CASE x # w
      <4>1. x \notin spoiled /\ x \notin DOMAIN fixing /\ author[x].shape # "flush"
        BY <2>1, <2>5, <3>3, <3>5, <3>8
      <4>2. /\ savedFlow[x] = Meant(author[x], reached[x] \cup Reach(timeoutRun.scope))
            /\ Editable(savedFlow[x], timeoutRun.scope) = {}
        BY <3>6, <4>1 DEF FixEnds
      <4>3. QED
        BY <2>1, <2>5, <3>1, <3>8, <4>2
    <3>9. QED
      BY <3>7, <3>8
  <2>10. QED
    BY <2>4, <2>7, <2>8, <2>9
<1>4. ASSUME NEW w \in Workflows, FixKilled(w) PROVE TimeoutsInv'
  <2>1. /\ \/ UNCHANGED <<savedFlow, spoiled>>
           \/ savedFlow' = [savedFlow EXCEPT ![w] = <<>>] /\ spoiled' = spoiled \cup {w}
        /\ fixing' = << >>
        /\ timeoutRun' = [timeoutRun EXCEPT !.did = "killed"]
        /\ UNCHANGED <<author, fixScope, reached>>
    BY <1>4 DEF FixKilled
  <2>2. timeoutRun' \in [did : FixStates, exit : 0..2, dry : BOOLEAN, scope : Scope]
        /\ timeoutRun'.did = "killed"
    BY <2>1 DEF FlowTypes, FixStates
  <2>3. FlowTypes'
    BY <2>1, <2>2 DEF FlowTypes
  <2>4. FlowsWhole'
    BY <2>1 DEF FlowsWhole, FlowTypes
  <2>5. TextsParsed' /\ FixEnds'
    BY <2>1, <2>2 DEF TextsParsed, FixEnds
  <2>6. QED
    BY <2>3, <2>4, <2>5
<1>5. ASSUME RefuseText PROVE TimeoutsInv'
  <2>1. /\ timeoutRun' = [did |-> "refused", exit |-> 2, dry |-> FALSE, scope |-> {}]
        /\ UNCHANGED <<author, savedFlow, fixing, fixScope, reached, spoiled>>
    BY <1>5 DEF RefuseText
  <2>2. {} \in Scope
    BY DEF Scope
  <2>3. timeoutRun' \in [did : FixStates, exit : 0..2, dry : BOOLEAN, scope : Scope]
        /\ timeoutRun'.did = "refused"
    BY <2>1, <2>2 DEF FixStates
  <2>4. QED
    BY <2>1, <2>3 DEF FlowTypes, FlowsWhole, TextsParsed, FixEnds
<1>6. ASSUME NEW scope \in Scope, AuditTimeouts(scope) PROVE TimeoutsInv'
  <2>1. /\ timeoutRun' \in [did : FixStates, exit : 0..2, dry : BOOLEAN, scope : Scope]
        /\ timeoutRun'.did = "audit"
    BY <1>6 DEF AuditTimeouts, FixStates
  <2>2. UNCHANGED <<author, savedFlow, fixing, fixScope, reached, spoiled>>
    BY <1>6 DEF AuditTimeouts
  <2>3. QED
    BY <2>1, <2>2 DEF FlowTypes, FlowsWhole, TextsParsed, FixEnds
<1>7. CASE UNCHANGED timeoutVars
  BY <1>7 DEF timeoutVars, FlowTypes, FlowsWhole, TextsParsed, FixEnds
<1>8. QED
  BY <1>1, <1>2, <1>3, <1>4, <1>5, <1>6, <1>7 DEF TimeoutsNext

LEMMA LandedWhole == TimeoutsInv => TimeoutsLandWhole
BY DEF TimeoutsInv, FixEnds, TimeoutsLandWhole

-----------------------------------------------------------------------------
(* The credentials of the runners                                           *)

ConfigLines == {"own", "begin", "end"}
OnlyOwn(config) == \A i \in DOMAIN config : config[i] = "own"

RunnerFiles ==
    [keys : {"none", "torn", "whole"}, config : Seq(ConfigLines), git : BOOLEAN, cargoOwn : BOOLEAN,
     cargoNet : BOOLEAN, dropin : BOOLEAN, active : BOOLEAN, packages : BOOLEAN, ownLines : Nat,
     torn : BOOLEAN, owed : BOOLEAN]

\* A file that was never cut has the lines of other hands, without a block or with one;
\* a drop-in is in force unless a restart is owed.
FilesSound(r) ==
    /\ r.torn \/ r.cargoOwn
    /\ \/ r.torn
       \/ OnlyOwn(r.config) /\ Len(r.config) = r.ownLines
       \/ BlockIsOnce(r.config) /\ Len(r.config) = r.ownLines + 2
    /\ r.dropin => r.active \/ r.owed

WholeRunner(r) == r.keys = "whole" /\ r.git /\ r.cargoNet /\ r.dropin /\ BlockIsOnce(r.config)

\* What the script has done by each of its steps.
ScriptSound(r, step, failed) ==
    /\ step >= 2 => r.keys = "whole"
    /\ step = 3 => OnlyOwn(r.config)
    /\ step >= 4 => BlockIsOnce(r.config)
    /\ step >= 5 => r.git
    /\ step >= 6 => r.cargoNet
    /\ step >= 7 => failed \/ r.dropin
    /\ step = 8 => ~ failed

\* The script runs at one host; the hosts before it have all of it, or have failed.
ApplySound ==
    /\ applying.at > 0 => /\ applying.host \in DOMAIN Runners /\ credExit = "none"
                          /\ ScriptSound(runner[Host], applying.at, applying.fail)
    /\ \A k \in DOMAIN Runners :
          k < applying.host => \/ Runners[k] \in refused \/ Runners[k] = Host
                               \/ WholeRunner(runner[Runners[k]])
    /\ applying.at = 0 => applying = NotApplying
    /\ credExit = "ok" => \A h \in Hosts : WholeRunner(runner[h])

ApplyRecords ==
    [host : 0..Len(Runners), at : 0..8, restart : {"ask", "never", "force"}, skipPackages : BOOLEAN,
     fail : BOOLEAN]

RunnersInv ==
    /\ runner \in [Hosts -> RunnerFiles]
    /\ applying \in ApplyRecords
    /\ \A h \in Hosts : FilesSound(runner[h])
    /\ ApplySound

\* Stripping leaves the lines of other hands, all of them if the file has no block or one.
LEMMA StripIs ==
    ASSUME NEW config \in Seq(ConfigLines)
    PROVE  /\ OutsideBlock(config) \in Seq(ConfigLines) /\ OnlyOwn(OutsideBlock(config))
           /\ OnlyOwn(config) => Len(OutsideBlock(config)) = Len(config)
           /\ BlockIsOnce(config) => Len(OutsideBlock(config)) + 2 = Len(config)
<1> DEFINE kept == {k \in DOMAIN config : ~Managed(config, k)}
           n == Cardinality(kept)
<1>1. Len(config) \in Nat /\ DOMAIN config = 1..Len(config)
  OBVIOUS
<1>2. IsFiniteSet(1..Len(config)) /\ Cardinality(1..Len(config)) = Len(config)
  BY <1>1, FS_Interval
<1>3. IsFiniteSet(kept) /\ n \in Nat
  BY <1>1, <1>2, FS_Subset, FS_CardinalityType
<1>4. OutsideBlock(config) = [i \in 1..n |-> "own"]
  BY DEF OutsideBlock
<1> HIDE DEF n
<1>5. /\ OutsideBlock(config) \in Seq(ConfigLines) /\ OnlyOwn(OutsideBlock(config))
      /\ Len(OutsideBlock(config)) = n
  BY <1>3, <1>4 DEF ConfigLines, OnlyOwn
<1>6. ASSUME OnlyOwn(config) PROVE n = Len(config)
  <2>1. kept = 1..Len(config)
    BY <1>1, <1>6 DEF OnlyOwn, Managed
  <2>2. QED
    BY <1>2, <2>1 DEF n
<1>7. ASSUME BlockIsOnce(config) PROVE n + 2 = Len(config)
  <2>1. PICK i \in DOMAIN config :
           /\ i + 1 \in DOMAIN config /\ config[i] = "begin" /\ config[i + 1] = "end"
           /\ \A k \in DOMAIN config \ {i, i + 1} : config[k] = "own"
    BY <1>7 DEF BlockIsOnce
  <2>2. ASSUME NEW k \in DOMAIN config PROVE Managed(config, k) <=> k \in {i, i + 1}
    <3>1. CASE k \in {i, i + 1}
      BY <2>1, <3>1 DEF Managed
    <3>2. CASE k \notin {i, i + 1}
      <4>1. config[k] = "own"
        BY <2>1, <3>2
      <4>2. ASSUME NEW j \in 1..(k - 1), config[j] = "begin" PROVE \E m \in j..k : config[m] = "end"
        <5>1. j \in DOMAIN config
          BY <1>1
        <5>2. j = i
          BY <2>1, <4>2, <5>1
        <5>3. i + 1 \in j..k
          BY <1>1, <3>2, <5>2
        <5>4. QED
          BY <2>1, <5>3
      <4>3. QED
        BY <3>2, <4>1, <4>2 DEF Managed
    <3>3. QED
      BY <3>1, <3>2
  <2>3. kept = ((1..Len(config)) \ {i}) \ {i + 1}
    BY <1>1, <2>2
  <2> DEFINE all == 1..Len(config)
             most == all \ {i}
  <2>4. IsFiniteSet(most) /\ Cardinality(most) = Len(config) - 1 /\ i + 1 \in most
    <3>1. i \in all /\ i + 1 \in most
      BY <1>1, <2>1
    <3> HIDE DEF all
    <3>2. IsFiniteSet(most) /\ Cardinality(most) = Cardinality(all) - 1
      BY <1>2, <3>1, FS_RemoveElement DEF all
    <3>3. QED
      BY <1>2, <3>1, <3>2 DEF all
  <2>5. n = Cardinality(most) - 1
    <3>1. kept = most \ {i + 1}
      BY <2>3
    <3> HIDE DEF most, kept
    <3>2. QED
      BY <2>4, <3>1, FS_RemoveElement DEF n
  <2>6. QED
    BY <1>1, <1>3, <2>4, <2>5
<1>8. QED
  BY <1>5, <1>6, <1>7

LEMMA BlockAdded ==
    ASSUME NEW config \in Seq(ConfigLines)
    PROVE  /\ config \o Block \in Seq(ConfigLines) /\ config \o <<"begin">> \in Seq(ConfigLines)
           /\ OnlyOwn(config) => BlockIsOnce(config \o Block)
           /\ Len(config \o Block) = Len(config) + 2
<1>1. Block \in Seq(ConfigLines) /\ <<"begin">> \in Seq(ConfigLines) /\ Len(Block) = 2
      /\ Block[1] = "begin" /\ Block[2] = "end"
  BY DEF Block, ConfigLines
<1>2. Len(config) \in Nat /\ DOMAIN config = 1..Len(config)
  OBVIOUS
<1>3. /\ config \o Block \in Seq(ConfigLines) /\ config \o <<"begin">> \in Seq(ConfigLines)
      /\ Len(config \o Block) = Len(config) + 2
  <2>1. /\ config \o Block \in Seq(ConfigLines) /\ config \o <<"begin">> \in Seq(ConfigLines)
        /\ Len(config \o Block) = Len(config) + Len(Block)
    BY <1>1, ConcatProperties
  <2>2. QED
    BY <1>1, <2>1
<1>4. ASSUME OnlyOwn(config) PROVE BlockIsOnce(config \o Block)
  <2> DEFINE c == config \o Block
  <2>1. DOMAIN c = 1..(Len(config) + 2)
    BY <1>3, LenProperties
  <2>2. \A k \in 1..(Len(config) + 2) :
           c[k] = IF k <= Len(config) THEN config[k] ELSE Block[k - Len(config)]
    <3>1. \A k \in 1..(Len(config) + Len(Block)) :
             c[k] = IF k <= Len(config) THEN config[k] ELSE Block[k - Len(config)]
      BY <1>1, ConcatProperties
    <3> HIDE DEF c
    <3>2. QED
      BY <1>1, <3>1
  <2> HIDE DEF c
  <2>3. c[Len(config) + 1] = "begin" /\ c[Len(config) + 2] = "end"
    BY <1>1, <1>2, <2>2
  <2>4. \A k \in 1..Len(config) : c[k] = "own"
    BY <1>2, <1>4, <2>2 DEF OnlyOwn
  <2>5. /\ Len(config) + 1 \in DOMAIN c /\ (Len(config) + 1) + 1 \in DOMAIN c
        /\ c[(Len(config) + 1) + 1] = "end"
        /\ \A k \in DOMAIN c \ {Len(config) + 1, (Len(config) + 1) + 1} : c[k] = "own"
    BY <1>2, <2>1, <2>3, <2>4
  <2>6. BlockIsOnce(c)
    BY <2>3, <2>5 DEF BlockIsOnce
  <2>7. QED
    BY <2>6 DEF c
<1>5. QED
  BY <1>3, <1>4

LEMMA OwnAdded ==
    ASSUME NEW config \in Seq(ConfigLines)
    PROVE  /\ Append(config, "own") \in Seq(ConfigLines)
           /\ Len(Append(config, "own")) = Len(config) + 1
           /\ OnlyOwn(config) => OnlyOwn(Append(config, "own"))
           /\ BlockIsOnce(config) => BlockIsOnce(Append(config, "own"))
<1> DEFINE c == Append(config, "own")
<1>1. Len(config) \in Nat /\ DOMAIN config = 1..Len(config)
  OBVIOUS
<1>2. c \in Seq(ConfigLines) /\ Len(c) = Len(config) + 1
  BY AppendProperties DEF ConfigLines
<1>3. DOMAIN c = 1..(Len(config) + 1) /\ (\A k \in DOMAIN config : c[k] = config[k])
      /\ c[Len(config) + 1] = "own"
  BY <1>1, <1>2
<1> HIDE DEF c
<1>4. OnlyOwn(config) => OnlyOwn(c)
  BY <1>1, <1>3 DEF OnlyOwn
<1>5. BlockIsOnce(config) => BlockIsOnce(c)
  <2>1. SUFFICES ASSUME NEW i \in DOMAIN config, i + 1 \in DOMAIN config,
                        config[i] = "begin", config[i + 1] = "end",
                        \A k \in DOMAIN config \ {i, i + 1} : config[k] = "own"
                 PROVE  BlockIsOnce(c)
    BY DEF BlockIsOnce
  <2>2. i \in DOMAIN c /\ i + 1 \in DOMAIN c /\ c[i] = "begin" /\ c[i + 1] = "end"
    BY <1>1, <1>3, <2>1
  <2>3. \A k \in DOMAIN c \ {i, i + 1} : c[k] = "own"
    BY <1>1, <1>3, <2>1
  <2>4. QED
    BY <2>2, <2>3 DEF BlockIsOnce
<1>6. QED
  BY <1>2, <1>4, <1>5 DEF c

-----------------------------------------------------------------------------
LEMMA HostIsThere ==
    ASSUME RunnersInv, applying.at > 0
    PROVE  /\ Host \in Hosts /\ runner[Host] \in RunnerFiles /\ FilesSound(runner[Host])
           /\ applying.host \in DOMAIN Runners /\ applying.host \in 1..Len(Runners)
           /\ credExit = "none" /\ ScriptSound(runner[Host], applying.at, applying.fail)
<1>1. applying.host \in DOMAIN Runners /\ DOMAIN Runners = 1..Len(Runners)
  BY CredentialsAssumption DEF RunnersInv, ApplySound
<1>2. Host \in Hosts
  BY <1>1 DEF Host, Hosts
<1>3. QED
  BY <1>1, <1>2 DEF RunnersInv, ApplySound

LEMMA RunnerLeft ==
    ASSUME RunnersInv, applying.at > 0, NEW changed \in RunnerFiles, FilesSound(changed),
           runner' = [runner EXCEPT ![Host] = changed]
    PROVE  /\ runner' \in [Hosts -> RunnerFiles] /\ runner'[Host] = changed
           /\ \A h \in Hosts : FilesSound(runner'[h])
           /\ \A h \in Hosts : h # Host => runner'[h] = runner[h]
<1>1. Host \in Hosts
  BY HostIsThere
<1>2. runner \in [Hosts -> RunnerFiles] /\ \A h \in Hosts : FilesSound(runner[h])
  BY DEF RunnersInv
<1>3. QED
  BY <1>1, <1>2

\* The script goes on at its host.
LEMMA ScriptAdvances ==
    ASSUME RunnersInv, applying.at \in 1..7, NEW changed \in RunnerFiles, FilesSound(changed),
           runner' = [runner EXCEPT ![Host] = changed],
           applying' \in ApplyRecords,
           applying'.host = applying.host, applying'.at = applying.at + 1,
           ScriptSound(changed, applying.at + 1, applying'.fail),
           refused' = refused, credExit' = credExit
    PROVE  RunnersInv'
<1>0. applying.at > 0
  OBVIOUS
<1>1. /\ runner' \in [Hosts -> RunnerFiles] /\ runner'[Host] = changed
      /\ \A h \in Hosts : FilesSound(runner'[h])
      /\ \A h \in Hosts : h # Host => runner'[h] = runner[h]
  BY <1>0, RunnerLeft
<1>2. Host' = Host /\ Host \in Hosts /\ applying.host \in DOMAIN Runners /\ credExit = "none"
  BY <1>0, HostIsThere DEF Host
<1>3. applying'.at > 0 /\ applying'.at # 0
  OBVIOUS
<1>4. ApplySound'
  <2>1. ScriptSound(runner'[Host'], applying'.at, applying'.fail)
    BY <1>1, <1>2
  <2>2. ASSUME NEW k \in DOMAIN Runners, k < applying'.host
        PROVE  Runners[k] \in refused' \/ Runners[k] = Host' \/ WholeRunner(runner'[Runners[k]])
    <3>1. Runners[k] \in Hosts
      BY DEF Hosts
    <3>2. Runners[k] \in refused \/ Runners[k] = Host \/ WholeRunner(runner[Runners[k]])
      BY <2>2 DEF RunnersInv, ApplySound
    <3>3. QED
      BY <1>1, <1>2, <3>1, <3>2
  <2>3. QED
    BY <1>2, <1>3, <2>1, <2>2 DEF ApplySound
<1>5. QED
  BY <1>1, <1>4 DEF RunnersInv

\* It ends there, and goes on to the next host, or the command ends.
LEMMA HostEndsStep ==
    ASSUME RunnersInv, applying.at > 0, NEW changed \in RunnerFiles, FilesSound(changed),
           runner' = [runner EXCEPT ![Host] = changed],
           NEW ok \in BOOLEAN, ok => WholeRunner(changed), HostEnds(ok)
    PROVE  RunnersInv'
<1>1. /\ runner' \in [Hosts -> RunnerFiles] /\ runner'[Host] = changed
      /\ \A h \in Hosts : FilesSound(runner'[h])
      /\ \A h \in Hosts : h # Host => runner'[h] = runner[h]
  BY RunnerLeft
<1>2. /\ Host \in Hosts /\ applying.host \in 1..Len(Runners) /\ credExit = "none"
      /\ DOMAIN Runners = 1..Len(Runners) /\ Len(Runners) \in Nat
  BY HostIsThere, CredentialsAssumption
<1>3. refused \subseteq refused' /\ (~ ok => Host \in refused')
  BY DEF HostEnds
<1>4. ASSUME NEW k \in DOMAIN Runners, k <= applying.host
      PROVE  Runners[k] \in refused' \/ WholeRunner(runner'[Runners[k]])
  <2>1. Runners[k] \in Hosts
    BY DEF Hosts
  <2>2. CASE Runners[k] = Host
    BY <1>1, <1>3, <2>2
  <2>3. CASE Runners[k] # Host
    <3>1. k # applying.host
      BY <2>3 DEF Host
    <3>2. k < applying.host
      BY <1>2, <1>4, <3>1
    <3>3. QED
      BY <1>1, <1>3, <2>1, <2>3, <3>2 DEF RunnersInv, ApplySound
  <2>4. QED
    BY <2>2, <2>3
<1>5. CASE applying.host < Len(Runners)
  <2>1. applying' = [applying EXCEPT !.host = @ + 1, !.at = 1, !.fail = FALSE] /\ credExit' = credExit
    BY <1>5 DEF HostEnds
  <2>2. /\ applying' \in ApplyRecords
        /\ applying'.host = applying.host + 1 /\ applying'.at = 1 /\ applying'.fail = FALSE
    <3>1. applying \in ApplyRecords /\ applying.host + 1 \in 0..Len(Runners)
      BY <1>2, <1>5 DEF RunnersInv
    <3>2. applying' = [host |-> applying.host + 1, at |-> 1, restart |-> applying.restart,
                       skipPackages |-> applying.skipPackages, fail |-> FALSE]
      BY <2>1, <3>1 DEF ApplyRecords
    <3>3. QED
      BY <3>1, <3>2 DEF ApplyRecords
  <2>3. applying'.host \in DOMAIN Runners
    BY <1>2, <1>5, <2>2
  <2>4. ScriptSound(runner'[Host'], applying'.at, applying'.fail)
    BY <2>2 DEF ScriptSound
  <2>5. \A k \in DOMAIN Runners :
           k < applying'.host => Runners[k] \in refused' \/ WholeRunner(runner'[Runners[k]])
    BY <1>2, <1>4, <2>2
  <2>6. ApplySound'
    <3>1. applying'.at > 0 /\ applying'.at # 0 /\ credExit' = "none" /\ credExit' # "ok"
      BY <1>2, <2>1, <2>2
    <3>2. QED
      BY <2>3, <2>4, <2>5, <3>1 DEF ApplySound
  <2>7. QED
    BY <1>1, <2>2, <2>6 DEF RunnersInv
<1>6. CASE ~ (applying.host < Len(Runners))
  <2>1. applying' = NotApplying /\ credExit' = IF refused' = {} THEN "ok" ELSE "failed"
    BY <1>6 DEF HostEnds
  <2>2. /\ applying' \in ApplyRecords
        /\ applying'.host = 0 /\ applying'.at = 0
    BY <1>2, <2>1 DEF NotApplying, ApplyRecords
  <2>3. \A k \in DOMAIN Runners : ~ (k < applying'.host)
    BY <1>2, <2>2
  <2>4. ASSUME credExit' = "ok", NEW h \in Hosts PROVE WholeRunner(runner'[h])
    <3>1. PICK k \in DOMAIN Runners : h = Runners[k]
      BY DEF Hosts
    <3>2. k <= applying.host
      BY <1>2, <1>6
    <3>3. refused' = {}
      BY <2>1, <2>4
    <3>4. QED
      BY <1>4, <3>1, <3>2, <3>3
  <2>5. ApplySound'
    BY <2>1, <2>2, <2>3, <2>4 DEF ApplySound
  <2>6. QED
    BY <1>1, <2>2, <2>5 DEF RunnersInv
<1>7. QED
  BY <1>5, <1>6

LEMMA StartConfigureStep == RunnersInv /\ StartConfigure => RunnersInv'
<1> SUFFICES ASSUME RunnersInv, StartConfigure PROVE RunnersInv'
  OBVIOUS
<1>1. applying = NotApplying /\ applying.at = 0 /\ runner' = runner
  BY DEF StartConfigure, NotApplying
<1>2. Len(Runners) \in Nat /\ DOMAIN Runners = 1..Len(Runners) /\ 1 \in DOMAIN Runners
  BY CredentialsAssumption
<1>3. CASE applying' = applying /\ credExit' = "failed"
  <2>1. applying.host = 0 /\ \A k \in DOMAIN Runners : ~ (k < 0)
    BY <1>1, <1>2 DEF NotApplying
  <2>2. ApplySound'
    BY <1>1, <1>2, <1>3, <2>1 DEF ApplySound
  <2>3. QED
    BY <1>1, <1>3, <2>2 DEF RunnersInv
<1>4. CASE \E restart \in {"ask", "never", "force"}, skip \in BOOLEAN :
             /\ applying' = [NotApplying EXCEPT !.host = 1, !.at = 1, !.restart = restart, !.skipPackages = skip]
             /\ credExit' = "none"
  <2>1. /\ applying' \in ApplyRecords
        /\ applying'.host = 1 /\ applying'.at = 1
    <3>1. PICK restart \in {"ask", "never", "force"}, skip \in BOOLEAN :
             applying' = [NotApplying EXCEPT !.host = 1, !.at = 1, !.restart = restart, !.skipPackages = skip]
      BY <1>4
    <3>2. applying' = [host |-> 1, at |-> 1, restart |-> restart, skipPackages |-> skip, fail |-> FALSE]
      BY <3>1 DEF NotApplying
    <3>3. QED
      BY <1>2, <3>2 DEF ApplyRecords
  <2>2. \A k \in DOMAIN Runners : ~ (k < applying'.host)
    BY <1>2, <2>1
  <2>3. ApplySound'
    BY <1>2, <1>4, <2>1, <2>2 DEF ApplySound, ScriptSound
  <2>4. QED
    BY <1>1, <2>1, <2>3 DEF RunnersInv
<1>5. QED
  BY <1>3, <1>4 DEF StartConfigure

LEMMA RunnerChangesStep == RunnersInv /\ RunnerChanges => RunnersInv'
<1> SUFFICES ASSUME RunnersInv, RunnerChanges PROVE RunnersInv'
  OBVIOUS
<1>1. applying = NotApplying /\ applying.at = 0 /\ applying.host = 0 /\ applying' = applying /\ credExit' = "none"
  BY DEF RunnerChanges, NotApplying
<1>2. PICK h \in Hosts : \E changed \in {Reverted,
             [runner[h] EXCEPT !.active = @ \/ runner[h].dropin, !.owed = @ /\ ~runner[h].dropin],
             [runner[h] EXCEPT !.cargoNet = FALSE],
             [runner[h] EXCEPT !.config = Append(@, "own"), !.ownLines = @ + 1]} :
          runner' = [runner EXCEPT ![h] = changed]
  BY DEF RunnerChanges
<1>0. PICK changed \in {Reverted,
             [runner[h] EXCEPT !.active = @ \/ runner[h].dropin, !.owed = @ /\ ~runner[h].dropin],
             [runner[h] EXCEPT !.cargoNet = FALSE],
             [runner[h] EXCEPT !.config = Append(@, "own"), !.ownLines = @ + 1]} :
          runner' = [runner EXCEPT ![h] = changed]
  BY <1>2
<1>3. runner[h] \in RunnerFiles /\ FilesSound(runner[h])
  BY DEF RunnersInv
<1>4. changed \in RunnerFiles /\ FilesSound(changed)
  <2>1. CASE changed = Reverted
    <3>1. <<"own">> \in Seq(ConfigLines) /\ OnlyOwn(<<"own">>) /\ Len(<<"own">>) = 1
      BY DEF ConfigLines, OnlyOwn
    <3>2. QED
      BY <2>1, <3>1 DEF Reverted, RunnerFiles, FilesSound
  <2>2. CASE changed = [runner[h] EXCEPT !.active = @ \/ runner[h].dropin, !.owed = @ /\ ~runner[h].dropin]
    BY <1>3, <2>2 DEF RunnerFiles, FilesSound
  <2>3. CASE changed = [runner[h] EXCEPT !.cargoNet = FALSE]
    BY <1>3, <2>3 DEF RunnerFiles, FilesSound
  <2>4. CASE changed = [runner[h] EXCEPT !.config = Append(@, "own"), !.ownLines = @ + 1]
    <3> DEFINE c == Append(runner[h].config, "own")
    <3>1. /\ runner[h].config \in Seq(ConfigLines) /\ runner[h].ownLines \in Nat
          /\ Len(runner[h].config) \in Nat
      BY <1>3 DEF RunnerFiles
    <3>2. /\ c \in Seq(ConfigLines) /\ Len(c) = Len(runner[h].config) + 1
          /\ OnlyOwn(runner[h].config) => OnlyOwn(c)
          /\ BlockIsOnce(runner[h].config) => BlockIsOnce(c)
      BY <3>1, OwnAdded
    <3>3. changed = [runner[h] EXCEPT !.config = c, !.ownLines = runner[h].ownLines + 1]
      BY <2>4
    <3> HIDE DEF c
    <3>4. /\ changed \in RunnerFiles /\ changed.config = c /\ changed.ownLines = runner[h].ownLines + 1
          /\ changed.torn = runner[h].torn /\ changed.cargoOwn = runner[h].cargoOwn
          /\ changed.dropin = runner[h].dropin /\ changed.active = runner[h].active
          /\ changed.owed = runner[h].owed
      <4>1. changed = [keys |-> runner[h].keys, config |-> c, git |-> runner[h].git,
                       cargoOwn |-> runner[h].cargoOwn, cargoNet |-> runner[h].cargoNet,
                       dropin |-> runner[h].dropin, active |-> runner[h].active,
                       packages |-> runner[h].packages, ownLines |-> runner[h].ownLines + 1,
                       torn |-> runner[h].torn, owed |-> runner[h].owed]
        BY <1>3, <3>3 DEF RunnerFiles
      <4>2. QED
        BY <1>3, <3>1, <3>2, <4>1 DEF RunnerFiles
    <3>5. QED
      BY <1>3, <3>1, <3>2, <3>4 DEF FilesSound
  <2>5. QED
    BY <2>1, <2>2, <2>3, <2>4
<1>5. runner' \in [Hosts -> RunnerFiles] /\ \A g \in Hosts : FilesSound(runner'[g])
  BY <1>0, <1>4 DEF RunnersInv
<1>6. ApplySound'
  <2>1. \A k \in DOMAIN Runners : ~ (k < 0)
    BY CredentialsAssumption
  <2>2. QED
    BY <1>1, <2>1 DEF ApplySound
<1>7. QED
  BY <1>1, <1>5, <1>6 DEF RunnersInv

\* What one step of the script leaves of the files, and that the script goes on after it.
LEMMA Advanced ==
    ASSUME RunnersInv, applying.at \in 1..7, NEW failed \in BOOLEAN,
           applying' = [applying EXCEPT !.at = @ + 1, !.fail = failed]
    PROVE  /\ applying' \in ApplyRecords /\ applying'.host = applying.host
           /\ applying'.at = applying.at + 1 /\ applying'.fail = failed
<1>1. applying \in ApplyRecords
  BY DEF RunnersInv
<1>2. applying' = [host |-> applying.host, at |-> applying.at + 1, restart |-> applying.restart,
                   skipPackages |-> applying.skipPackages, fail |-> failed]
  BY <1>1 DEF ApplyRecords
<1>3. applying.at + 1 \in 0..8
  OBVIOUS
<1>4. QED
  BY <1>1, <1>2, <1>3 DEF ApplyRecords

LEMMA AdvanceIs ==
    ASSUME RunnersInv, applying.at \in 1..7, Advance
    PROVE  /\ applying' \in ApplyRecords /\ applying'.host = applying.host
           /\ applying'.at = applying.at + 1 /\ applying'.fail = applying.fail
           /\ refused' = refused /\ credExit' = credExit
<1>1. applying \in ApplyRecords /\ applying' = [applying EXCEPT !.at = @ + 1]
      /\ refused' = refused /\ credExit' = credExit
  BY DEF RunnersInv, Advance
<1>2. applying' = [host |-> applying.host, at |-> applying.at + 1, restart |-> applying.restart,
                   skipPackages |-> applying.skipPackages, fail |-> applying.fail]
  BY <1>1 DEF ApplyRecords
<1>3. applying.at + 1 \in 0..8
  OBVIOUS
<1>4. QED
  BY <1>1, <1>2, <1>3 DEF ApplyRecords

LEMMA ScriptGoesOn ==
    ASSUME RunnersInv, NEW changed \in RunnerFiles, FilesSound(changed), applying.at \in 1..7,
           runner' = [runner EXCEPT ![Host] = changed],
           \/ Advance /\ ScriptSound(changed, applying.at + 1, applying.fail)
           \/ /\ applying' = [applying EXCEPT !.at = @ + 1, !.fail = TRUE]
              /\ UNCHANGED <<refused, credExit>>
              /\ ScriptSound(changed, applying.at + 1, TRUE)
    PROVE  RunnersInv'
<1>1. CASE Advance /\ ScriptSound(changed, applying.at + 1, applying.fail)
  <2>1. /\ applying' \in ApplyRecords /\ applying'.host = applying.host
        /\ applying'.at = applying.at + 1 /\ applying'.fail = applying.fail
        /\ refused' = refused /\ credExit' = credExit
    BY <1>1, AdvanceIs
  <2>2. ScriptSound(changed, applying.at + 1, applying'.fail)
    BY <1>1, <2>1
  <2>3. QED
    BY <2>1, <2>2, ScriptAdvances
<1>2. CASE /\ applying' = [applying EXCEPT !.at = @ + 1, !.fail = TRUE]
           /\ UNCHANGED <<refused, credExit>>
           /\ ScriptSound(changed, applying.at + 1, TRUE)
  <2>1. /\ applying' \in ApplyRecords /\ applying'.host = applying.host
        /\ applying'.at = applying.at + 1 /\ applying'.fail = TRUE
        /\ refused' = refused /\ credExit' = credExit
    BY <1>2, Advanced
  <2>2. ScriptSound(changed, applying.at + 1, applying'.fail)
    BY <1>2, <2>1
  <2>3. QED
    BY <2>1, <2>2, ScriptAdvances
<1>3. QED
  BY <1>1, <1>2

LEMMA StepOf ==
    ASSUME RunnersInv, NEW n \in 1..8, applying.at > 0, ApplySteps[applying.at] = ApplySteps[n]
    PROVE  applying.at = n
<1>1. applying.at \in 1..8
  BY DEF RunnersInv, ApplyRecords
<1>2. QED
  BY <1>1 DEF ApplySteps

LEMMA WriteKeysStep == RunnersInv /\ WriteKeys => RunnersInv'
<1> SUFFICES ASSUME RunnersInv, WriteKeys PROVE RunnersInv'
  OBVIOUS
<1> DEFINE r == runner[Host]
           changed == [r EXCEPT !.keys = "whole"]
<1>1. applying.at > 0 /\ runner' = [runner EXCEPT ![Host] = changed] /\ Advance
  BY DEF WriteKeys, Remotely, Leaves
<1>2. applying.at = 1 /\ applying.at \in 1..7
  BY <1>1, StepOf DEF WriteKeys, Remotely, ApplySteps
<1>3. r \in RunnerFiles /\ FilesSound(r) /\ ScriptSound(r, 1, applying.fail)
  BY <1>1, <1>2, HostIsThere
<1>4. changed \in RunnerFiles /\ FilesSound(changed) /\ changed.keys = "whole"
  BY <1>3 DEF RunnerFiles, FilesSound
<1> HIDE DEF changed
<1>5. ScriptSound(changed, applying.at + 1, applying.fail)
  BY <1>2, <1>4 DEF ScriptSound
<1>6. QED
  BY <1>1, <1>2, <1>4, <1>5, ScriptGoesOn

LEMMA StripBlockStep == RunnersInv /\ StripBlock => RunnersInv'
<1> SUFFICES ASSUME RunnersInv, StripBlock PROVE RunnersInv'
  OBVIOUS
<1> DEFINE r == runner[Host]
           stripped == OutsideBlock(r.config)
           changed == [r EXCEPT !.config = stripped]
<1>1. applying.at > 0 /\ runner' = [runner EXCEPT ![Host] = changed] /\ Advance
  BY DEF StripBlock, Remotely, Leaves
<1>2. applying.at = 2 /\ applying.at \in 1..7
  BY <1>1, StepOf DEF StripBlock, Remotely, ApplySteps
<1>3. r \in RunnerFiles /\ FilesSound(r) /\ ScriptSound(r, 2, applying.fail)
  BY <1>1, <1>2, HostIsThere
<1>4. /\ r.config \in Seq(ConfigLines) /\ Len(r.config) \in Nat /\ r.ownLines \in Nat
  BY <1>3 DEF RunnerFiles
<1>5. /\ stripped \in Seq(ConfigLines) /\ OnlyOwn(stripped) /\ Len(stripped) \in Nat
      /\ OnlyOwn(r.config) => Len(stripped) = Len(r.config)
      /\ BlockIsOnce(r.config) => Len(stripped) + 2 = Len(r.config)
  BY <1>4, StripIs
<1> HIDE DEF stripped, r
<1>6. /\ changed \in RunnerFiles /\ changed.config = stripped /\ changed.keys = r.keys
      /\ changed.ownLines = r.ownLines /\ changed.torn = r.torn /\ changed.cargoOwn = r.cargoOwn
      /\ changed.dropin = r.dropin /\ changed.active = r.active /\ changed.owed = r.owed
  BY <1>3, <1>5 DEF RunnerFiles
<1> HIDE DEF changed
<1>7. FilesSound(changed)
  BY <1>3, <1>4, <1>5, <1>6 DEF FilesSound
<1>8. ScriptSound(changed, applying.at + 1, applying.fail)
  BY <1>2, <1>3, <1>5, <1>6 DEF ScriptSound
<1>9. QED
  BY <1>1, <1>2, <1>6, <1>7, <1>8, ScriptGoesOn

LEMMA AppendBlockStep == RunnersInv /\ AppendBlock => RunnersInv'
<1> SUFFICES ASSUME RunnersInv, AppendBlock PROVE RunnersInv'
  OBVIOUS
<1> DEFINE r == runner[Host]
           added == r.config \o Block
           changed == [r EXCEPT !.config = added]
<1>1. applying.at > 0 /\ runner' = [runner EXCEPT ![Host] = changed] /\ Advance
  BY DEF AppendBlock, Remotely, Leaves
<1>2. applying.at = 3 /\ applying.at \in 1..7
  BY <1>1, StepOf DEF AppendBlock, Remotely, ApplySteps
<1>3. r \in RunnerFiles /\ FilesSound(r) /\ ScriptSound(r, 3, applying.fail) /\ OnlyOwn(r.config)
  BY <1>1, <1>2, HostIsThere DEF ScriptSound
<1>4. /\ r.config \in Seq(ConfigLines) /\ Len(r.config) \in Nat /\ r.ownLines \in Nat
  BY <1>3 DEF RunnerFiles
<1>5. added \in Seq(ConfigLines) /\ BlockIsOnce(added) /\ Len(added) = Len(r.config) + 2
  BY <1>3, <1>4, BlockAdded
<1>6. BlockIsOnce(r.config) => FALSE
  BY <1>3 DEF BlockIsOnce, OnlyOwn
<1> HIDE DEF added, r
<1>7. /\ changed \in RunnerFiles /\ changed.config = added /\ changed.keys = r.keys
      /\ changed.ownLines = r.ownLines /\ changed.torn = r.torn /\ changed.cargoOwn = r.cargoOwn
      /\ changed.dropin = r.dropin /\ changed.active = r.active /\ changed.owed = r.owed
  BY <1>3, <1>5 DEF RunnerFiles
<1> HIDE DEF changed
<1>8. FilesSound(changed)
  BY <1>3, <1>4, <1>5, <1>6, <1>7 DEF FilesSound
<1>9. ScriptSound(changed, applying.at + 1, applying.fail)
  BY <1>2, <1>3, <1>5, <1>7 DEF ScriptSound
<1>10. QED
  BY <1>1, <1>2, <1>7, <1>8, <1>9, ScriptGoesOn

LEMMA SetGitStep == RunnersInv /\ SetGit => RunnersInv'
<1> SUFFICES ASSUME RunnersInv, SetGit PROVE RunnersInv'
  OBVIOUS
<1> DEFINE r == runner[Host]
           changed == [r EXCEPT !.git = TRUE]
<1>1. applying.at > 0 /\ runner' = [runner EXCEPT ![Host] = changed] /\ Advance
  BY DEF SetGit, Remotely, Leaves
<1>2. applying.at = 4 /\ applying.at \in 1..7
  BY <1>1, StepOf DEF SetGit, Remotely, ApplySteps
<1>3. r \in RunnerFiles /\ FilesSound(r) /\ ScriptSound(r, 4, applying.fail)
  BY <1>1, <1>2, HostIsThere
<1>4. changed \in RunnerFiles /\ FilesSound(changed) /\ changed.git
      /\ changed.keys = r.keys /\ changed.config = r.config
  BY <1>3 DEF RunnerFiles, FilesSound
<1> HIDE DEF changed
<1>5. ScriptSound(changed, applying.at + 1, applying.fail)
  BY <1>2, <1>3, <1>4 DEF ScriptSound
<1>6. QED
  BY <1>1, <1>2, <1>4, <1>5, ScriptGoesOn

LEMMA PatchCargoStep == RunnersInv /\ PatchCargo => RunnersInv'
<1> SUFFICES ASSUME RunnersInv, PatchCargo PROVE RunnersInv'
  OBVIOUS
<1> DEFINE r == runner[Host]
           changed == [r EXCEPT !.cargoNet = TRUE]
<1>1. applying.at > 0 /\ runner' = [runner EXCEPT ![Host] = changed] /\ Advance
  BY DEF PatchCargo, Remotely, Leaves
<1>2. applying.at = 5 /\ applying.at \in 1..7
  BY <1>1, StepOf DEF PatchCargo, Remotely, ApplySteps
<1>3. r \in RunnerFiles /\ FilesSound(r) /\ ScriptSound(r, 5, applying.fail)
  BY <1>1, <1>2, HostIsThere
<1>4. changed \in RunnerFiles /\ FilesSound(changed) /\ changed.cargoNet
      /\ changed.keys = r.keys /\ changed.config = r.config /\ changed.git = r.git
  BY <1>3 DEF RunnerFiles, FilesSound
<1> HIDE DEF changed
<1>5. ScriptSound(changed, applying.at + 1, applying.fail)
  BY <1>2, <1>3, <1>4 DEF ScriptSound
<1>6. QED
  BY <1>1, <1>2, <1>4, <1>5, ScriptGoesOn

LEMMA UnitEnvironmentStep == RunnersInv /\ UnitEnvironment => RunnersInv'
<1> SUFFICES ASSUME RunnersInv, UnitEnvironment PROVE RunnersInv'
  OBVIOUS
<1> DEFINE r == runner[Host]
<1>1. applying.at > 0 /\ applying.at = 6 /\ applying.at \in 1..7
  BY StepOf DEF UnitEnvironment, Remotely, ApplySteps
<1>2. r \in RunnerFiles /\ FilesSound(r) /\ ScriptSound(r, 6, applying.fail) /\ applying.fail \in BOOLEAN
  BY <1>1, HostIsThere DEF RunnersInv, ApplyRecords
<1>3. runner' = runner => runner' = [runner EXCEPT ![Host] = r]
  BY DEF RunnersInv
<1>4. CASE UnitInPlace
  <2>1. ScriptSound(r, applying.at + 1, applying.fail) /\ runner' = runner /\ Advance
    BY <1>1, <1>2, <1>4 DEF ScriptSound, UnitInPlace
  <2>2. QED
    BY <1>1, <1>2, <1>3, <2>1, ScriptGoesOn
<1>5. CASE UnitMissing
  <2>1. /\ ScriptSound(r, applying.at + 1, TRUE) /\ runner' = runner
        /\ applying' = [applying EXCEPT !.at = @ + 1, !.fail = TRUE]
        /\ UNCHANGED <<refused, credExit>>
    BY <1>1, <1>2, <1>5 DEF ScriptSound, UnitMissing
  <2>2. QED
    BY <1>1, <1>2, <1>3, <2>1, ScriptGoesOn
<1>6. CASE RestartLeftOut
  <2> DEFINE changed == [r EXCEPT !.dropin = TRUE, !.owed = TRUE]
  <2>1. runner' = [runner EXCEPT ![Host] = changed] /\ Advance
    BY <1>6 DEF RestartLeftOut, Leaves
  <2>2. /\ changed \in RunnerFiles /\ FilesSound(changed) /\ changed.dropin
        /\ changed.keys = r.keys /\ changed.config = r.config /\ changed.git = r.git
        /\ changed.cargoNet = r.cargoNet
    BY <1>2 DEF RunnerFiles, FilesSound
  <2> HIDE DEF changed
  <2>3. ScriptSound(changed, applying.at + 1, applying.fail)
    BY <1>1, <1>2, <2>2 DEF ScriptSound
  <2>4. QED
    BY <1>1, <2>1, <2>2, <2>3, ScriptGoesOn
<1>7. CASE Restarted
  <2> DEFINE changed == [r EXCEPT !.dropin = TRUE, !.active = TRUE, !.owed = FALSE]
  <2>1. runner' = [runner EXCEPT ![Host] = changed] /\ Advance
    BY <1>7 DEF Restarted, Leaves
  <2>2. /\ changed \in RunnerFiles /\ FilesSound(changed) /\ changed.dropin
        /\ changed.keys = r.keys /\ changed.config = r.config /\ changed.git = r.git
        /\ changed.cargoNet = r.cargoNet
    BY <1>2 DEF RunnerFiles, FilesSound
  <2> HIDE DEF changed
  <2>3. ScriptSound(changed, applying.at + 1, applying.fail)
    BY <1>1, <1>2, <2>2 DEF ScriptSound
  <2>4. QED
    BY <1>1, <2>1, <2>2, <2>3, ScriptGoesOn
<1>8. CASE RestartFailed
  <2> DEFINE changed == [r EXCEPT !.dropin = TRUE, !.owed = TRUE]
  <2>1. /\ runner' = [runner EXCEPT ![Host] = changed]
        /\ applying' = [applying EXCEPT !.at = @ + 1, !.fail = TRUE]
        /\ UNCHANGED <<refused, credExit>>
    BY <1>8 DEF RestartFailed, Leaves
  <2>2. /\ changed \in RunnerFiles /\ FilesSound(changed) /\ changed.dropin
        /\ changed.keys = r.keys /\ changed.config = r.config /\ changed.git = r.git
        /\ changed.cargoNet = r.cargoNet
    BY <1>2 DEF RunnerFiles, FilesSound
  <2> HIDE DEF changed
  <2>3. ScriptSound(changed, applying.at + 1, TRUE)
    BY <1>1, <1>2, <2>2 DEF ScriptSound
  <2>4. QED
    BY <1>1, <2>1, <2>2, <2>3, ScriptGoesOn
<1>9. QED
  BY <1>4, <1>5, <1>6, <1>7, <1>8 DEF UnitEnvironment

LEMMA SummaryStepStep == RunnersInv /\ SummaryStep => RunnersInv'
<1> SUFFICES ASSUME RunnersInv, SummaryStep PROVE RunnersInv'
  OBVIOUS
<1> DEFINE r == runner[Host]
<1>1. applying.at > 0 /\ applying.at = 7 /\ applying.at \in 1..7
  BY StepOf DEF SummaryStep, Remotely, ApplySteps
<1>2. r \in RunnerFiles /\ FilesSound(r) /\ ScriptSound(r, 7, applying.fail)
  BY <1>1, HostIsThere
<1>3. runner' = [runner EXCEPT ![Host] = r]
  BY DEF RunnersInv, SummaryStep
<1>4. CASE applying.fail
  <2>1. HostEnds(FALSE)
    BY <1>4 DEF SummaryStep
  <2>2. QED
    BY <1>1, <1>2, <1>3, <2>1, HostEndsStep
<1>5. CASE ~ applying.fail
  <2>1. Advance
    BY <1>5 DEF SummaryStep
  <2>2. ScriptSound(r, applying.at + 1, applying.fail)
    BY <1>1, <1>2, <1>5 DEF ScriptSound
  <2>3. QED
    BY <1>1, <1>2, <1>3, <2>1, <2>2, ScriptGoesOn
<1>6. QED
  BY <1>4, <1>5

LEMMA InstallPackagesStep == RunnersInv /\ InstallPackages => RunnersInv'
<1> SUFFICES ASSUME RunnersInv, InstallPackages PROVE RunnersInv'
  OBVIOUS
<1> DEFINE r == runner[Host]
           installed == [r EXCEPT !.packages = TRUE]
<1>1. applying.at > 0 /\ applying.at = 8
  BY StepOf DEF InstallPackages, Remotely, ApplySteps
<1>2. r \in RunnerFiles /\ FilesSound(r) /\ ScriptSound(r, 8, applying.fail)
  BY <1>1, HostIsThere
<1>3. WholeRunner(r)
  BY <1>2 DEF ScriptSound, WholeRunner
<1>4. installed \in RunnerFiles /\ FilesSound(installed) /\ WholeRunner(installed)
  BY <1>2, <1>3 DEF RunnerFiles, FilesSound, WholeRunner
<1> HIDE DEF installed
<1>5. CASE runner' = runner
  <2>1. runner' = [runner EXCEPT ![Host] = r]
    BY <1>5 DEF RunnersInv
  <2>2. CASE HostEnds(TRUE)
    BY <1>1, <1>2, <1>3, <2>1, <2>2, HostEndsStep
  <2>3. CASE HostEnds(FALSE)
    BY <1>1, <1>2, <2>1, <2>3, HostEndsStep
  <2>4. QED
    BY <2>2, <2>3 DEF InstallPackages
<1>6. CASE Leaves(installed) /\ HostEnds(TRUE)
  BY <1>1, <1>4, <1>6, HostEndsStep DEF Leaves
<1>7. QED
  BY <1>5, <1>6 DEF InstallPackages, installed

LEMMA HostCutStep == RunnersInv /\ HostCut => RunnersInv'
<1> SUFFICES ASSUME RunnersInv, HostCut PROVE RunnersInv'
  OBVIOUS
<1> DEFINE r == runner[Host]
<1>1. applying.at > 0
  <2>1. applying.at \in 0..8 /\ applying.at # 0
    BY DEF RunnersInv, ApplySound, ApplyRecords, HostCut
  <2>2. QED
    BY <2>1
<1>2. r \in RunnerFiles /\ FilesSound(r)
  BY <1>1, HostIsThere
<1>3. PICK left \in CutShort(r) : Leaves(left)
  BY DEF HostCut
<1>4. left \in RunnerFiles /\ FilesSound(left)
  <2>1. CASE left = r
    BY <1>2, <2>1
  <2>2. CASE left = [r EXCEPT !.keys = "torn"]
    BY <1>2, <2>2 DEF RunnerFiles, FilesSound
  <2>3. CASE left = [r EXCEPT !.config = @ \o <<"begin">>, !.torn = TRUE]
    <3> DEFINE c == r.config \o <<"begin">>
    <3>1. c \in Seq(ConfigLines)
      BY <1>2, BlockAdded DEF RunnerFiles
    <3>2. left = [r EXCEPT !.config = c, !.torn = TRUE]
      BY <2>3
    <3> HIDE DEF c
    <3>3. left \in RunnerFiles /\ left.torn /\ left.dropin = r.dropin /\ left.active = r.active
          /\ left.owed = r.owed
      BY <1>2, <3>1, <3>2 DEF RunnerFiles
    <3>4. QED
      BY <1>2, <3>3 DEF FilesSound
  <2>4. CASE left = [r EXCEPT !.cargoOwn = FALSE, !.cargoNet = FALSE, !.torn = TRUE]
    BY <1>2, <2>4 DEF RunnerFiles, FilesSound
  <2>5. CASE left = [r EXCEPT !.dropin = TRUE, !.owed = TRUE]
    BY <1>2, <2>5 DEF RunnerFiles, FilesSound
  <2>6. QED
    BY <1>3, <2>1, <2>2, <2>3, <2>4, <2>5 DEF CutShort
<1>5. HostEnds(FALSE) /\ runner' = [runner EXCEPT ![Host] = left]
  BY <1>3 DEF HostCut, Leaves
<1>6. QED
  BY <1>1, <1>4, <1>5, HostEndsStep

LEMMA RunnersStep == RunnersInv /\ [CredentialsNext]_credVars => RunnersInv'
<1>1. RunnersInv /\ UNCHANGED credVars => RunnersInv'
  BY DEF credVars, RunnersInv, ApplySound, ScriptSound, Host
<1>2. QED
  BY <1>1, StartConfigureStep, WriteKeysStep, StripBlockStep, AppendBlockStep, SetGitStep,
     PatchCargoStep, UnitEnvironmentStep, SummaryStepStep, InstallPackagesStep, HostCutStep,
     RunnerChangesStep DEF CredentialsNext

LEMMA RunnersStart == CredentialsInit => RunnersInv
<1> SUFFICES ASSUME CredentialsInit PROVE RunnersInv
  OBVIOUS
<1>1. <<"own">> \in Seq(ConfigLines) /\ OnlyOwn(<<"own">>) /\ Len(<<"own">>) = 1
  BY DEF ConfigLines, OnlyOwn
<1>2. Reverted \in RunnerFiles /\ FilesSound(Reverted)
  BY <1>1 DEF Reverted, RunnerFiles, FilesSound
<1>3. runner = [h \in Hosts |-> Reverted] /\ applying = NotApplying /\ credExit = "none"
  BY DEF CredentialsInit
<1>4. Len(Runners) \in Nat /\ DOMAIN Runners = 1..Len(Runners)
  BY CredentialsAssumption
<1>5. applying \in ApplyRecords /\ applying.at = 0 /\ applying.host = 0
  BY <1>3, <1>4 DEF NotApplying, ApplyRecords
<1>6. ApplySound
  BY <1>3, <1>4, <1>5 DEF ApplySound
<1>7. QED
  BY <1>2, <1>3, <1>5, <1>6 DEF RunnersInv

LEMMA ConfiguredWhole == RunnersInv => ConfiguredMeansWhole
<1> SUFFICES ASSUME RunnersInv, credExit = "ok", NEW h \in Hosts
             PROVE  LET r == runner[h] IN
                    /\ r.keys = "whole" /\ r.git /\ r.cargoNet /\ r.dropin /\ (r.active \/ r.owed)
                    /\ BlockIsOnce(r.config)
                    /\ r.torn \/ (r.cargoOwn /\ Len(r.config) = r.ownLines + 2)
  BY DEF ConfiguredMeansWhole
<1>1. WholeRunner(runner[h]) /\ FilesSound(runner[h])
  BY DEF RunnersInv, ApplySound
<1>2. ~ (OnlyOwn(runner[h].config) /\ BlockIsOnce(runner[h].config))
  BY DEF OnlyOwn, BlockIsOnce
<1>3. QED
  BY <1>1, <1>2 DEF WholeRunner, FilesSound

-----------------------------------------------------------------------------
(* Types: the supervision judge *)

\* A tick is waited for after one that was taken, and less than all of them are: nothing
\* that is counted by the ticks passes their number.
JudgePace ==
    /\ judging \in {"status", "logs", "probe", "wait", "render", "done"}
    /\ age \in 0..TICKS /\ uptime \in 0..age /\ log \in 0..age
    /\ Len(ticks) <= TICKS
    /\ judging = "wait" => age < Len(ticks) /\ Len(ticks) < TICKS
    /\ judging \in {"status", "logs", "probe"} => age <= Len(ticks) /\ Len(ticks) < TICKS

JudgeActs ==
    /\ acting \in {"idle", "justify", "target", "approve", "execute"}
    /\ acts \in 0..MaxActs /\ restarted \in 0..acts
    /\ acting # "idle" => acts > 0

JudgeSamples == sampling \in Ticks /\ ticks \in Seq(Ticks)

\* What is left of the judge's types.
JudgeFlags == /\ lastError \in BOOLEAN /\ draining \in BOOLEAN /\ hung \in BOOLEAN
              /\ probed \in BOOLEAN /\ expired \in BOOLEAN
JudgeWords ==
    /\ unevaluated \subseteq Codes
    /\ verdictReport \in {"none", "unavailable", "failed", "indeterminate", "ok"}
    /\ exit \in {"none", "executed", "dry_run", "refused", "failed", "unavailable"}
JudgeMarks ==
    /\ restarts \in 0..MaxRestarts
    /\ sound \in 0..(MaxRestarts + 1) /\ wedged \in 0..(MaxRestarts + 1)
    /\ bundle \in [codes : SUBSET Codes, action : {"none", "restart", "drain"},
                   incarnation : 0..(MaxRestarts + 1)]
JudgeTyped == JudgePace /\ JudgeActs /\ JudgeSamples /\ JudgeFlags /\ JudgeWords /\ JudgeMarks

LEMMA JudgeLimits ==
    TICKS \in Nat /\ TICKS >= 2 /\ MaxRestarts \in Nat /\ MaxActs \in Nat
BY JudgeAssumption

LEMMA JudgeTypedIs == JudgeInv /\ JudgeTyped => JudgeTypeOK
<1> SUFFICES ASSUME JudgeInv, JudgeTyped PROVE JudgeTypeOK
  OBVIOUS
<1>1. phase \in PHASES /\ incarnation \in 0..(MaxRestarts + 1)
  BY JudgeLimits DEF JudgeInv, SamplesOK, NumbersSound, JudgeTyped, JudgeMarks
<1>2. uptime \in 0..TICKS /\ log \in 0..TICKS /\ restarted \in 0..MaxActs
  BY JudgeLimits DEF JudgeTyped, JudgePace, JudgeActs
<1>3. \A i \in DOMAIN ticks : ticks[i] \in Ticks
  BY DEF JudgeTyped, JudgeSamples
<1>4. {lastError, draining, hung, probed, expired} \subseteq BOOLEAN
  BY DEF JudgeTyped, JudgeFlags
<1>5. QED
  BY <1>1, <1>2, <1>3, <1>4 DEF JudgeTyped, JudgePace, JudgeActs, JudgeSamples, JudgeWords,
     JudgeMarks, JudgeTypeOK

LEMMA JudgeTypeStart == JudgeInit => JudgeTypeOK /\ JudgeTyped
<1> SUFFICES ASSUME JudgeInit PROVE JudgeTypeOK /\ JudgeTyped
  OBVIOUS
<1>1. JudgePace /\ JudgeActs
  BY JudgeLimits DEF JudgeInit, JudgePace, JudgeActs
<1>2. JudgeSamples
  <2>1. \A b, c \in BOOLEAN : [phase |-> "starting", incarnation |-> 0, uptime |-> 0, restarts |-> 0,
              error |-> b, draining |-> c, age |-> 0, log |-> NoDigest, probe |-> "none"] \in Ticks
    BY JudgeLimits DEF Ticks, PHASES
  <2>2. NoTick \in Ticks
    BY <2>1, Zenon DEF NoTick
  <2>3. QED
    BY <2>2 DEF JudgeInit, JudgeSamples
<1>3. JudgeFlags
  BY Zenon DEF JudgeInit, JudgeFlags
<1>4. JudgeWords
  BY DEF JudgeInit, JudgeWords
<1>5. JudgeMarks
  BY JudgeLimits DEF JudgeInit, JudgeMarks, NoBundle
<1>6. QED
  BY <1>1, <1>2, <1>3, <1>4, <1>5, JudgeStart, JudgeTypedIs DEF JudgeTyped

LEMMA JudgeTypeStep ==
    ASSUME JudgeTypeOK, JudgeTyped, JudgeInv, [JudgeNext]_judgeVars
    PROVE  JudgeTypeOK' /\ JudgeTyped'
<1>1. JudgeInv'
  BY SamplesStep, NumbersStep, BundleStep DEF JudgeInv
<1>2. JudgePace /\ JudgeActs /\ JudgeSamples /\ JudgeFlags /\ JudgeWords /\ JudgeMarks
  BY DEF JudgeTyped
<1>3. JudgePace'
  <2> USE JudgeLimits DEF JudgePace
  <2>1. CASE Probe
    <3>1. judging = "probe" /\ \E t : ticks' = Append(ticks, t)
      BY <2>1, Sampled DEF Probe
    <3>2. Len(ticks') = Len(ticks) + 1 /\ Len(ticks) \in Nat
      BY <1>2, <3>1 DEF JudgeSamples
    <3>3. QED
      BY <1>2, <2>1, <3>1, <3>2 DEF Probe, supervised
  <2>2. CASE JudgeInterval
    BY <1>2, <2>2 DEF JudgeInterval
  <2>3. CASE Spawn
    BY <1>2, <2>3 DEF Spawn, judgement
  <2>4. CASE Approve
    BY <1>2, <2>4 DEF Approve, supervised
  <2>5. CASE UNCHANGED <<age, uptime, log, ticks>> /\ judging' \in {judging, "done"}
    BY <1>2, <2>5
  <2>6. CASE ReadStatus \/ ReadLogs
    BY <1>2, <2>6 DEF ReadStatus, ReadLogs, supervised
  <2>7. QED
    BY <2>1, <2>2, <2>3, <2>4, <2>5, <2>6 DEF JudgeNext, MalkuthNext, CollectNext, ActNext,
       judgeVars, supervised, judgement, executor, SpawnFails, Crash, BeginsToHang, BeginDrain,
       Drained, Unavailable, Render, WindowCloses, ActStarts, check_justification, check_target,
       RegisterApproval, Execute, ExecuteFails
<1>4. JudgeActs'
  <2> USE JudgeLimits DEF JudgeActs
  <2>1. CASE UNCHANGED <<acting, acts, restarted>>
    BY <1>2, <2>1
  <2>2. CASE ActStarts
    BY <1>2, <2>2 DEF ActStarts
  <2>3. CASE check_justification \/ check_target \/ RegisterApproval \/ ExecuteFails
    BY <1>2, <2>3 DEF check_justification, check_target, RegisterApproval, ExecuteFails, Ends,
       Continues
  <2>4. CASE Execute
    <3>1. acting' = "idle" /\ acts' = acts /\ restarted' \in 0..1 /\ acts > 0
      BY <1>1, <1>2, <2>4 DEF Execute, Ends, JudgeInv, BundleSound
    <3>2. QED
      BY <1>2, <3>1
  <2>5. QED
    BY <2>1, <2>2, <2>3, <2>4 DEF JudgeNext, MalkuthNext, CollectNext, ActNext, judgeVars,
       supervised, judgement, executor, Spawn, SpawnFails, Crash, BeginsToHang, BeginDrain,
       Drained, Unavailable, ReadStatus, ReadLogs, Probe, JudgeInterval, Render, Approve,
       WindowCloses
<1>5. JudgeSamples'
  <2> DEFINE read == [phase |-> phase, incarnation |-> IF HasPid THEN incarnation ELSE 0,
                      uptime |-> uptime, restarts |-> restarts, error |-> lastError,
                      draining |-> draining, age |-> age, log |-> NoDigest, probe |-> "none"]
  <2>1. read \in Ticks
    BY JudgeLimits DEF JudgeTypeOK, Ticks
  <2>2. [sampling EXCEPT !.log = log] \in Ticks
    BY DEF JudgeTypeOK, Ticks
  <2>3. [sampling EXCEPT !.probe = "ok"] \in Ticks /\ [sampling EXCEPT !.probe = "down"] \in Ticks
    BY DEF JudgeTypeOK, Ticks
  <2>4. NoTick \in Ticks
    <3>1. \A b, c \in BOOLEAN : [phase |-> "starting", incarnation |-> 0, uptime |-> 0, restarts |-> 0,
              error |-> b, draining |-> c, age |-> 0, log |-> NoDigest, probe |-> "none"] \in Ticks
      BY JudgeLimits DEF Ticks, PHASES
    <3>2. QED
      BY <3>1, Zenon DEF NoTick
  <2>5. CASE Probe
    <3>1. PICK t \in Ticks : ticks' = Append(ticks, t)
      BY <1>2, <2>3, <2>5, Sampled DEF JudgeSamples
    <3>2. QED
      BY <1>2, <2>4, <2>5, <3>1 DEF Probe, JudgeSamples
  <2>6. CASE ReadStatus
    BY <1>2, <2>1, <2>6 DEF ReadStatus, JudgeSamples
  <2>7. CASE ReadLogs
    BY <1>2, <2>2, <2>7 DEF ReadLogs, JudgeSamples
  <2>8. CASE Approve
    BY <1>2, <2>8 DEF Approve, JudgeSamples
  <2>9. CASE UNCHANGED <<sampling, ticks>>
    BY <1>2, <2>9 DEF JudgeSamples
  <2>10. QED
    BY <2>5, <2>6, <2>7, <2>8, <2>9 DEF JudgeNext, MalkuthNext, CollectNext, ActNext, judgeVars,
       supervised, judgement, executor, Spawn, SpawnFails, Crash, BeginsToHang, BeginDrain,
       Drained, Unavailable, JudgeInterval, Render, WindowCloses, ActStarts, check_justification,
       check_target, RegisterApproval, Execute, ExecuteFails
<1>6. JudgeFlags'
  <2>1. lastError' \in BOOLEAN /\ draining' \in BOOLEAN
    BY <1>1 DEF JudgeInv, SamplesOK
  <2>2. hung' \in {hung, TRUE, FALSE} /\ expired' \in {expired, TRUE} /\ probed' = probed
    BY DEF JudgeNext, MalkuthNext, CollectNext, ActNext, judgeVars, supervised, judgement,
       executor, Spawn, SpawnFails, Crash, BeginsToHang, BeginDrain, Drained, Unavailable,
       ReadStatus, ReadLogs, Probe, JudgeInterval, Render, Approve, WindowCloses, ActStarts,
       check_justification, check_target, RegisterApproval, Execute, ExecuteFails
  <2>3. QED
    BY <1>2, <2>1, <2>2 DEF JudgeFlags
<1>7. JudgeWords'
  <2>1. unevaluated' \subseteq Codes
    <3>1. unevaluated' \in {unevaluated, unevaluated \cup {"A2", "C1"}, unevaluated \cup {"A1", "C1"}, {}}
      BY DEF Note, JudgeNext, MalkuthNext, CollectNext, ActNext, judgeVars, supervised, judgement,
         executor, Spawn, SpawnFails, Crash, BeginsToHang, BeginDrain, Drained, Unavailable,
         ReadStatus, ReadLogs, Probe, JudgeInterval, Render, Approve, WindowCloses, ActStarts,
         check_justification, check_target, RegisterApproval, Execute, ExecuteFails
    <3>2. QED
      BY <1>2, <3>1 DEF JudgeWords, Codes
  <2>2. verdictReport' \in {verdictReport, "unavailable", report_status, "failed", "indeterminate"}
    BY DEF JudgeNext, MalkuthNext, CollectNext, ActNext, judgeVars, supervised, judgement,
       executor, Spawn, SpawnFails, Crash, BeginsToHang, BeginDrain, Drained, Unavailable,
       ReadStatus, ReadLogs, Probe, JudgeInterval, Render, Approve, WindowCloses, ActStarts,
       check_justification, check_target, RegisterApproval, Execute, ExecuteFails
  <2>3. exit' \in {exit, "none", "executed", "dry_run", "refused", "failed", "unavailable"}
    BY DEF Ends, Continues, JudgeNext, MalkuthNext, CollectNext, ActNext, judgeVars, supervised,
       judgement, executor, Spawn, SpawnFails, Crash, BeginsToHang, BeginDrain, Drained,
       Unavailable, ReadStatus, ReadLogs, Probe, JudgeInterval, Render, Approve, WindowCloses,
       ActStarts, check_justification, check_target, RegisterApproval, Execute, ExecuteFails
  <2>4. QED
    BY <1>2, <2>1, <2>2, <2>3 DEF JudgeWords, report_status
<1>8. JudgeMarks'
  <2>1. restarts' \in 0..MaxRestarts
    <3>1. restarts' = restarts \/ (restarts < MaxRestarts /\ restarts' = restarts + 1)
      BY DEF JudgeNext, MalkuthNext, CollectNext, ActNext, judgeVars, supervised, judgement,
         executor, Spawn, SpawnFails, Crash, BeginsToHang, BeginDrain, Drained, Unavailable,
         ReadStatus, ReadLogs, Probe, JudgeInterval, Render, Approve, WindowCloses, ActStarts,
         check_justification, check_target, RegisterApproval, Execute, ExecuteFails
    <3>2. QED
      BY <1>2, <3>1, JudgeLimits DEF JudgeMarks
  <2>2. sound' \in {sound, 0, incarnation} /\ wedged' \in {wedged, 0, incarnation}
    BY DEF Replaced, JudgeNext, MalkuthNext, CollectNext, ActNext, judgeVars, supervised,
       judgement, executor, Spawn, SpawnFails, Crash, BeginsToHang, BeginDrain, Drained,
       Unavailable, ReadStatus, ReadLogs, Probe, JudgeInterval, Render, Approve, WindowCloses,
       ActStarts, check_justification, check_target, RegisterApproval, Execute, ExecuteFails
  <2>6. sound' \in 0..(MaxRestarts + 1) /\ wedged' \in 0..(MaxRestarts + 1)
    <3>1. incarnation \in 0..(MaxRestarts + 1)
      BY DEF JudgeTypeOK
    <3>2. QED
      BY <1>2, <2>2, <3>1, JudgeLimits DEF JudgeMarks
  <2>3. bundle' = bundle \/ (Approve /\ judging = "done")
    BY DEF Approve, JudgeNext, MalkuthNext, CollectNext, ActNext, judgeVars, supervised,
       judgement, executor, Spawn, SpawnFails, Crash, BeginsToHang, BeginDrain, Drained,
       Unavailable, ReadStatus, ReadLogs, Probe, JudgeInterval, Render, Approve, WindowCloses,
       ActStarts, check_justification, check_target, RegisterApproval, Execute, ExecuteFails
  <2>4. CASE Approve
    <3>1. Len(ticks) \in DOMAIN ticks
      BY <2>4 DEF Approve, JudgeInv, BundleSound, SamplesOK
    <3>2. Latest.incarnation \in 0..(MaxRestarts + 1)
      BY <3>1 DEF Latest, JudgeTypeOK, Ticks
    <3>3. PICK todo_ \in {"restart", "drain"} :
            bundle' = [codes |-> Fired, action |-> todo_, incarnation |-> Latest.incarnation]
      BY <2>4 DEF Approve
    <3>4. Fired \in SUBSET Codes
      BY DEF Fired
    <3> HIDE DEF Fired, Latest
    <3>5. bundle' \in [codes : SUBSET Codes, action : {"none", "restart", "drain"},
                       incarnation : 0..(MaxRestarts + 1)]
      BY <3>2, <3>3, <3>4
    <3>6. QED
      BY <2>1, <2>6, <3>5 DEF JudgeMarks
  <2>5. QED
    BY <1>2, <2>1, <2>3, <2>4, <2>6 DEF JudgeMarks
<1>9. JudgeTyped'
  BY <1>3, <1>4, <1>5, <1>6, <1>7, <1>8 DEF JudgeTyped
<1>10. (JudgeInv /\ JudgeTyped => JudgeTypeOK)'
  BY JudgeTypedIs, PTL
<1>11. QED
  BY <1>1, <1>9, <1>10

-----------------------------------------------------------------------------
(* Types: the engine drop *)

\* A drop that is copied is new; one that is applied is there, and has its branch from then on.
DropPlaces ==
    /\ dropStep \in {"copy", "gates", "add"} => drop \in drops
    /\ dropStep = "copy" => drop \notin manifests \cup branches
    /\ dropStep \in {"commit", "push", "open"} => drop \in branches

DropStoreOK ==
    /\ \A d \in drops \cup {drop} : DOMAIN d \subseteq Paths
    /\ manifests \subseteq drops /\ branches \subseteq drops
    /\ worktrees \subseteq branches /\ pulls \subseteq branches

DropSteps    == {"idle", "look", "stage", "copy", "gates", "add", "commit", "push",
                 "open", "remove ok", "remove failed", "recycle"}
DropCommands == {"none", "sweep", "sweep --apply", "apply", "apply --dry-run"}

LEMMA DropTypeStart == EngineDropInit => EngineDropTypeOK /\ DropPlaces
<1>1. EngineDropInit => DropStoreOK /\ DropPlaces
  BY DEF EngineDropInit, DropStoreOK, DropPlaces, NoFiles
<1>2. EngineDropInit => {master, base, head, workingTree} \subseteq Trees /\ edited \in [Paths -> Contents]
  BY DEF EngineDropInit, Trees, Contents
<1>3. EngineDropInit => sweeps \in 0..MaxSweeps /\ edits \in 0..MaxEdits
  BY EngineDropAssumption DEF EngineDropInit
<1>4. EngineDropInit => /\ title \in Described /\ note \in Described
                        /\ dropStep \in DropSteps /\ dropCmd \in DropCommands
  BY DEF EngineDropInit, Described, DropSteps, DropCommands
<1>5. QED
  BY <1>1, <1>2, <1>3, <1>4 DEF EngineDropTypeOK, DropStoreOK, DropSteps, DropCommands

LEMMA DropTypeStep ==
    ASSUME EngineDropTypeOK, DropPlaces, DropInv, [EngineDropNext]_dropVars
    PROVE  EngineDropTypeOK' /\ DropPlaces'
<1>1. DropInv'
  BY DropInvStep
<1>2. {master, base, head, workingTree} \subseteq Trees /\ edits \in 0..MaxEdits /\ sweeps \in 0..MaxSweeps
  BY DEF EngineDropTypeOK
<1>3. {master', base', workingTree'} \subseteq Trees /\ edited' \in [Paths -> Contents]
  BY <1>1 DEF DropInv, DropSound, Trees
<1>4. head' \in Trees
  <2>1. head' \in {head, workingTree, base}
    BY DEF EngineDropNext, dropVars, staging, EngineEdits, MasterMoves, EngineCommits,
       EngineDescribes, StartDropSweep, LookAround, Stage, Copy, CopyFails, StartApply, Gates,
       AddWorktree, Commit, PushUpstream, OpenPull, RemoveWorktree, Recycle, Killed, CutAt
  <2>2. QED
    BY <1>2, <2>1
<1>5. edits' \in 0..MaxEdits
  <2>1. edits' = edits \/ (edits < MaxEdits /\ edits' = edits + 1)
    BY DEF EngineDropNext, dropVars, staging, EngineEdits, MasterMoves, EngineCommits,
       EngineDescribes, StartDropSweep, LookAround, Stage, Copy, CopyFails, StartApply, Gates,
       AddWorktree, Commit, PushUpstream, OpenPull, RemoveWorktree, Recycle, Killed, CutAt
  <2>2. QED
    BY <1>2, <2>1, EngineDropAssumption
<1>6. sweeps' \in 0..MaxSweeps
  <2>1. sweeps' = sweeps \/ (sweeps < MaxSweeps /\ sweeps' = sweeps + 1)
    BY DEF EngineDropNext, dropVars, EngineEdits, MasterMoves, EngineCommits, EngineDescribes,
       StartDropSweep, LookAround, Stage, Copy, CopyFails, StartApply, Gates, AddWorktree, Commit,
       PushUpstream, OpenPull, RemoveWorktree, Recycle, Killed, CutAt
  <2>2. QED
    BY <1>2, <2>1, EngineDropAssumption
<1>7. title' \in Described /\ note' \in Described
  BY DEF EngineDropNext, dropVars, staging, EngineEdits, MasterMoves, EngineCommits,
     EngineDescribes, StartDropSweep, LookAround, Stage, Copy, CopyFails, StartApply, Gates,
     AddWorktree, Commit, PushUpstream, OpenPull, RemoveWorktree, Recycle, Killed, CutAt,
     EngineDropTypeOK, Described
<1>8. dropStep' \in DropSteps /\ dropCmd' \in DropCommands
  BY DEF EngineDropNext, dropVars, EngineEdits, MasterMoves, EngineCommits, EngineDescribes,
     StartDropSweep, LookAround, Stage, Copy, CopyFails, StartApply, Gates, AddWorktree, Commit,
     PushUpstream, OpenPull, RemoveWorktree, Recycle, Killed, CutAt, DropSweepEnds, Goes2,
     EngineDropTypeOK, DropSteps, DropCommands
<1>9. DropStoreOK' /\ DropPlaces'
  <2>1. DropStoreOK
    BY DEF EngineDropTypeOK, DropStoreOK
  <2>2. \A d : d = NoFiles => DOMAIN d \subseteq Paths
    BY DEF NoFiles
  <2>3. CASE UNCHANGED <<store, dropStep, drop>>
    BY <2>1, <2>3 DEF store, DropStoreOK, DropPlaces
  <2>4. CASE UNCHANGED store /\ DropSweepEnds
    BY <2>1, <2>2, <2>4 DEF store, DropStoreOK, DropPlaces, DropSweepEnds
  <2>5. CASE StartDropSweep \/ LookAround
    BY <2>1, <2>2, <2>5 DEF StartDropSweep, LookAround, store, DropSweepEnds, Goes2, DropStoreOK,
       DropPlaces
  <2>6. CASE Stage
    <3> DEFINE files == Restrict(workingTree, Changed)
    <3>1. DOMAIN files \subseteq Paths
      BY DEF Restrict, Changed, Porcelain, DiffNames
    <3> HIDE DEF files
    <3>2. CASE DropSweepEnds /\ UNCHANGED drops
      BY <2>4, <2>6, <3>2 DEF Stage, store
    <3>3. CASE files \notin drops /\ drops' = drops \cup {files} /\ drop' = files /\ dropStep' = "copy"
      BY <2>1, <2>6, <3>1, <3>3 DEF Stage, DropStoreOK, DropPlaces
    <3>4. QED
      BY <2>6, <3>2, <3>3 DEF Stage, files
  <2>7. CASE Copy
    BY <2>1, <2>7 DEF Copy, Goes2, DropStoreOK, DropPlaces
  <2>8. CASE CopyFails
    BY <2>1, <2>2, <2>8 DEF CopyFails, DropSweepEnds, DropStoreOK, DropPlaces
  <2>9. ASSUME NEW d \in drops, StartApply(d) PROVE DropStoreOK' /\ DropPlaces'
    BY <2>1, <2>9 DEF StartApply, store, DropStoreOK, DropPlaces
  <2>10. CASE Gates \/ Commit \/ PushUpstream
    BY <2>1, <2>2, <2>10 DEF Gates, Commit, PushUpstream, store, DropSweepEnds, Goes2,
       DropStoreOK, DropPlaces
  <2>11. CASE AddWorktree
    BY <2>1, <2>2, <2>11 DEF AddWorktree, DropSweepEnds, Goes2, DropStoreOK, DropPlaces
  <2>12. CASE OpenPull
    BY <2>1, <2>12 DEF OpenPull, Goes2, DropStoreOK, DropPlaces
  <2>13. ASSUME NEW how \in {"remove ok", "remove failed"}, RemoveWorktree(how)
         PROVE  DropStoreOK' /\ DropPlaces'
    BY <2>1, <2>2, <2>13 DEF RemoveWorktree, DropSweepEnds, Goes2, DropStoreOK, DropPlaces
  <2>14. CASE Recycle \/ Killed
    BY <2>4, <2>14 DEF Recycle, Killed, CutAt, store
  <2>15. CASE (\E p \in Paths : EngineEdits(p) \/ MasterMoves(p)) \/ EngineCommits \/ EngineDescribes
    BY <2>3, <2>15 DEF EngineEdits, MasterMoves, EngineCommits, EngineDescribes, store
  <2>16. CASE UNCHANGED dropVars
    BY <2>3, <2>16 DEF dropVars
  <2>17. QED
    BY <2>5, <2>6, <2>7, <2>8, <2>9, <2>10, <2>11, <2>12, <2>13, <2>14, <2>15, <2>16 DEF
       EngineDropNext
<1>10. QED
  BY <1>3, <1>4, <1>5, <1>6, <1>7, <1>8, <1>9 DEF EngineDropTypeOK, DropStoreOK, DropSteps,
     DropCommands

-----------------------------------------------------------------------------
(* Types: the CDP client *)

Replies    == [kind : Kinds, replyTo : 0..MaxRequests]
CdpAnswers == {"none", "ok", "cdp-error", "js-exception", "cdp-protocol", "cdp-timeout",
               "cdp-disconnected", "cdp-unreachable", "cdp-handshake"}
CdpMethods == {"Runtime.evaluate", "Page.enable", "Page.captureScreenshot"}

\* The client's side, and the app's: a message goes on while there is room for a fragment.
CdpClientOK ==
    /\ next_id \in 0..MaxRequests /\ method \in {"none"} \cup CdpMethods /\ enabled \in BOOLEAN
    /\ fragments \in Seq(Fragments) /\ taken \in Seq(Fragments)
    /\ answer \in CdpAnswers /\ events \in 0..EVENT_LIMIT
    /\ in_message \in BOOLEAN /\ garbled \in BOOLEAN
CdpAppOK ==
    /\ sent \in 0..MaxMessages /\ content \in Seq(Replies) /\ Len(content) = sent
    /\ sending # NoMessage => sending.of \in 1..MaxMessages /\ sending.n \in 1..MAX_MESSAGE
CdpWindowOK ==
    /\ targets \in UNION {[1..n -> Pages] : n \in 0..2} /\ page \in Pages \cup {"none"}
    /\ socket \in {"none", "open", "timed out", "closed"}
CdpTyped == CdpClientOK /\ CdpAppOK /\ CdpWindowOK

LEMMA CdpLimits ==
    /\ MaxRequests \in Nat \ {0} /\ MaxMessages \in Nat \ {0} /\ MAX_MESSAGE \in Nat \ {0}
    /\ EVENT_LIMIT \in Nat \ {0} /\ EVENT_CUT \in Nat \ {0} /\ EVENT_CUT <= EVENT_LIMIT
BY CdpAssumption

LEMMA CdpTypedIs == CdpTyped => CdpTypeOK
<1> SUFFICES ASSUME CdpTyped PROVE CdpTypeOK
  OBVIOUS
<1>1. \A f \in Range(fragments) \cup Range(taken) : f \in Fragments
  BY DEF CdpTyped, CdpClientOK, Range
<1>2. content \in [1..sent -> [kind : Kinds, replyTo : 0..MaxRequests]]
  <2>1. content \in [1..sent -> Replies]
    BY DEF CdpTyped, CdpAppOK
  <2>2. QED
    BY <2>1 DEF Replies
<1>3. QED
  BY <1>1, <1>2 DEF CdpTyped, CdpClientOK, CdpAppOK, CdpWindowOK, CdpTypeOK, CdpAnswers, CdpMethods

LEMMA CdpRaises ==
    ASSUME CdpClientOK, NEW code \in CdpAnswers, Raises(code), garbled' \in BOOLEAN
    PROVE  CdpClientOK'
<1>1. enabled' \in BOOLEAN /\ in_message' \in BOOLEAN
  BY Zenon DEF Raises
<1>2. QED
  BY <1>1 DEF Raises, CdpClientOK

LEMMA CdpDelivers ==
    ASSUME CdpClientOK, method # "none", NEW message \in Seq(Fragments), NEW what, Deliver(message, what),
           garbled' = garbled
    PROVE  CdpClientOK'
<1>1. enabled' \in BOOLEAN
  <2>1. \/ enabled' = FALSE \/ enabled' = enabled \/ enabled' = (method = "Page.enable")
    BY DEF Deliver, Waits
  <2>2. enabled \in BOOLEAN
    BY DEF CdpClientOK
  <2>3. QED
    BY <2>1, <2>2, Zenon
<1>2. KeptEvents(events) \in 0..EVENT_LIMIT
  BY CdpLimits DEF KeptEvents, CdpClientOK
<1>3. EndsWith[method] \subseteq CdpAnswers
  BY DEF CdpClientOK, CdpMethods, CdpAnswers, EndsWith, Evaluated, Captured
<1>4. answer' \in CdpAnswers /\ events' \in 0..EVENT_LIMIT
  BY <1>2, <1>3 DEF Deliver, Settles, Waits, CdpClientOK, CdpAnswers
<1>5. /\ next_id' = next_id /\ method' \in {"none", method} /\ fragments' = <<>>
      /\ taken' \in {taken, message, <<>>}
  BY DEF Deliver, Settles, Waits
<1>6. next_id' \in 0..MaxRequests /\ method' \in {"none"} \cup CdpMethods
  BY <1>5 DEF CdpClientOK
<1>7. fragments' \in Seq(Fragments) /\ taken' \in Seq(Fragments)
  <2>1. <<>> \in Seq(Fragments) /\ taken \in Seq(Fragments)
    BY DEF CdpClientOK
  <2>2. QED
    BY <1>5, <2>1
<1>8. in_message' \in BOOLEAN /\ garbled' \in BOOLEAN
  <2>1. garbled \in BOOLEAN
    BY DEF CdpClientOK
  <2>2. QED
    BY <2>1, Zenon DEF Deliver
<1>9. QED
  BY <1>1, <1>4, <1>6, <1>7, <1>8 DEF CdpClientOK

\* A frame is put behind those read so far, or the message is delivered, or it is refused.
LEMMA CdpReads ==
    ASSUME CdpClientOK, method # "none", NEW f \in Fragments, NEW what,
           TextFrame(f, what) \/ ContinuationFrame(f, what), garbled' = garbled
    PROVE  CdpClientOK'
<1>1. <<f>> \in Seq(Fragments) /\ Append(fragments, f) \in Seq(Fragments)
  BY DEF CdpClientOK
<1>2. CASE Raises("cdp-protocol")
  <2>1. garbled' \in BOOLEAN
    BY Zenon DEF CdpClientOK
  <2>2. QED
    BY <1>2, <2>1, CdpRaises DEF CdpAnswers
<1>3. CASE Deliver(<<f>>, what) \/ Deliver(Append(fragments, f), what)
  BY <1>1, <1>3, CdpDelivers
<1>4. CASE /\ fragments' \in {<<f>>, Append(fragments, f)} /\ Waits
           /\ in_message' = TRUE \/ in_message' = in_message
  <2>1. in_message' \in BOOLEAN
    BY <1>4, Zenon DEF CdpClientOK
  <2>2. QED
    BY <1>1, <1>4, <2>1 DEF Waits, CdpClientOK
<1>5. QED
  BY <1>2, <1>3, <1>4 DEF TextFrame, ContinuationFrame

LEMMA CdpTypeStart == CdpInit => CdpTypeOK /\ CdpTyped
<1>1. CdpInit => CdpClientOK
  <2>1. CdpInit => enabled \in BOOLEAN /\ in_message \in BOOLEAN /\ garbled \in BOOLEAN
    BY Zenon DEF CdpInit
  <2>2. QED
    BY <2>1, CdpLimits DEF CdpInit, CdpClientOK, CdpAnswers
<1>2. CdpInit => CdpAppOK
  BY CdpLimits DEF CdpInit, CdpAppOK
<1>3. CdpInit => CdpWindowOK
  <2>1. CdpInit => targets \in [1..0 -> Pages]
    BY DEF CdpInit
  <2>2. QED
    BY <2>1 DEF CdpInit, CdpWindowOK
<1>4. QED
  BY <1>1, <1>2, <1>3, CdpTypedIs DEF CdpTyped

LEMMA CdpTypeStep ==
    ASSUME CdpTypeOK, CdpTyped, [CdpNext]_cdpVars
    PROVE  CdpTypeOK' /\ CdpTyped'
<1>2. CdpClientOK /\ CdpAppOK /\ CdpWindowOK
  BY DEF CdpTyped
<1>3. CdpWindowOK'
  <2>1. \A list \in Listed : Best(list) \in Pages \cup {"none"}
    BY DEF Best, Pages
  <2>2. CASE TargetsChange
    BY <1>2, <2>2 DEF TargetsChange, CdpWindowOK
  <2>3. CASE PollFindsPage
    BY <1>2, <2>1, <2>3 DEF PollFindsPage, CdpWindowOK
  <2>4. CASE UNCHANGED <<targets, page>> /\ socket' \in {socket, "open", "timed out", "closed"}
    BY <1>2, <2>4 DEF CdpWindowOK
  <2>5. QED
    BY <2>2, <2>3, <2>4 DEF CdpNext, cdpVars, PollTimesOut, Connect, AppStarts, AppContinues,
       ControlFrame, IllegalFrame, Misread, ReadTimesOut, Request, Sends, Close, fixed
<1>4. CdpClientOK'
  <2>1. CASE UNCHANGED session /\ answer' \in CdpAnswers
    BY <1>2, <2>1 DEF session, CdpClientOK
  <2>2. CASE AppStarts
    <3>1. PICK fin \in BOOLEAN : TextFrame([of |-> sent', n |-> 1, fin |-> fin], content'[sent'])
      BY <2>2 DEF AppStarts
    <3>2. sent' \in 1..MaxMessages /\ 1 \in 1..(MAX_MESSAGE + 1)
      BY <1>2, <2>2, CdpLimits DEF AppStarts, CdpAppOK
    <3>3. [of |-> sent', n |-> 1, fin |-> fin] \in Fragments
      BY <3>2 DEF Fragments
    <3>4. QED
      BY <1>2, <2>2, <3>1, <3>3, CdpReads DEF AppStarts, Reads
  <2>3. CASE AppContinues
    <3>1. PICK fin \in BOOLEAN :
            ContinuationFrame([of |-> sending.of, n |-> sending.n + 1, fin |-> fin], content[sending.of])
      BY <2>3 DEF AppContinues
    <3>2. sending.of \in 1..MaxMessages /\ sending.n + 1 \in 1..(MAX_MESSAGE + 1)
      BY <1>2, <2>3, CdpLimits DEF AppContinues, CdpAppOK
    <3>3. [of |-> sending.of, n |-> sending.n + 1, fin |-> fin] \in Fragments
      BY <3>2 DEF Fragments
    <3>4. QED
      BY <1>2, <2>3, <3>1, <3>3, CdpReads DEF AppContinues, Reads
  <2>4. CASE ControlFrame \/ IllegalFrame \/ ReadTimesOut
    <3>1. garbled' \in BOOLEAN
      BY <1>2, <2>4, Zenon DEF CdpClientOK, ControlFrame, IllegalFrame, ReadTimesOut
    <3>2. QED
      BY <1>2, <2>4, <3>1, CdpRaises DEF ControlFrame, IllegalFrame, ReadTimesOut, CdpAnswers
  <2>4a. CASE Misread
    <3>1. PICK fin \in BOOLEAN, kind \in Kinds, id \in 0..next_id :
            \/ TextFrame([of |-> 0, n |-> 1, fin |-> fin], [kind |-> kind, replyTo |-> id])
            \/ ContinuationFrame([of |-> 0, n |-> 1, fin |-> fin], [kind |-> kind, replyTo |-> id])
      BY <2>4a DEF Misread
    <3>2. [of |-> 0, n |-> 1, fin |-> fin] \in Fragments
      BY CdpLimits DEF Fragments
    <3>3. QED
      BY <1>2, <2>4a, <3>1, <3>2, CdpReads DEF Misread, Reads
  <2>5. ASSUME NEW m \in CdpMethods, Request(m) PROVE CdpClientOK'
    <3>1. enabled' \in BOOLEAN
      <4>1. enabled' = enabled \/ enabled' = FALSE
        BY <2>5 DEF Request, Sends
      <4>2. QED
        BY <1>2, <4>1, Zenon DEF CdpClientOK
    <3>2. next_id' \in 0..MaxRequests /\ method' \in {"none"} \cup CdpMethods /\ answer' \in CdpAnswers
      BY <1>2, <2>5, CdpLimits DEF Request, Sends, CdpClientOK, CdpAnswers
    <3>3. in_message' \in BOOLEAN /\ garbled' \in BOOLEAN
      BY <1>2, <2>5, Zenon DEF Request, CdpClientOK
    <3>4. QED
      BY <1>2, <2>5, <3>1, <3>2, <3>3 DEF Request, CdpClientOK
  <2>6. CASE UNCHANGED <<answer, session>>
    BY <1>2, <2>1, <2>6 DEF CdpClientOK
  <2>7. TargetsChange \/ PollFindsPage \/ PollTimesOut \/ Connect \/ Close \/ UNCHANGED cdpVars
        => UNCHANGED session /\ answer' \in CdpAnswers
    BY <1>2 DEF TargetsChange, PollFindsPage, PollTimesOut, Connect, Close, cdpVars, session,
       CdpClientOK, CdpAnswers, WithoutUrl, HandshakeFails
  <2>8. QED
    BY <2>1, <2>2, <2>3, <2>4, <2>5, <2>7, <2>4a DEF CdpNext, CdpMethods
<1>5. CdpAppOK'
  <2>1. CASE AppStarts
    <3>1. PICK fin \in BOOLEAN, kind \in Kinds, id \in 0..next_id :
            /\ content' = Append(content, [kind |-> kind, replyTo |-> id])
            /\ sending' = IF fin THEN NoMessage ELSE [of |-> sent', n |-> 1]
      BY <2>1 DEF AppStarts
    <3>2. [kind |-> kind, replyTo |-> id] \in Replies
      <4>1. id \in 0..MaxRequests
        BY <1>2, CdpLimits DEF CdpClientOK
      <4>2. QED
        BY <4>1 DEF Replies
    <3>3. content' \in Seq(Replies) /\ Len(content') = Len(content) + 1
      BY <1>2, <3>1, <3>2 DEF CdpAppOK
    <3>4. sent' = sent + 1 /\ sent' \in 1..MaxMessages
      BY <1>2, <2>1, CdpLimits DEF AppStarts, CdpAppOK
    <3>5. sending' # NoMessage => sending'.of = sent' /\ sending'.n = 1
      BY <3>1
    <3>6. QED
      BY <1>2, <3>3, <3>4, <3>5, CdpLimits DEF CdpAppOK
  <2>2. CASE AppContinues
    <3>1. PICK fin \in BOOLEAN :
            /\ fin \/ sending.n + 1 <= MAX_MESSAGE
            /\ sending' = IF fin THEN NoMessage ELSE [of |-> sending.of, n |-> sending.n + 1]
      BY <2>2 DEF AppContinues
    <3>2. sending' # NoMessage => sending'.of \in 1..MaxMessages /\ sending'.n \in 1..MAX_MESSAGE
      BY <1>2, <2>2, <3>1, CdpLimits DEF AppContinues, CdpAppOK
    <3>3. QED
      BY <1>2, <2>2, <3>2 DEF AppContinues, CdpAppOK
  <2>3. CASE UNCHANGED <<sending, sent, content>>
    BY <1>2, <2>3 DEF CdpAppOK
  <2>4. QED
    BY <2>1, <2>2, <2>3 DEF CdpNext, cdpVars, TargetsChange, PollFindsPage, PollTimesOut, Connect,
       ControlFrame, IllegalFrame, Misread, ReadTimesOut, Request, Close, session
<1>6. CdpTyped'
  BY <1>3, <1>4, <1>5 DEF CdpTyped
<1>7. CdpTyped' => CdpTypeOK'
  <2>1. (CdpTyped => CdpTypeOK)'
    BY CdpTypedIs, PTL
  <2>2. QED
    BY <2>1
<1>8. QED
  BY <1>6, <1>7

-----------------------------------------------------------------------------
(* Types: branches and their sweep *)

LEMMA BranchesTypeStart == BranchesInit => BranchesTypeOK
  BY BranchesAssumption DEF BranchesInit, BranchesTypeOK, Empty, Tree, FileContents, Branch

LEMMA BranchesTypeStep ==
    ASSUME BranchesTypeOK, [BranchesNext]_branchVars
    PROVE  BranchesTypeOK'
<1>1. ASSUME NEW b \in Topics, WorktreeCreate(b) PROVE BranchesTypeOK'
  BY <1>1, BranchesAssumption DEF WorktreeCreate, BranchesTypeOK, Put, Tree, FileContents, Branch
<1>2. ASSUME NEW b \in Topics, WorktreeRemove(b) PROVE BranchesTypeOK'
  BY <1>2, BranchesAssumption DEF WorktreeRemove, BranchesTypeOK, Tree, FileContents, Branch
<1>3. ASSUME NEW b \in Topics, PushBranch(b) PROVE BranchesTypeOK'
  BY <1>3, BranchesAssumption DEF PushBranch, BranchesTypeOK, Tree, FileContents, Branch
<1>4. ASSUME NEW b \in Topics, PullEnds(b) PROVE BranchesTypeOK'
  <2>1. \A x \in DOMAIN topicBranches : topicBranches[x].tip \in Tree /\ topicBranches[x].fork \in Tree
    BY DEF BranchesTypeOK, Branch
  <2>2. baseBranch' \in Tree /\ onBase' \in [Tracked -> SUBSET FileContents]
    <3>1. baseBranch' \in Tree
      BY <1>4, <2>1 DEF BranchesTypeOK, PullEnds, Tree
    <3>2. onBase' = [f \in Tracked |-> onBase[f] \cup {baseBranch'[f]}]
      BY <1>4 DEF PullEnds
    <3>3. QED
      BY <3>1, <3>2 DEF BranchesTypeOK, Tree
  <2>3. DOMAIN topicBranches' = DOMAIN topicBranches /\ \A x \in DOMAIN topicBranches : topicBranches'[x] \in Branch
    <3>1. b \in DOMAIN topicBranches /\ topicBranches[b] \in Branch
      BY <1>4 DEF BranchesTypeOK, PullEnds
    <3>2. \A merged \in BOOLEAN :
             [topicBranches[b] EXCEPT !.upstream = "gone",
                                      !.fork = IF merged THEN topicBranches[b].tip ELSE @] \in Branch
      BY <3>1 DEF Branch
    <3>3. [topicBranches[b] EXCEPT !.upstream = "gone"] \in Branch
      BY <3>1 DEF Branch
    <3>4. PICK r \in Branch : topicBranches' = [topicBranches EXCEPT ![b] = r]
      BY <1>4, <3>2, <3>3, Zenon DEF PullEnds
    <3>5. QED
      BY <3>1, <3>4 DEF BranchesTypeOK
  <2>4. QED
    BY <1>4, <2>2, <2>3 DEF BranchesTypeOK, PullEnds
<1>5. ASSUME NEW b \in Topics, NEW blind \in BOOLEAN, PickBranch(b, blind) PROVE BranchesTypeOK'
  BY <1>5, BranchesAssumption DEF PickBranch, BranchesTypeOK, UpstreamGone, Tree, FileContents, Branch
<1>6. ASSUME NEW b \in Topics, NEW f \in Tracked, CommitTo(b, f) PROVE BranchesTypeOK'
  <2>1. topicBranches[b].tip \in Tree /\ written + 1 \in FileContents
    BY <1>6, BranchesAssumption DEF BranchesTypeOK, CommitTo, Branch, FileContents
  <2>2. [topicBranches[b].tip EXCEPT ![f] = written + 1] \in Tree
    BY <2>1 DEF Tree
  <2>3. topicBranches' = [topicBranches EXCEPT ![b] = [@ EXCEPT !.tip = [topicBranches[b].tip EXCEPT ![f] = written + 1]]]
    BY <1>6 DEF CommitTo
  <2>4. DOMAIN topicBranches' = DOMAIN topicBranches /\ \A x \in DOMAIN topicBranches : topicBranches'[x] \in Branch
    BY <1>6, <2>2, <2>3 DEF BranchesTypeOK, CommitTo, Branch
  <2>5. QED
    BY <1>6, <2>1, <2>4 DEF BranchesTypeOK, CommitTo
<1>7. ASSUME NEW f \in Tracked, MasterCommits(f) PROVE BranchesTypeOK'
  BY <1>7, BranchesAssumption DEF MasterCommits, BranchesTypeOK, Tree, FileContents, Branch
<1>8. CASE StartBroom
  BY <1>8, BranchesAssumption DEF StartBroom, BranchesTypeOK, Tree, FileContents, Branch
<1>9. CASE WritePatch
  BY <1>9, BranchesAssumption DEF WritePatch, BranchesTypeOK, Tree, FileContents, Branch
<1>10. CASE DeleteBranch
  BY <1>10, BranchesAssumption DEF DeleteBranch, BranchesTypeOK, RestOf, Tree, FileContents, Branch
<1>11. CASE EndBroom
  BY <1>11, BranchesAssumption DEF EndBroom, BranchesTypeOK, Tree, FileContents, Branch
<1>12. CASE UNCHANGED branchVars
  BY <1>12, BranchesAssumption DEF branchVars, BranchesTypeOK, Tree, FileContents, Branch
<1>13. QED
  BY <1>1, <1>2, <1>3, <1>4, <1>5, <1>6, <1>7, <1>8, <1>9, <1>10, <1>11, <1>12 DEF BranchesNext

-----------------------------------------------------------------------------
(* Types: the heartbeat referee *)

LEMMA PowerOfTwo == \A n \in Nat : 2 ^ n \in Nat
<1> SUFFICES ASSUME NEW n \in Nat PROVE 2 ^ n \in Nat
  OBVIOUS
<1>1. IsFiniteSet(1..n) /\ Cardinality(1..n) = n
  BY FS_Interval
<1>2. IsFiniteSet(SUBSET (1..n)) /\ Cardinality(SUBSET (1..n)) = 2 ^ n
  BY <1>1, FS_SUBSET
<1>3. QED
  BY <1>2, FS_CardinalityType

\* The guests, the step of the round and the probing, which the counts do not look at.
RefereeRest ==
    /\ guest \in [Guests -> {"beating", "hung", "unarmed"}]
    /\ beatAge \in [Guests -> BeatAges \cup {NoBeat}]
    /\ at \in {"idle", "visit", "revert", "rearm"}
    /\ dryRun \in BOOLEAN
    /\ failStreak \in 0..(MaxBackoff + 1) /\ backoff \in 0..MaxBackoff

LEMMA RefereeTypedIs == RefereeInv /\ RefereeRest => RefereeTypeOK
BY DEF RefereeInv, RoundTyped, RefereeRest, RefereeTypeOK

LEMMA RefereeNumbers ==
    /\ STALE_AGE \in Nat /\ MaxBackoff \in Nat /\ MaxBackoff > 0
    /\ \A n \in 1..(MaxBackoff + 1) : Backoff(n) \in 0..MaxBackoff
<1>1. STALE_AGE \in Nat /\ MaxBackoff \in Nat /\ MaxBackoff > 0
  BY RefereeAssumption
<1>2. ASSUME NEW n \in 1..(MaxBackoff + 1) PROVE Backoff(n) \in 0..MaxBackoff
  <2>1. n - 1 \in Nat
    BY <1>1
  <2>2. 2 ^ (n - 1) \in Nat
    BY <2>1, PowerOfTwo
  <2>3. QED
    BY <1>1, <2>2 DEF Backoff, Least
<1>3. QED
  BY <1>1, <1>2

LEMMA RefereeTypeStart == RefereeInit => RefereeTypeOK
<1> SUFFICES ASSUME RefereeInit PROVE RefereeRest
  BY RefereeStart, RefereeTypedIs
<1>1. guest \in [Guests -> {"beating", "hung", "unarmed"}]
  BY DEF RefereeInit
<1>2. dryRun \in BOOLEAN
  BY Zenon DEF RefereeInit
<1>3. QED
  BY <1>1, <1>2, RefereeNumbers DEF RefereeInit, RefereeRest

LEMMA RefereeTypeStep ==
    ASSUME RefereeTypeOK, RefereeInv, [RefereeNext]_refereeVars
    PROVE  RefereeTypeOK'
<1>1. RefereeInv'
  BY RefereeStep
<1>2. RefereeRest
  BY DEF RefereeTypeOK, RefereeRest
<1>3. at \in {"revert", "rearm"} => First \in Guests
  BY FirstIsThere DEF RefereeInv, RoundSound
<1>4. guest' \in [Guests -> {"beating", "hung", "unarmed"}]
  <2>1. \A g \in Guests, s \in {"beating", "hung", "unarmed"} :
           [guest EXCEPT ![g] = s] \in [Guests -> {"beating", "hung", "unarmed"}]
    BY <1>2 DEF RefereeRest
  <2>2. \/ guest' = guest
        \/ \E g \in Guests, s \in {"beating", "hung", "unarmed"} : guest' = [guest EXCEPT ![g] = s]
    BY <1>3 DEF RefereeNext, refereeVars, Beat, Hang, Repair, Pass, ProbeFails, RoundStarts,
       Judge, Unmapped, Revert, Rearm, SaveRound, LoseRound
  <2>3. QED
    BY <1>2, <2>1, <2>2 DEF RefereeRest
<1>5. beatAge' \in [Guests -> BeatAges \cup {NoBeat}]
  <2>1. CASE UNCHANGED beatAge
    BY <1>2, <2>1 DEF RefereeRest
  <2>2. ASSUME NEW g \in Guests, Beat(g) PROVE beatAge' \in [Guests -> BeatAges \cup {NoBeat}]
    BY <1>2, <2>2, RefereeNumbers DEF Beat, BeatAges, RefereeRest
  <2>3. CASE Pass
    <3>1. \A a \in BeatAges : Least(a + 1, STALE_AGE + 1) \in BeatAges
      BY RefereeNumbers DEF BeatAges, Least
    <3>2. QED
      BY <1>2, <2>3, <3>1 DEF Pass, RefereeRest
  <2>4. QED
    BY <2>1, <2>2, <2>3 DEF RefereeNext, refereeVars, Hang, Repair, ProbeFails, RoundStarts,
       Judge, Unmapped, Revert, Rearm, SaveRound, LoseRound
<1>6. at' \in {"idle", "visit", "revert", "rearm"}
  BY <1>2 DEF RefereeRest, RefereeNext, refereeVars, round, Beat, Hang, Repair, Pass, ProbeFails,
     RoundStarts, Judge, Unmapped, Revert, Rearm, SaveRound, LoseRound, RoundOver
<1>7. dryRun' \in BOOLEAN
  <2>1. dryRun' = dryRun \/ dryRun' \in BOOLEAN \/ dryRun' = FALSE
    BY DEF RefereeNext, refereeVars, round, Beat, Hang, Repair, Pass, ProbeFails, RoundStarts,
       Judge, Unmapped, Revert, Rearm, SaveRound, LoseRound, RoundOver
  <2>2. QED
    BY <1>2, <2>1, Zenon DEF RefereeRest
<1>8. failStreak' \in 0..(MaxBackoff + 1) /\ backoff' \in 0..MaxBackoff
  <2>1. CASE ProbeFails
    <3>1. failStreak' \in 1..(MaxBackoff + 1)
      BY <1>2, <2>1, RefereeNumbers DEF ProbeFails, Least, RefereeRest
    <3>2. QED
      BY <2>1, <3>1, RefereeNumbers DEF ProbeFails
  <2>2. CASE Pass
    BY <1>2, <2>2, RefereeNumbers DEF Pass, RefereeRest
  <2>3. CASE failStreak' \in {failStreak, 0} /\ backoff' = backoff
    BY <1>2, <2>3, RefereeNumbers DEF RefereeRest
  <2>4. QED
    BY <2>1, <2>2, <2>3 DEF RefereeNext, refereeVars, probing, Beat, Hang, Repair, RoundStarts,
       Judge, Unmapped, Revert, Rearm, SaveRound, LoseRound
<1>9. RefereeRest'
  BY <1>4, <1>5, <1>6, <1>7, <1>8 DEF RefereeRest, BeatAges, NoBeat
<1>10. (RefereeInv /\ RefereeRest => RefereeTypeOK)'
  BY RefereeTypedIs, PTL
<1>11. QED
  BY <1>1, <1>9, <1>10

-----------------------------------------------------------------------------
(* Types: the dev daemon *)

LEMMA DaemonTypeStart == DaemonInit => DaemonTypeOK
<1>1. DaemonInit => daemonCommands \in 0..MaxDaemonCommands
  BY DaemonAssumption DEF DaemonInit
<1>2. DaemonInit => processes \in [DaemonPids -> {"none", "daemon", "stranger"}]
  BY DEF DaemonInit
<1>3. DaemonInit
      => shell \in [Shells -> {"idle", "start", "opened", "spawned", "stop", "term", "kill", "unlink"}]
  BY DEF DaemonInit
<1>4. DaemonInit => pidFile \in DaemonPids \cup {NoPid} /\ pidRead \in [Shells -> DaemonPids \cup {NoPid}]
  BY DEF DaemonInit
<1>5. DaemonInit => daemonConfig \in BOOLEAN
  BY Zenon DEF DaemonInit
<1>6. QED
  BY <1>1, <1>5, <1>2, <1>3, <1>4 DEF DaemonTypeOK

LEMMA DaemonTypeStep ==
    ASSUME DaemonTypeOK, [DaemonNext]_daemonVars
    PROVE  DaemonTypeOK'
<1>1. CASE GenerateConfig
  BY <1>1, DaemonAssumption, ServeAssumption DEF GenerateConfig, DaemonTypeOK
<1>2. ASSUME NEW s \in Shells, StartDaemon(s) PROVE DaemonTypeOK'
  BY <1>2, DaemonAssumption, ServeAssumption DEF StartDaemon, DaemonTypeOK, ShellGoes,
     DaemonRunning, Exists
<1>3. ASSUME NEW s \in Shells, OpenPidFile(s) PROVE DaemonTypeOK'
  BY <1>3, DaemonAssumption, ServeAssumption DEF OpenPidFile, DaemonTypeOK, ShellGoes
<1>4. ASSUME NEW s \in Shells, SpawnDaemon(s) PROVE DaemonTypeOK'
  BY <1>4, DaemonAssumption, ServeAssumption DEF SpawnDaemon, DaemonTypeOK, ShellGoes
<1>5. ASSUME NEW s \in Shells, WritePid(s) PROVE DaemonTypeOK'
  BY <1>5, DaemonAssumption, ServeAssumption DEF WritePid, DaemonTypeOK, ShellGoes
<1>6. ASSUME NEW s \in Shells, StopDaemon(s) PROVE DaemonTypeOK'
  BY <1>6, DaemonAssumption, ServeAssumption DEF StopDaemon, DaemonTypeOK, ShellGoes, DaemonRunning,
     Exists
<1>7. ASSUME NEW s \in Shells, ReadPid(s) PROVE DaemonTypeOK'
  BY <1>7, DaemonAssumption, ServeAssumption DEF ReadPid, DaemonTypeOK, ShellGoes
<1>8. ASSUME NEW s \in Shells, Signal(s) PROVE DaemonTypeOK'
  BY <1>8, DaemonAssumption, ServeAssumption DEF Signal, DaemonTypeOK, Exists, ShellGoes
<1>9. ASSUME NEW s \in Shells, KillIfRunning(s) PROVE DaemonTypeOK'
  BY <1>9, DaemonAssumption, ServeAssumption DEF KillIfRunning, DaemonTypeOK, DaemonRunning, Exists,
     ShellGoes
<1>10. ASSUME NEW s \in Shells, UnlinkPidFile(s) PROVE DaemonTypeOK'
  BY <1>10, DaemonAssumption, ServeAssumption DEF UnlinkPidFile, DaemonTypeOK, ShellGoes
<1>11. ASSUME NEW p \in DaemonPids, ProcessEnds(p) PROVE DaemonTypeOK'
  BY <1>11, DaemonAssumption, ServeAssumption DEF ProcessEnds, DaemonTypeOK
<1>12. ASSUME NEW p \in DaemonPids, StrangerStarts(p) PROVE DaemonTypeOK'
  BY <1>12, DaemonAssumption, ServeAssumption DEF StrangerStarts, DaemonTypeOK
<1>13. CASE UNCHANGED daemonVars
  BY <1>13, DaemonAssumption, ServeAssumption DEF daemonVars, DaemonTypeOK
<1>14. QED
  BY <1>1, <1>2, <1>3, <1>4, <1>5, <1>6, <1>7, <1>8, <1>9, <1>10, <1>11, <1>12, <1>13 DEF DaemonNext

-----------------------------------------------------------------------------
(* Types: the dev server *)

LEMMA ServeTypeStart == ServeInit => ServeTypeOK
  BY DaemonAssumption, ServeAssumption DEF ServeInit, ServeTypeOK, NoChild

LEMMA ServeTypeStep ==
    ASSUME ServeTypeOK, [ServeNext]_serveVars
    PROVE  ServeTypeOK'
<1>1. CASE WaitForever
  BY <1>1, DaemonAssumption, ServeAssumption DEF WaitForever, ServeTypeOK, NoChild
<1>2. CASE BeginShutdown
  BY <1>2, DaemonAssumption, ServeAssumption DEF BeginShutdown, ServeTypeOK, Begun, NoChild
<1>3. CASE AllTold
  BY <1>3, DaemonAssumption, ServeAssumption DEF AllTold, ServeTypeOK, Begun, NoChild
<1>4. CASE AllReaped
  BY <1>4, DaemonAssumption, ServeAssumption DEF AllReaped, ServeTypeOK
<1>5. CASE SecondSignal
  BY <1>5, DaemonAssumption, ServeAssumption DEF SecondSignal, ServeTypeOK
<1>6. ASSUME NEW t \in Tags, ScriptStarts(t) PROVE ServeTypeOK'
  BY <1>6, DaemonAssumption, ServeAssumption DEF ScriptStarts, ServeTypeOK, NoChild, Start
<1>7. ASSUME NEW t \in Tags, RestartTells(t) PROVE ServeTypeOK'
  BY <1>7, DaemonAssumption, ServeAssumption DEF RestartTells, ServeTypeOK, NoChild, Alive,
     Terminated
<1>8. ASSUME NEW t \in Tags, RestartStarts(t) PROVE ServeTypeOK'
  BY <1>8, DaemonAssumption, ServeAssumption DEF RestartStarts, ServeTypeOK, Start
<1>9. ASSUME NEW t \in Tags, ChildExits(t) PROVE ServeTypeOK'
  BY <1>9, DaemonAssumption, ServeAssumption DEF ChildExits, ServeTypeOK, Alive
<1>10. ASSUME NEW t \in Tags, SpawnsHelper(t) PROVE ServeTypeOK'
  BY <1>10, DaemonAssumption, ServeAssumption DEF SpawnsHelper, ServeTypeOK
<1>11. ASSUME NEW t \in Tags, ReadyLine(t) PROVE ServeTypeOK'
  BY <1>11, DaemonAssumption, ServeAssumption DEF ReadyLine, ServeTypeOK, Alive
<1>12. ASSUME NEW t \in Tags, TermOne(t) PROVE ServeTypeOK'
  BY <1>12, DaemonAssumption, ServeAssumption DEF TermOne, ServeTypeOK, Alive, Terminated
<1>13. ASSUME NEW t \in Tags, ReapOne(t) PROVE ServeTypeOK'
  BY <1>13, DaemonAssumption, ServeAssumption DEF ReapOne, ServeTypeOK, Alive, Killed_
<1>14. CASE UNCHANGED serveVars
  BY <1>14, DaemonAssumption, ServeAssumption DEF serveVars, ServeTypeOK
<1>15. QED
  BY <1>1, <1>2, <1>3, <1>4, <1>5, <1>6, <1>7, <1>8, <1>9, <1>10, <1>11, <1>12, <1>13, <1>14 DEF
     ServeNext

-----------------------------------------------------------------------------
(* Types: job-timeouts *)

LEMMA FlowsTyped ==
    TimeoutsInv /\ flowEdits \in 0..MaxFlowEdits /\ timeoutRuns \in 0..MaxTimeoutRuns
        => JobTimeoutsTypeOK
<1>1. \A r \in Reaches : r \subseteq {"self", "hosted", "callers"}
  BY DEF Reaches, Reach, Scope
<1>2. TimeoutsInv => DOMAIN savedFlow = Workflows
  BY DEF TimeoutsInv, FlowTypes
<1>3. TimeoutsInv => reached \in [Workflows -> SUBSET {"self", "hosted", "callers"}]
  BY <1>1 DEF TimeoutsInv, FlowTypes
<1>4. TimeoutsInv => timeoutRun.did \in FixStates
  BY DEF TimeoutsInv, FlowTypes
<1>5. QED
  BY <1>2, <1>3, <1>4, Zenon DEF TimeoutsInv, FlowTypes, FixStates, JobTimeoutsTypeOK

LEMMA TimeoutsTypeStart == TimeoutsInit => JobTimeoutsTypeOK
<1>1. TimeoutsInit => TimeoutsInv
  BY TimeoutsStart
<1>2. TimeoutsInit => flowEdits \in 0..MaxFlowEdits /\ timeoutRuns \in 0..MaxTimeoutRuns
  BY JobTimeoutsAssumption DEF TimeoutsInit
<1>3. QED
  BY <1>1, <1>2, FlowsTyped

LEMMA TimeoutsTypeStep ==
    ASSUME JobTimeoutsTypeOK, TimeoutsInv, [TimeoutsNext]_timeoutVars
    PROVE  JobTimeoutsTypeOK'
<1>1. flowEdits \in 0..MaxFlowEdits /\ timeoutRuns \in 0..MaxTimeoutRuns
  BY Zenon DEF JobTimeoutsTypeOK
<1>2. \/ flowEdits' = flowEdits
      \/ flowEdits' = flowEdits + 1 /\ flowEdits < MaxFlowEdits
  <2>1. \A w : EditWorkflow(w) => flowEdits' = flowEdits + 1 /\ flowEdits < MaxFlowEdits
    BY Zenon DEF EditWorkflow
  <2>2. \A w : FixWrites(w) \/ FixKilled(w) => flowEdits' = flowEdits
    BY Zenon DEF FixWrites, FixKilled
  <2>3. \A scope, dry : AuditTimeouts(scope) \/ FixReads(scope, dry) \/ RefuseText => flowEdits' = flowEdits
    BY Zenon DEF AuditTimeouts, FixReads, RefuseText
  <2>4. UNCHANGED timeoutVars => flowEdits' = flowEdits
    BY DEF timeoutVars
  <2>5. QED
    BY <2>1, <2>2, <2>3, <2>4, Zenon DEF TimeoutsNext
<1>3. \/ timeoutRuns' = timeoutRuns
      \/ timeoutRuns' = timeoutRuns + 1 /\ timeoutRuns < MaxTimeoutRuns
  <2>1. \A w : EditWorkflow(w) \/ FixWrites(w) \/ FixKilled(w) => timeoutRuns' = timeoutRuns
    BY Zenon DEF EditWorkflow, FixWrites, FixKilled
  <2>2. \A scope, dry : AuditTimeouts(scope) \/ FixReads(scope, dry) \/ RefuseText
           => timeoutRuns' = timeoutRuns + 1 /\ timeoutRuns < MaxTimeoutRuns
    BY Zenon DEF AuditTimeouts, FixReads, RefuseText, StartTimeouts
  <2>3. UNCHANGED timeoutVars => timeoutRuns' = timeoutRuns
    BY DEF timeoutVars
  <2>4. QED
    BY <2>1, <2>2, <2>3, Zenon DEF TimeoutsNext
<1>4. flowEdits' \in 0..MaxFlowEdits /\ timeoutRuns' \in 0..MaxTimeoutRuns
  BY <1>1, <1>2, <1>3, JobTimeoutsAssumption
<1>5. TimeoutsInv'
  BY TimeoutsStep
<1>6. (TimeoutsInv /\ flowEdits \in 0..MaxFlowEdits /\ timeoutRuns \in 0..MaxTimeoutRuns
          => JobTimeoutsTypeOK)'
  BY FlowsTyped, PTL
<1>7. QED
  BY <1>4, <1>5, <1>6, Zenon

-----------------------------------------------------------------------------
(* Types: runner credentials *)

\* The soundness of the runners types them and the script; what is left are the outcomes.
LEMMA CredTyped ==
    RunnersInv /\ refused \subseteq Hosts /\ credExit \in {"none", "ok", "failed"} => CredentialsTypeOK
<1>1. Len(ApplySteps) = 8
  BY DEF ApplySteps
<1>2. QED
  BY <1>1 DEF RunnersInv, ApplyRecords, RunnerFiles, CredentialsTypeOK

LEMMA CredTypeStart == CredentialsInit => CredentialsTypeOK
  BY RunnersStart, CredTyped DEF CredentialsInit

LEMMA CredTypeStep ==
    ASSUME CredentialsTypeOK, RunnersInv, [CredentialsNext]_credVars
    PROVE  CredentialsTypeOK'
<1>1. RunnersInv'
  BY RunnersStep
<1>2. applying # NotApplying => Host \in Hosts
  BY DEF RunnersInv, ApplySound, NotApplying, Host, Hosts, ApplyRecords
<1>3. refused \subseteq Hosts /\ credExit \in {"none", "ok", "failed"}
  BY DEF CredentialsTypeOK
<1>4. ASSUME NEW ok, HostEnds(ok), applying # NotApplying
      PROVE  refused' \subseteq Hosts /\ credExit' \in {"none", "ok", "failed"}
  BY <1>2, <1>3, <1>4 DEF HostEnds
<1>5. \A step : Remotely(step) => applying # NotApplying
  BY DEF Remotely, NotApplying
<1>6. refused' \subseteq Hosts /\ credExit' \in {"none", "ok", "failed"}
  <2>1. CASE StartConfigure
    BY <2>1 DEF StartConfigure
  <2>2. CASE HostCut
    BY <1>4, <2>2 DEF HostCut
  <2>3. CASE SummaryStep \/ InstallPackages
    BY <1>3, <1>4, <1>5, <2>3 DEF SummaryStep, InstallPackages, Advance
  <2>4. CASE RunnerChanges
    BY <1>3, <2>4 DEF RunnerChanges
  <2>5. CASE UNCHANGED <<refused, credExit>>
    BY <1>3, <2>5
  <2>6. WriteKeys \/ StripBlock \/ AppendBlock \/ SetGit \/ PatchCargo \/ UnitEnvironment \/ UNCHANGED credVars
        => UNCHANGED <<refused, credExit>>
    BY DEF WriteKeys, StripBlock, AppendBlock, SetGit, PatchCargo, UnitEnvironment, UnitInPlace,
       UnitMissing, RestartLeftOut, Restarted, RestartFailed, Advance, credVars
  <2>7. QED
    BY <2>1, <2>2, <2>3, <2>4, <2>5, <2>6 DEF CredentialsNext
<1>7. (RunnersInv /\ refused \subseteq Hosts /\ credExit \in {"none", "ok", "failed"} => CredentialsTypeOK)'
  BY CredTyped, PTL
<1>8. QED
  BY <1>1, <1>6, <1>7

=============================================================================
