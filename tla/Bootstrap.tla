------------------------------ MODULE Bootstrap ------------------------------
(***************************************************************************)
(* The one-command install (deploy/bootstrap.py, stages_more.py, cli.py)   *)
(* on the host that upgrades and rollbacks change too, and its opposite,   *)
(* deploy/ops.py's uninstall.  A run goes through eleven stages in order,  *)
(* each with a result; it stops at the first failure, after the reporter,  *)
(* and at the first stage that has not landed it marks the rest pending.   *)
(***************************************************************************)
EXTENDS Lifecycle, Sequences

VARIABLES
    account,      \* the service account and its directories exist
    envFile,      \* the generation of the secrets in the env file; 0: no file
    urlFile,      \* the database URL file exists
    admin,        \* the first administrator is registered
    told,         \* history: somebody was shown the first administrator's password
    stage,        \* the stage the run is at; 0: no run
    options,      \* what the run was asked for
    incoming,     \* ctx.state: what this run's artifact stage fetched
    outcome       \* the statuses of the results so far

host          == <<account, envFile, urlFile, admin>>
run           == <<stage, options, incoming, outcome>>
bootstrapVars == <<lifecycleVars, host, told, run>>

STAGE_ORDER == <<"precheck", "account", "secrets", "database", "artifact", "install",
                 "migrate", "first-admin", "front", "verify", "summary">>

Statuses == {"ok", "skipped", "pending", "failed"}

\* landed: cli.run_bootstrap registers all the stages; whoever calls run_stages
\* without it has the first three.
Options == [dry : BOOLEAN, email : BOOLEAN, landed : BOOLEAN]

Unasked == [dry |-> FALSE, email |-> FALSE, landed |-> FALSE]

Landed(name) == options.landed \/ name \in {"precheck", "account", "secrets", "summary"}

BootstrapTypeOK ==
    /\ LifecycleTypeOK
    /\ account \in BOOLEAN /\ urlFile \in BOOLEAN /\ admin \in BOOLEAN /\ told \in BOOLEAN
    /\ envFile \in 0..MaxCommands
    /\ stage \in 0..Len(STAGE_ORDER)
    /\ options \in Options
    /\ incoming \in Binaries
    /\ outcome \subseteq Statuses

-----------------------------------------------------------------------------
(* run_stages.                                                              *)

At(name) ==
    /\ stage # 0
    /\ STAGE_ORDER[stage] = name
    /\ Landed(name)
    /\ "pending" \notin outcome

\* A result that is not a failure leads to the next stage; a failure to the
\* reporter, which is the last.
Yields(status) ==
    /\ outcome' = outcome \cup {status}
    /\ stage' = IF status = "failed" THEN Len(STAGE_ORDER) ELSE stage + 1
    /\ UNCHANGED <<options, commands, doing, entry, entered, ledger>>

HostKept  == UNCHANGED <<host, told, binaries, database, good, unprotected, incoming>>
FilesKept == UNCHANGED <<binaries, database, good, unprotected, incoming>>

\* A stage that in a dry run only says what it would do.
Planned(name) ==
    /\ At(name)
    /\ options.dry
    /\ Yields("ok")
    /\ HostKept

\* A stage that ends without a change: nothing to do, or refused.
Unchanged(name, statuses) ==
    /\ At(name)
    /\ \E status \in statuses : Yields(status)
    /\ HostKept

StartRun ==
    /\ stage = 0
    /\ Begins("idle")
    /\ stage' = 1
    /\ options' \in Options
    /\ incoming' = NoBinary
    /\ outcome' = {}
    /\ UNCHANGED <<host, told, binaries, database, ledger, entry, good, unprotected>>

\* The profile is valid, and the user is root or only plans; or not.
Precheck == Unchanged("precheck", {"ok", "failed"})

Account ==
    \/ Planned("account")
    \/ ~options.dry /\ Unchanged("account", {"failed"})
    \/ /\ At("account") /\ ~options.dry
       /\ account' = TRUE
       /\ Yields("ok")
       /\ UNCHANGED <<envFile, urlFile, admin, told>> /\ FilesKept

\* The env file is generated once.  One that others can read is refused.
Secrets ==
    \/ envFile # 0 /\ Unchanged("secrets", {"skipped", "failed"})
    \/ envFile = 0 /\ Planned("secrets")
    \/ /\ At("secrets") /\ ~options.dry
       /\ envFile = 0
       /\ envFile' = commands
       /\ Yields("ok")
       /\ UNCHANGED <<account, urlFile, admin, told>> /\ FilesKept

\* Without CHEST_DATABASE_URL the URL file must be there; with it, the file is
\* written before pg_isready is asked.
Database ==
    \/ Unchanged("database", {IF urlFile THEN "skipped" ELSE "failed"})
    \/ Planned("database")
    \/ /\ At("database") /\ ~options.dry
       /\ urlFile' = TRUE
       /\ Yields("ok") \/ Yields("failed")
       /\ UNCHANGED <<account, envFile, admin, told>> /\ FilesKept

Artifact ==
    \/ Unchanged("artifact", {"failed"})
    \/ Planned("artifact")
    \/ /\ At("artifact") /\ ~options.dry
       /\ \E index \in SUBSET Versions :
             /\ Resolve(index) # 0
             /\ incoming' = Resolve(index)
       /\ Yields("ok")
       /\ UNCHANGED <<host, told, bin, prev, failedCopy, running, database, good, unprotected>>

\* A dry run has fetched nothing, and ends here: the test for what was fetched
\* comes before the test for a dry run.
InstallFails == incoming = NoBinary /\ Unchanged("install", {"failed"})

Installs ==
    /\ At("install")
    /\ incoming # NoBinary
    /\ ~options.dry
    /\ bin' = incoming
    /\ unprotected' = (unprotected \/ bin # NoBinary)
    /\ Yields("ok")
    /\ UNCHANGED <<host, told, prev, failedCopy, running, database, good, incoming>>

Install == InstallFails \/ Installs

Migrate ==
    \/ bin = NoBinary /\ Unchanged("migrate", {"failed"})
    \/ /\ At("migrate")
       /\ bin # NoBinary
       /\ \/ schema' = Migrated(bin) /\ Yields("ok")
          \/ schema' \in {schema, Migrated(bin)} /\ Yields("failed")
       /\ UNCHANGED <<host, told, binaries, dumped, good, unprotected, incoming>>

\* The service must be up.  It promotes the first user who registers, and
\* refuses a second registration of the address.
FirstAdmin ==
    \/ ~options.email /\ Unchanged("first-admin", {"skipped"})
    \/ options.email /\ running # NoBinary /\ Unchanged("first-admin", {"failed"})
    \/ /\ At("first-admin")
       /\ options.email
       /\ running # NoBinary
       /\ ~admin
       /\ admin' = TRUE
       /\ told' = TRUE
       /\ Yields("ok")
       /\ UNCHANGED <<account, envFile, urlFile>> /\ FilesKept

\* Disabled, no acme.sh, or nginx reloaded with the new configuration; or not.
FrontPage == Unchanged("front", {"skipped", "ok", "failed"})

\* ops.verify: the service answers, its page names a build, a backup exists.
Healthy == running # NoBinary /\ dumped # {}

Verify == Unchanged("verify", {"failed"} \cup (IF Healthy THEN {"ok"} ELSE {}))

\* A stage that has not landed, and every one after it.
Pending ==
    /\ stage # 0
    /\ STAGE_ORDER[stage] # "summary"
    /\ "pending" \in outcome \/ ~Landed(STAGE_ORDER[stage])
    /\ Yields("pending")
    /\ HostKept

\* Variant: only what is pending counts.
ExitCode_Pending == IF "pending" \in outcome THEN 2 ELSE 0

ExitCode == IF "failed" \in outcome THEN 1
            ELSE IF "pending" \in outcome THEN 2 ELSE 0

\* The run returns its exit code, and ctx is gone.
Returns ==
    /\ stage' = 0
    /\ incoming' = NoBinary
    /\ outcome' = {}
    /\ options' = Unasked

Summary ==
    /\ stage = Len(STAGE_ORDER)
    /\ Returns
    /\ good' = IF ExitCode = 0 THEN bin ELSE good
    /\ UNCHANGED <<host, told, binaries, database, ledger, doing, entry, commands, entered,
                   unprotected>>

\* The run is killed, or a stage throws: nobody listens where the administrator
\* is to be registered, a command is missing or takes too long.  An answer of the
\* service that is lost leaves an administrator whose password nobody was told.
RunCut ==
    /\ stage # 0
    /\ Returns
    /\ unprotected' = TRUE
    /\ \/ UNCHANGED <<admin, schema>>
       \/ At("first-admin") /\ running # NoBinary /\ ~options.dry /\ options.email
            /\ admin' = TRUE /\ UNCHANGED schema
       \/ At("migrate") /\ bin # NoBinary /\ schema' = Migrated(bin) /\ UNCHANGED admin
    /\ UNCHANGED <<account, envFile, urlFile, told, binaries, dumped, ledger, doing, entry,
                   commands, good, entered>>

Run ==
    \/ StartRun \/ Precheck \/ Account \/ Secrets \/ Database \/ Artifact \/ Install
    \/ Migrate \/ FirstAdmin \/ FrontPage \/ Verify \/ Pending \/ Summary \/ RunCut

-----------------------------------------------------------------------------
\* uninstall: the unit is stopped, or that fails and nobody looks; the binaries,
\* the unit and the env file go.  The database and the URL file stay.
Uninstall ==
    /\ stage = 0
    /\ Begins("idle")
    /\ running' \in {running, NoBinary}
    /\ bin' = NoBinary /\ prev' = NoBinary /\ failedCopy' = NoBinary
    /\ good' = NoBinary
    /\ envFile' = 0
    /\ UNCHANGED <<account, urlFile, admin, told, run, database, ledger, entry,
                   unprotected>>

\* The operator starts the unit; no stage does.
OperatorStarts ==
    /\ bin # NoBinary
    /\ doing = "idle"
    /\ running' = bin
    /\ UNCHANGED <<bin, prev, failedCopy, database, ledger, doing, entry, commands,
                   good, entered, unprotected, host, told, run>>

BootstrapInit ==
    /\ LifecycleInit
    /\ account = FALSE /\ envFile = 0 /\ urlFile = FALSE /\ admin = FALSE /\ told = FALSE
    /\ stage = 0 /\ incoming = NoBinary /\ outcome = {}
    /\ options = Unasked

BootstrapNext ==
    \/ stage = 0 /\ LifecycleNext /\ UNCHANGED <<host, told, run>>
    \/ Run
    \/ Uninstall
    \/ OperatorStarts

BootstrapSpec == BootstrapInit /\ [][BootstrapNext]_bootstrapVars

-----------------------------------------------------------------------------
(* cli.py: never a fake success.  A run that is not a plan and exits 0      *)
(* leaves a host on which all of it is in place: what a stage found or made *)
(* is still there when the later ones are done.                             *)
SuccessIsReal ==
    Summary /\ ExitCode = 0 =>
      /\ account /\ envFile # 0 /\ urlFile
      /\ bin = incoming /\ bin # NoBinary /\ schema >= bin
      /\ running # NoBinary
      /\ options.email => admin /\ told

NeverFakeSuccess == [][SuccessIsReal]_bootstrapVars

(* --dry-run: print the plan, change nothing.  None of the stages of such a *)
(* run writes to the host, whatever is on it.                               *)
DryRunIsIdle ==
    stage # 0 /\ options.dry =>
      UNCHANGED <<host, bin, prev, failedCopy, database, ledger>>

DryRunChangesNothing == [][DryRunIsIdle]_bootstrapVars
=============================================================================
