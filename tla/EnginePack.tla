---------------------------- MODULE EnginePack ----------------------------
(***************************************************************************)
(* tools/engine_pack.py: an inference engine is installed from its         *)
(* engine.meta in six steps (conda, env, pip, unit, service, health), each *)
(* of which may fail or be cut short, and is installed again after the     *)
(* meta has changed or half of it is there.                                *)
(***************************************************************************)
EXTENDS Naturals, Sequences

CONSTANTS
    Pythons,         \* the versions of [env].python
    Packages,        \* the pinned packages
    MaxPackEdits,    \* bound: new engine.meta, and changes on the port
    MaxPackInstalls, \* bound: installs
    NoPrefix,        \* no env prefix on the disk
    NoEnvRecord,     \* no .engine-pack-installed.json that can be read
    NoUnit, NoEnvSection

ASSUME EnginePackAssumption == MaxPackEdits \in Nat /\ MaxPackInstalls \in Nat

PackSteps == <<"conda", "env", "pip", "unit", "service", "health">>
EnvSpec == [python : Pythons, packages : SUBSET Packages]
\* An env section that is empty makes a pack of a native binary.
Meta == [env : EnvSpec \cup {NoEnvSection}, valid : BOOLEAN]
Prefix == [python : Pythons \cup {"missing"}, whole : BOOLEAN, packages : SUBSET Packages,
           record : (SUBSET Packages) \cup {NoEnvRecord}]

ASSUME NoPrefixAssumption == NoPrefix \notin Prefix

VARIABLES
    meta,         \* engine.meta
    miniforge,    \* <root>/bin/mamba is there
    prefix,       \* the env prefix
    unit,         \* the unit file: what it starts
    service,      \* "stopped", "serving", "failing"
    stranger,     \* another service answers on the port
    installing,   \* the install that runs: its step and spec
    packOutcome,  \* how the last command ended
    packEdits, packInstalls

packVars == <<meta, miniforge, prefix, unit, service, stranger, installing, packOutcome, packEdits, packInstalls>>

Idle == [at |-> 0, env |-> NoEnvSection, force |-> FALSE]
AtStep(step) == installing.at \in 1..Len(PackSteps) /\ PackSteps[installing.at] = step
Native == installing.env = NoEnvSection
EnvExists == prefix # NoPrefix /\ prefix.python # "missing"
Passed == installing' = [installing EXCEPT !.at = @ + 1] /\ UNCHANGED packOutcome
Failed == installing' = Idle /\ packOutcome' = "failed"

-----------------------------------------------------------------------------
StartInstall ==
    /\ installing = Idle /\ packInstalls < MaxPackInstalls
    /\ packInstalls' = packInstalls + 1
    /\ \E force \in BOOLEAN :
          IF meta.valid
          THEN installing' = [at |-> 1, env |-> meta.env, force |-> force] /\ packOutcome' = "none"
          ELSE packOutcome' = "usage" /\ UNCHANGED installing
    /\ UNCHANGED <<meta, miniforge, prefix, unit, service, stranger, packEdits>>

EnsureMiniforge ==
    /\ AtStep("conda")
    /\ \/ (~Native => miniforge) /\ Passed /\ UNCHANGED miniforge
       \/ ~Native /\ ~miniforge /\ Failed /\ UNCHANGED miniforge
       \/ ~Native /\ ~miniforge /\ Passed /\ miniforge' = TRUE
    /\ UNCHANGED <<meta, prefix, unit, service, stranger, packEdits, packInstalls>>

(* What conda does not own may outlive the removal of its packages, and     *)
(* bin/python may be there before all of the env is.                        *)
Removed == {NoPrefix, [prefix EXCEPT !.python = "missing", !.whole = FALSE, !.packages = {}]}
Created(whole) ==
    IF prefix = NoPrefix
    THEN [python |-> installing.env.python, whole |-> whole, packages |-> {}, record |-> NoEnvRecord]
    ELSE [prefix EXCEPT !.python = installing.env.python, !.whole = whole]

\* An env that has a bin/python is reused, whatever its version.
EnsureEnv ==
    /\ AtStep("env")
    /\ \/ /\ ~Native => EnvExists /\ ~installing.force
          /\ Passed /\ UNCHANGED prefix
       \/ /\ ~Native /\ EnvExists /\ installing.force
          /\ prefix' \in Removed /\ installing' = [installing EXCEPT !.force = FALSE] /\ UNCHANGED packOutcome
       \/ /\ ~Native /\ ~EnvExists
          /\ prefix' = Created(TRUE) /\ Passed
       \/ /\ ~Native /\ (EnvExists => installing.force)
          /\ prefix' \in {prefix} \cup (IF EnvExists THEN Removed ELSE {Created(FALSE)}) /\ Failed
    /\ UNCHANGED <<meta, miniforge, unit, service, stranger, packEdits, packInstalls>>

EnsurePip ==
    /\ AtStep("pip")
    /\ \/ (~Native => prefix.record = installing.env.packages) /\ Passed /\ UNCHANGED prefix
       \/ /\ ~Native /\ prefix.record # installing.env.packages
          /\ prefix' = [prefix EXCEPT !.packages = @ \cup installing.env.packages,
                                      !.record = installing.env.packages]
          /\ Passed
       \/ /\ ~Native /\ prefix.record # installing.env.packages /\ installing.env.packages # {}
          /\ \E some \in SUBSET installing.env.packages :
                prefix' = [prefix EXCEPT !.packages = @ \cup some]
          /\ Failed
    /\ UNCHANGED <<meta, miniforge, unit, service, stranger, packEdits, packInstalls>>

WriteUnit ==
    /\ AtStep("unit") /\ unit' = installing.env /\ Passed
    /\ UNCHANGED <<meta, miniforge, prefix, service, stranger, packEdits, packInstalls>>

\* What the unit starts can serve: a native binary, or an env that has what it needs.
Usable ==
    \/ unit = NoEnvSection
    \/ EnvExists /\ prefix.whole /\ unit.packages \subseteq prefix.packages

Activate ==
    /\ AtStep("service")
    /\ \/ service' \in {"failing"} \cup (IF Usable THEN {"serving"} ELSE {}) /\ Passed
       \/ Failed /\ UNCHANGED service
    /\ UNCHANGED <<meta, miniforge, prefix, unit, stranger, packEdits, packInstalls>>

\* Any 200 on the port is an answer.
Answers == service = "serving" \/ stranger
WaitForHealth ==
    /\ AtStep("health")
    /\ installing' = Idle /\ packOutcome' = IF Answers THEN "ok" ELSE "failed"
    /\ UNCHANGED <<meta, miniforge, prefix, unit, service, stranger, packEdits, packInstalls>>

VerifyHealth ==
    /\ installing = Idle
    /\ packOutcome' = IF ~meta.valid THEN "usage" ELSE IF Answers THEN "ok" ELSE "failed"
    /\ UNCHANGED <<meta, miniforge, prefix, unit, service, stranger, installing, packEdits, packInstalls>>

\* Ctrl-C, a kill or a reboot of the node: at whatever the step had come to.
InstallCut ==
    /\ installing # Idle /\ installing' = Idle /\ packOutcome' = "cut"
    /\ prefix' \in {prefix} \cup (IF AtStep("env") /\ ~Native /\ ~EnvExists THEN {Created(FALSE)} ELSE {})
    /\ UNCHANGED <<meta, miniforge, unit, service, stranger, packEdits, packInstalls>>

-----------------------------------------------------------------------------
EditPack ==
    /\ packEdits < MaxPackEdits /\ packEdits' = packEdits + 1
    /\ \/ meta' \in Meta /\ UNCHANGED stranger
       \/ stranger' = ~stranger /\ UNCHANGED meta
    /\ UNCHANGED <<miniforge, prefix, unit, service, installing, packOutcome, packInstalls>>

PackInit ==
    /\ meta \in [env : EnvSpec \cup {NoEnvSection}, valid : {TRUE}]
    /\ miniforge = FALSE /\ prefix = NoPrefix /\ unit = NoUnit /\ service = "stopped"
    /\ stranger = FALSE /\ installing = Idle /\ packOutcome = "none" /\ packEdits = 0 /\ packInstalls = 0

PackNext ==
    \/ StartInstall \/ EnsureMiniforge \/ EnsureEnv \/ EnsurePip \/ WriteUnit \/ Activate
    \/ WaitForHealth \/ VerifyHealth \/ InstallCut \/ EditPack

PackTypeOK ==
    /\ meta \in Meta /\ prefix \in Prefix \cup {NoPrefix} /\ unit \in EnvSpec \cup {NoEnvSection, NoUnit}
    /\ installing \in [at : 0..Len(PackSteps), env : EnvSpec \cup {NoEnvSection}, force : BOOLEAN]
    /\ packOutcome \in {"none", "ok", "failed", "usage", "cut"} /\ service \in {"stopped", "serving", "failing"}
=============================================================================
