----------------------------- MODULE CargoTools -----------------------------
(***************************************************************************)
(* Two tools around cargo.                                                 *)
(*                                                                         *)
(* The build-cache guard of one repository (build/cache_guard.py): builds  *)
(* grow target/, the guard cleans it below a floor of free disk and sweeps *)
(* it above a size, which it measures once per interval and keeps in a     *)
(* sidecar file.                                                           *)
(*                                                                         *)
(* Registering local checkouts as cargo patches (register_patches.py):     *)
(* every repository of a machine writes its patches to the one user-level  *)
(* cargo config; a block between two marker lines is the user's own.       *)
(***************************************************************************)
EXTENDS Naturals

CONSTANTS
    DISK,               \* what target/ and free space share
    MIN_FREE,           \* the floor
    SOFT_THRESHOLD,     \* the size from which the sweep runs
    RECHECK_INTERVAL,   \* how long a measurement is believed
    NoSidecar

ASSUME CacheGuardAssumption ==
    /\ DISK \in Nat /\ MIN_FREE \in 0..DISK /\ SOFT_THRESHOLD \in 1..DISK
    /\ RECHECK_INTERVAL \in Nat \ {0}
    /\ NoSidecar \notin [size : Nat, age : Nat]

VARIABLES
    target,     \* the size of target/: what the builds still use, and what is stale
    others,     \* what others have of the disk
    sidecar,    \* the last measurement and its age
    guarded     \* what the last guard did

cacheVars == <<target, others, sidecar, guarded>>

Size == target.live + target.stale
Free == DISK - Size - others

CacheGuardTypeOK ==
    /\ target.live \in 0..DISK /\ target.stale \in 0..DISK
    /\ others \in 0..DISK
    /\ Size + others <= DISK
    /\ sidecar = NoSidecar \/ sidecar \in [size : 0..DISK, age : 0..RECHECK_INTERVAL]
    /\ guarded \in {"skip", "none", "cargo-clean", "soft-clean"}

\* A build makes artifacts and leaves those of the last build behind.
Build ==
    /\ \E n \in 1..DISK :
          /\ n <= Free
          /\ target' \in {[target EXCEPT !.live = @ + n],
                          [live |-> n, stale |-> target.live + target.stale]}
    /\ UNCHANGED <<others, sidecar, guarded>>

OthersUse ==
    /\ \E n \in 0..(DISK - Size) : n # others /\ others' = n
    /\ UNCHANGED <<target, sidecar, guarded>>

TimePasses ==
    /\ sidecar # NoSidecar /\ sidecar.age < RECHECK_INTERVAL
    /\ sidecar' = [sidecar EXCEPT !.age = @ + 1]
    /\ UNCHANGED <<target, others, guarded>>

\* _cargo_clean: everything goes, the sidecar too; cargo may fail, and the sidecar goes alone.
CargoClean ==
    /\ target' \in {[live |-> 0, stale |-> 0], target}
    /\ sidecar' = NoSidecar
    /\ guarded' = "cargo-clean"

\* _measure_target_size: "over" is a du that fails or is too slow.
RecentSweep == sidecar # NoSidecar /\ sidecar.age < RECHECK_INTERVAL
Measured == IF RecentSweep THEN {[size |-> sidecar.size, sidecar |-> sidecar]}
            ELSE {[size |-> Size, sidecar |-> [size |-> Size, age |-> 0]],
                  [size |-> DISK, sidecar |-> sidecar]}

\* cargo sweep takes the stale artifacts, or fails; its sidecar keeps the size from before.
Guard ==
    /\ \/ Size = 0 /\ guarded' = "skip" /\ UNCHANGED <<target, sidecar>>
       \/ Size > 0 /\ Free < MIN_FREE /\ CargoClean
       \/ /\ Size > 0 /\ Free >= MIN_FREE
          /\ \/ guarded' = "none" /\ UNCHANGED <<target, sidecar>>   \* no cargo-sweep
             \/ \E m \in Measured :
                   /\ sidecar' = m.sidecar
                   /\ IF m.size >= SOFT_THRESHOLD
                      THEN /\ target' \in {target, [target EXCEPT !.stale = 0]}
                           /\ guarded' = "soft-clean"
                      ELSE UNCHANGED target /\ guarded' = "none"
    /\ UNCHANGED others

CacheGuardInit ==
    /\ target = [live |-> 0, stale |-> 0] /\ others = 0
    /\ sidecar = NoSidecar /\ guarded = "skip"

CacheGuardNext == Build \/ OthersUse \/ TimePasses \/ Guard

CacheGuardSpec == CacheGuardInit /\ [][CacheGuardNext]_cacheVars

-----------------------------------------------------------------------------
(* Registering patches *)

CONSTANTS
    Repos,        \* the repositories the tool is run in
    Siblings,     \* the crates of the checkouts beside them
    UsedBy,       \* the sibling crates each repository depends on
    MaxRegisters  \* bound: runs

ASSUME RegisterPatchesAssumption ==
    UsedBy \in [Repos -> SUBSET Siblings] /\ MaxRegisters \in Nat

VARIABLES
    cargoManifests,  \* the crates whose Cargo.toml is on the disk
    cargoConfig,     \* the patches in the config: in the user's block, and outside it
    register,        \* repository -> its run: the step, the new sections, the config it read
    registers

patchVars == <<cargoManifests, cargoConfig, register, registers>>

CargoConfig == [block : SUBSET Siblings,    \* patches between the two markers
           outside : SUBSET Siblings]  \* every other patch

NoRegister == [step |-> "none", sections |-> {}, read |-> [block |-> {}, outside |-> {}]]

RegisterPatchesTypeOK ==
    /\ cargoManifests \subseteq Siblings
    /\ cargoConfig \in CargoConfig
    /\ register \in [Repos -> [step : {"none", "read", "write"}, sections : SUBSET Siblings,
                               read : CargoConfig]]
    /\ registers \in 0..MaxRegisters

Registers(r, record) == register' = [register EXCEPT ![r] = record]

-----------------------------------------------------------------------------
\* discover_actual_celestia_deps: none, too, when cargo metadata fails.
\* generate_per_repo_patches leaves out what is not beside, the fallback takes all there is.
Sections(deps) == IF deps = {} THEN cargoManifests ELSE deps \cap cargoManifests

StartRegister(r) ==
    /\ register[r] = NoRegister /\ registers < MaxRegisters
    /\ registers' = registers + 1
    /\ IF cargoManifests = {} THEN UNCHANGED register      \* no repository beside: exit 1
       ELSE \E deps \in {UsedBy[r], {}} :
               Registers(r, [NoRegister EXCEPT !.step = "read", !.sections = Sections(deps)])
    /\ UNCHANGED <<cargoManifests, cargoConfig>>

\* update_cargo_config reads the file and, first, writes it back without the patches
\* outside the block whose directory is gone (_clean_stale_local_patches).
CleanStale(r) ==
    /\ register[r].step = "read"
    /\ LET cleaned == [cargoConfig EXCEPT !.outside = @ \cap cargoManifests]
       IN  /\ Registers(r, [register[r] EXCEPT !.step = "write", !.read = cleaned])
           /\ cargoConfig' \in {cleaned, cargoConfig}     \* the second is the dry run
    /\ UNCHANGED <<cargoManifests, registers>>

\* _strip_all_patch_sections drops every patch outside the block, and with the tool's own
\* comment lines the two markers: they begin as those do.  What was in the block is outside.
Stripped(c) == [block |-> {}, outside |-> c.block]

WriteConfig(r) ==
    /\ register[r].step = "write"
    /\ LET kept == Stripped(register[r].read)
           new == [kept EXCEPT !.outside = @ \cup register[r].sections]
       IN  cargoConfig' \in {new, cargoConfig}            \* the second is the dry run
    /\ Registers(r, NoRegister)
    /\ UNCHANGED <<cargoManifests, registers>>

\* The user edits the block; checkouts come and go.
UserEdits ==
    /\ \E s \in SUBSET Siblings : s # cargoConfig.block
                                  /\ cargoConfig' = [cargoConfig EXCEPT !.block = s]
    /\ UNCHANGED <<cargoManifests, register, registers>>

CheckoutMoves ==
    /\ \E s \in SUBSET Siblings : s # cargoManifests /\ cargoManifests' = s
    /\ UNCHANGED <<cargoConfig, register, registers>>

RegisterPatchesInit ==
    /\ cargoManifests = Siblings
    /\ cargoConfig = [block |-> {}, outside |-> {}]
    /\ register = [r \in Repos |-> NoRegister] /\ registers = 0

RegisterPatchesNext ==
    \/ \E r \in Repos : StartRegister(r) \/ CleanStale(r) \/ WriteConfig(r)
    \/ UserEdits \/ CheckoutMoves

RegisterPatchesSpec == RegisterPatchesInit /\ [][RegisterPatchesNext]_patchVars
=============================================================================
