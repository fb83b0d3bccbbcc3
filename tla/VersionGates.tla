---------------------------- MODULE VersionGates ----------------------------
(***************************************************************************)
(* The two version gates of one repository.                                *)
(*                                                                         *)
(* The family-version check (repo/family_versions.py): first what a        *)
(* version requirement admits, the half-open interval the code computes    *)
(* for it and, to compare it with, what the operators of a requirement     *)
(* mean; then the check: manifests declare the shared layers, each         *)
(* declaration is judged against the family's line, and a dated weld       *)
(* window lets another generation pass until its day is over.              *)
(*                                                                         *)
(* verify-versions (repo/verify_versions.py): the gate that holds the      *)
(* manifests to one version per track (cargo, npm, python) and, where      *)
(* .versions.toml declares it, the cargo and npm tracks to each other.  A  *)
(* release moves the slots one by one; any of them may be forgotten,       *)
(* broken or declared away.                                                *)
(***************************************************************************)
EXTENDS Integers, FiniteSets

CONSTANTS
    MaxPart,  \* the largest number in a version that is written down
    AnyPart   \* a part left out, or "*"

ASSUME RequirementsAssumption == MaxPart \in Nat /\ AnyPart \notin Int

Version == Nat \X Nat \X Nat
UNLIMITED == 1000000000

Less(a, b) == \/ a[1] < b[1]
              \/ a[1] = b[1] /\ a[2] < b[2]
              \/ a[1] = b[1] /\ a[2] = b[2] /\ a[3] < b[3]
AtMost(a, b) == a = b \/ Less(a, b)

\* What _parse_version returns, for the versions people write: nothing follows a part left out.
Partial == {p \in Nat \X (Nat \cup {AnyPart}) \X (Nat \cup {AnyPart}) : p[2] = AnyPart => p[3] = AnyPart}

Operators == {"", "=", "^", "~", ">", ">=", "<", "<="}
Comparator == [op : Operators, v : Partial]

-----------------------------------------------------------------------------
(* _bounds: the interval of one comparator.                                 *)

OrZero(part) == IF part = AnyPart THEN 0 ELSE part
Floor(p) == <<p[1], OrZero(p[2]), OrZero(p[3])>>

\* The first version above all that share the parts given in p.
Above(p) == IF p[2] = AnyPart THEN <<p[1] + 1, 0, 0>>
            ELSE IF p[3] = AnyPart THEN <<p[1], p[2] + 1, 0>>
            ELSE <<p[1], p[2], p[3] + 1>>

CaretHigh(p) ==
    CASE p[1] > 0 -> <<p[1] + 1, 0, 0>>
      [] p[1] = 0 /\ p[2] \notin {AnyPart, 0} -> <<0, p[2] + 1, 0>>
      [] p[1] = 0 /\ p[2] \in {AnyPart, 0} -> Above(p)

TildeHigh(p) == IF p[2] = AnyPart THEN <<p[1] + 1, 0, 0>> ELSE <<p[1], p[2] + 1, 0>>

High(c) ==
    CASE c.op = "^" -> CaretHigh(c.v)
      [] c.op = "~" -> TildeHigh(c.v)
      [] c.op \in {">", ">="} -> <<UNLIMITED, 0, 0>>
      [] c.op = "<" -> Floor(c.v)
      [] c.op = "<=" -> <<c.v[1], OrZero(c.v[2]), OrZero(c.v[3]) + 1>>
      [] c.op \in {"", "="} -> Above(c.v)

Low(c) ==
    CASE c.op \in {"<", "<="} -> <<0, 0, 0>>
      [] c.op = ">" -> Above(c.v)
      [] OTHER -> Floor(c.v)

Bounds(c) == <<Low(c), High(c)>>

\* A sequence of comparators is their intersection, an alternation the span of its branches.
Greater(a, b) == IF Less(a, b) THEN b ELSE a
Lesser(a, b) == IF Less(a, b) THEN a ELSE b
Meet(i, j) == <<Greater(i[1], j[1]), Lesser(i[2], j[2])>>
Span(i, j) == <<Lesser(i[1], j[1]), Greater(i[2], j[2])>>

\* intersects and admits
Intersects(i, low, high) == Less(Greater(i[1], low), Lesser(i[2], high))
Admits(i, v) == AtMost(i[1], v) /\ Less(v, i[2])

-----------------------------------------------------------------------------
(* What a comparator means, part by part.                                   *)

Shares(p, v, n) == \A k \in 1..n : p[k] # AnyPart => p[k] = v[k]

\* The parts a caret pins: up to the first that is given and not zero, else all given.
Pinned(p) == IF p[1] > 0 \/ p[2] = AnyPart THEN 1
             ELSE IF p[2] > 0 \/ p[3] = AnyPart THEN 2 ELSE 3

Means(c, v) ==
    CASE c.op \in {"", "="} -> Shares(c.v, v, 3)
      [] c.op = "^" -> AtMost(Floor(c.v), v) /\ Shares(c.v, v, Pinned(c.v))
      [] c.op = "~" -> AtMost(Floor(c.v), v) /\ Shares(c.v, v, 2)
      [] c.op = ">=" -> AtMost(Floor(c.v), v)
      [] c.op = ">" -> AtMost(Floor(c.v), v) /\ ~Shares(c.v, v, 3)
      [] c.op = "<" -> Less(v, Floor(c.v))
      [] c.op = "<=" -> Less(v, Floor(c.v)) \/ Shares(c.v, v, 3)

-----------------------------------------------------------------------------
(* The check of one repository.                                             *)

CONSTANTS
    Line,          \* the family's published line: <<major, minor>>
    MaxDay,        \* bound: days
    PinsAllowed    \* this repository is one of REV_PIN_ALLOWED

ASSUME FamilyVersionsAssumption ==
    /\ Line \in (0..MaxPart) \X (0..MaxPart) /\ MaxPart < UNLIMITED
    /\ MaxDay \in Nat /\ PinsAllowed \in BOOLEAN

\* A declaration as the manifests spell it; the requirement is judged only where it is read.
Cargo == [track : {"cargo"}, family : {"kirino", "plana"}, published : BOOLEAN,
          path : {"none", "inside", "outside"}, git : {"none", "family", "foreign"},
          ref : {"none", "master", "branch", "rev"},
          requirement : {"none", "range", "unreadable"}]
Npm == [track : {"npm"}, requirement : {"sibling", "owned", "unbounded", "range", "unreadable"}]

VARIABLES
    declared,   \* the declaration the manifest holds
    range,      \* its requirement: a set of alternatives, each a set of comparators
    locked,     \* the lines each lockfile resolves
    day,
    weldUntil,  \* the weld's last day; MaxDay + 1 is a milestone, 0 no weld
    report      \* the last check: findings by level, whether --strict, the exit status

familyVars == <<declared, range, locked, day, weldUntil, report>>

Parts == 0..MaxPart
Written == {c \in [op : Operators, v : Parts \X (Parts \cup {AnyPart}) \X (Parts \cup {AnyPart})] :
               c.v[2] = AnyPart => c.v[3] = AnyPart}
LineLow == <<Line[1], Line[2], 0>>
LineHigh == <<Line[1], Line[2] + 1, 0>>

NoReport == [level |-> "none", welded |-> FALSE, locks |-> FALSE, exit |-> "none"]

FamilyVersionsTypeOK ==
    /\ declared \in Cargo \cup Npm
    /\ \A branch \in range : branch \subseteq Written
    /\ locked \subseteq {"this", "older"} \X {"root", "nested"}
    /\ day \in 0..MaxDay /\ weldUntil \in 0..(MaxDay + 1)
    /\ report.level \in {"none", "ok", "warning", "violation"}
    /\ report.exit \in {"none", "0", "1"}

-----------------------------------------------------------------------------
(* The requirement.                                                         *)

FoldMeet(branch) ==
    LET cs == CHOOSE pair \in branch \X branch : branch = {pair[1], pair[2]}
    IN  Meet(Bounds(cs[1]), Bounds(cs[2]))

\* _requirement_bounds
Interval ==
    LET bs == CHOOSE pair \in range \X range : range = {pair[1], pair[2]}
    IN  Span(FoldMeet(bs[1]), FoldMeet(bs[2]))

OnTheLine == Intersects(Interval, LineLow, LineHigh)

-----------------------------------------------------------------------------
(* _check_cargo and _check_npm: the level of what is found.                 *)

OffTheLine(d) == d.requirement = "range" /\ ~OnTheLine

CargoLevel(d) ==
    CASE d.path = "inside" -> "ok"
      [] d.path = "outside" -> "violation"
      [] d.path = "none" /\ d.git = "foreign" -> "violation"
      [] d.path = "none" /\ d.git = "family" /\ d.ref = "rev" ->
            IF PinsAllowed THEN "ok" ELSE "violation"
      [] d.path = "none" /\ d.git = "family" /\ d.ref # "rev" ->
            IF d.ref = "branch" \/ (d.family = "plana" /\ d.ref = "none") THEN "violation"
            ELSE IF d.family = "plana" /\ d.published THEN "warning" ELSE "ok"
      [] d.path = "none" /\ d.git = "none" ->
            IF \/ d.family = "plana" /\ ~d.published
               \/ d.requirement = "none"
               \/ OffTheLine(d) THEN "violation"
            ELSE IF d.requirement = "unreadable" THEN "warning" ELSE "ok"

NpmLevel(d) ==
    CASE d.requirement = "sibling" -> "violation"
      [] d.requirement = "owned" -> "ok"
      [] d.requirement \in {"unbounded", "unreadable"} -> "warning"
      [] d.requirement = "range" -> IF OnTheLine THEN "ok" ELSE "warning"

\* Only the requirement off the line carries a weld_key.
Weldable(d) == /\ d.track = "cargo" /\ d.path = "none" /\ d.git = "none"
               /\ d.family = "plana" => d.published
               /\ OffTheLine(d)

\* _weld_active: the day itself is inside.
WeldActive == weldUntil # 0 /\ (weldUntil = MaxDay + 1 \/ day <= weldUntil)

\* _lock_findings: one lock with two lines, or two locks with different ones.
LockWarning ==
    \/ \E a, b \in locked : a[1] # b[1] /\ a[2] = b[2]
    \/ \E a, b \in locked : a[1] # b[1] /\ a[2] # b[2]

Check ==
    \E strict \in BOOLEAN :
       LET found == IF declared.track = "cargo" THEN CargoLevel(declared) ELSE NpmLevel(declared)
           welded == Weldable(declared) /\ WeldActive
           level == IF welded THEN "ok" ELSE found
       IN  /\ report' = [level |-> level, welded |-> welded, locks |-> LockWarning,
                         exit |-> IF \/ level = "violation"
                                     \/ strict /\ (level = "warning" \/ LockWarning)
                                  THEN "1" ELSE "0"]
           /\ UNCHANGED <<declared, range, locked, day, weldUntil>>

-----------------------------------------------------------------------------
(* The manifests and locks are rewritten, one matter at a time; days pass.  *)

\* The declarations whose requirement is read.
Examined(d) ==
    d.requirement = "range" /\ IF d.track = "npm" THEN TRUE ELSE d.path = "none" /\ d.git = "none"
Registry == [track |-> "cargo", family |-> "kirino", published |-> TRUE, path |-> "none",
             git |-> "none", ref |-> "none", requirement |-> "range"]
OnLine == [op |-> "^", v |-> <<Line[1], Line[2], AnyPart>>]
OnTheDay == day = 0 /\ weldUntil = 0 /\ Examined(declared) /\ Cardinality(UNION range) = 1
\* bound: a second comparator, with all its parts, is tried on the registry's declaration.
Paired(c) == OnTheDay /\ locked = {} /\ declared = Registry /\ c.v[3] # AnyPart

Narrow(c) ==
    /\ Paired(c)
    /\ c \notin UNION range
    /\ range' = {(UNION range) \cup {c}}
    /\ report' = NoReport
    /\ UNCHANGED <<declared, locked, day, weldUntil>>

Alternate(c) ==
    /\ Paired(c)
    /\ c \notin UNION range
    /\ range' = range \cup {{c}}
    /\ report' = NoReport
    /\ UNCHANGED <<declared, locked, day, weldUntil>>

Relock ==
    /\ OnTheDay /\ range = {{OnLine}}
    /\ locked' \in SUBSET ({"this", "older"} \X {"root", "nested"}) /\ locked' # locked
    /\ report' = NoReport
    /\ UNCHANGED <<declared, range, day, weldUntil>>

DayPasses ==
    /\ day < MaxDay
    /\ weldUntil # 0
    /\ day' = day + 1
    /\ report' = NoReport
    /\ UNCHANGED <<declared, range, locked, weldUntil>>

\* The declaration and the weld row there are from the beginning.
Sensible == {d \in Cargo : /\ (d.family = "kirino" => d.published)
                           /\ (d.path # "none" => d.git = "none")
                           /\ (d.git = "none" => d.ref = "none")}

Declare ==
    /\ declared = Registry /\ range = {{OnLine}} /\ locked = {} /\ day = 0 /\ report = NoReport
    /\ declared' \in Sensible \cup Npm
    /\ \E c \in Written : /\ Examined(declared') \/ c = OnLine
                          /\ range' = {{c}}
    /\ weldUntil' \in IF Examined(declared') THEN {0, 1, MaxDay + 1} ELSE {0}
    /\ UNCHANGED <<locked, day, report>>

FamilyVersionsInit ==
    /\ declared = Registry /\ range = {{OnLine}}
    /\ locked = {} /\ day = 0 /\ weldUntil = 0 /\ report = NoReport

FamilyVersionsNext ==
    \/ \E c \in Written : Narrow(c) \/ Alternate(c)
    \/ Declare \/ Relock \/ DayPasses \/ Check

FamilyVersionsSpec == FamilyVersionsInit /\ [][FamilyVersionsNext]_familyVars

-----------------------------------------------------------------------------
(* The gate blames a registry requirement exactly when no version of the    *)
(* family's line satisfies it, and a weld window or its end changes only    *)
(* whether the blame fails the run; of alternatives it may believe too much *)
(* (their span), never too little.  A "<=" of a version with parts left out *)
(* is read too narrowly and is not covered (_check_cargo, _bounds).         *)
SomeOnTheLine ==
    \E patch \in 0..(MaxPart + 2), branch \in range :
        \A c \in branch : Means(c, <<Line[1], Line[2], patch>>)

BlameIsDeserved ==
    (/\ report.exit # "none" /\ declared.track = "cargo" /\ Examined(declared)
     /\ declared.family = "plana" => declared.published
     /\ \A c \in UNION range : c.op = "<=" => c.v[3] # AnyPart)
    => LET blamed == report.level = "violation" \/ report.welded
       IN  /\ blamed => ~SomeOnTheLine
           /\ Cardinality(range) = 1 => (~SomeOnTheLine => blamed)
           /\ blamed /\ report.exit = "0" => WeldActive

-----------------------------------------------------------------------------
(* verify-versions *)

CONSTANTS
    MaxLine,         \* bound: the versions are 1..MaxLine
    MaxSlotEdits,    \* bound: edits of a repository
    Unversioned,     \* a manifest, or a table of it, that declares no version
    Inherits,        \* version.workspace = true, or dynamic = ["version"]
    Unusable,        \* a declared version that is no non-empty string
    Corrupt,         \* a file that cannot be parsed
    Absent           \* no such file

ASSUME VerifyVersionsAssumption ==
    /\ MaxLine \in Nat \ {0} /\ MaxSlotEdits \in Nat
    /\ {Unversioned, Absent, Corrupt} \cap Nat = {}

Lines     == 1..MaxLine
Declared  == Lines \cup {Unversioned}
Members   == {"lib", "vendored"}
CargoRoot == [workspace : Declared, package : Lines \cup {Unversioned, Inherits}]
NpmFile   == [version : Declared, private : BOOLEAN]
Config    == [cargo : Declared, npm : Declared, python : Declared,
              exempt : {{}, {"vendored"}}, cross : {"none", "lockstep", "typo"}]
PlainConfig == [cargo |-> Unversioned, npm |-> Unversioned, python |-> Unversioned,
                exempt |-> {}, cross |-> "none"]

VARIABLES
    cargoRoot, crates,      \* Cargo.toml, and those of the members
    npmRoot, versionSlots,  \* package.json, and those of the members
    pyRoot, dists,          \* pyproject.toml, and those of the members
    versionsToml,           \* .versions.toml
    gate,                   \* how the last run of the gate ended
    slotEdits

slotVars == <<cargoRoot, crates, npmRoot, versionSlots, pyRoot, dists, versionsToml>>
versionVars == <<cargoRoot, crates, npmRoot, versionSlots, pyRoot, dists, versionsToml, gate, slotEdits>>

IsFile(f)  == f \notin {Absent, Corrupt}
TheConfig  == IF IsFile(versionsToml) THEN versionsToml ELSE PlainConfig
Gated      == Members \ TheConfig.exempt
Pinned_(track) == TheConfig[track] # Unversioned

-----------------------------------------------------------------------------
CargoInferred ==
    IF ~IsFile(cargoRoot) THEN Unversioned
    ELSE IF cargoRoot.workspace # Unversioned THEN cargoRoot.workspace
    ELSE IF cargoRoot.package \in Lines THEN cargoRoot.package ELSE Unversioned
CargoBase == IF Pinned_("cargo") THEN TheConfig.cargo ELSE CargoInferred

\* A private root package defines no line, and a corrupt one falls to the vote.
NpmRootDefines == IsFile(npmRoot) /\ ~npmRoot.private /\ npmRoot.version # Unversioned
PublishedAt(v) ==
    Cardinality({m \in Members : IsFile(versionSlots[m]) /\ versionSlots[m] = [version |-> v, private |-> FALSE]})
Winners  == {v \in Lines : PublishedAt(v) > 0 /\ \A w \in Lines : PublishedAt(w) <= PublishedAt(v)}
\* The vote is among the members, and a tie goes to the first the walk finds.
NpmBases ==
    IF Pinned_("npm") THEN {TheConfig.npm}
    ELSE IF NpmRootDefines THEN {npmRoot.version}
    ELSE IF Winners = {} THEN {Unversioned} ELSE Winners
ByMajority == ~Pinned_("npm") /\ ~NpmRootDefines

PythonInferred == IF pyRoot \in Lines THEN pyRoot ELSE Unversioned
PythonBase     == IF Pinned_("python") THEN TheConfig.python ELSE PythonInferred

\* Variant: a workspace whose root declares nothing is no track.
CargoPresent_Root ==
    IsFile(cargoRoot) /\ (cargoRoot.workspace # Unversioned \/ cargoRoot.package \in Lines)

(* A track that exists: any versioned manifest of cargo, any published one  *)
(* of npm, the root one of python, which counts when it cannot be read.     *)
CargoPresent  == \/ IsFile(cargoRoot) /\ (cargoRoot.workspace # Unversioned \/ cargoRoot.package \in Lines)
                 \/ \E m \in Members : crates[m] \in Lines
NpmPresent    == NpmRootDefines \/ Winners # {}
PythonPresent == pyRoot = Corrupt \/ pyRoot \in Lines \cup {Unusable} \/ Pinned_("python")

Drifted(version, base) == version \in Lines /\ version # base

CargoDrifts ==
    /\ CargoBase # Unversioned
    /\ \/ \E m \in Gated : Drifted(crates[m], CargoBase)
       \/ /\ Pinned_("cargo") /\ IsFile(cargoRoot)
          /\ Drifted(IF cargoRoot.package \in Lines THEN cargoRoot.package ELSE cargoRoot.workspace, CargoBase)
NpmDrifts(base) ==
    /\ base # Unversioned
    /\ \E f \in {npmRoot} \cup {versionSlots[m] : m \in Gated} :
          IsFile(f) /\ Drifted(f.version, base) /\ ~(ByMajority /\ f.private)
PythonDrifts ==
    /\ PythonBase # Unversioned
    /\ \/ \E m \in Gated : Drifted(dists[m], PythonBase)
       \/ Pinned_("python") /\ Drifted(pyRoot, PythonBase)
CrossDrifts(npmBase) ==
    /\ TheConfig.cross = "lockstep"
    /\ CargoBase # Unversioned /\ npmBase # Unversioned /\ CargoBase # npmBase

\* What fails the gate that is not a drift: it cannot decide.
Errors(npmBase) ==
    \/ versionsToml = Corrupt
    \/ TheConfig.cross = "typo"
    \/ TheConfig.cross = "lockstep" /\ Unversioned \in {CargoBase, npmBase}
    \/ CargoPresent /\ CargoBase = Unversioned
    \/ NpmPresent /\ npmBase = Unversioned
    \/ PythonPresent /\ PythonBase = Unversioned
    \/ cargoRoot = Corrupt
    \/ ~CargoPresent /\ \E m \in Members : crates[m] = Corrupt
    \/ CargoBase # Unversioned /\ \E m \in Gated : crates[m] = Corrupt
    \/ npmRoot = Corrupt /\ (~Pinned_("npm") \/ npmBase # Unversioned)
    \/ ByMajority /\ \E m \in Members : versionSlots[m] = Corrupt
    \/ npmBase # Unversioned /\ \E m \in Gated : versionSlots[m] = Corrupt
    \/ pyRoot = Corrupt
    \/ PythonBase # Unversioned /\ \E m \in Gated : dists[m] \in {Corrupt, Unusable}
    \/ Pinned_("python") /\ pyRoot = Unusable

VerifyFamily(npmBase) ==
    /\ npmBase \in NpmBases
    /\ gate' = [exit |-> IF Errors(npmBase) \/ CargoDrifts \/ NpmDrifts(npmBase) \/ PythonDrifts
                            \/ CrossDrifts(npmBase) THEN 1 ELSE 0]
    /\ UNCHANGED <<slotVars, slotEdits>>

-----------------------------------------------------------------------------
NotVerified == [exit |-> 2]

\* One slot of a release, or of a mistake.
EditSlot ==
    /\ slotEdits < MaxSlotEdits
    /\ slotEdits' = slotEdits + 1
    /\ gate' = NotVerified
    /\ \/ cargoRoot' \in CargoRoot \cup {Absent, Corrupt}
          /\ UNCHANGED <<crates, npmRoot, versionSlots, pyRoot, dists, versionsToml>>
       \/ /\ \E m \in Members, v \in Declared \cup {Inherits, Corrupt, Absent} : crates' = [crates EXCEPT ![m] = v]
          /\ UNCHANGED <<cargoRoot, npmRoot, versionSlots, pyRoot, dists, versionsToml>>
       \/ npmRoot' \in NpmFile \cup {Absent, Corrupt}
          /\ UNCHANGED <<cargoRoot, crates, versionSlots, pyRoot, dists, versionsToml>>
       \/ /\ \E m \in Members, f \in NpmFile \cup {Absent, Corrupt} : versionSlots' = [versionSlots EXCEPT ![m] = f]
          /\ UNCHANGED <<cargoRoot, crates, npmRoot, pyRoot, dists, versionsToml>>
       \/ pyRoot' \in Declared \cup {Inherits, Unusable, Corrupt, Absent}
          /\ UNCHANGED <<cargoRoot, crates, npmRoot, versionSlots, dists, versionsToml>>
       \/ /\ \E m \in Members, v \in Declared \cup {Inherits, Unusable, Corrupt, Absent} :
                dists' = [dists EXCEPT ![m] = v]
          /\ UNCHANGED <<cargoRoot, crates, npmRoot, versionSlots, pyRoot, versionsToml>>
       \/ /\ \/ versionsToml' \in {Absent, Corrupt}
             \/ \E track \in {"cargo", "npm", "python"}, v \in Declared :
                   versionsToml' = [TheConfig EXCEPT ![track] = v]
             \/ \E cross \in {"none", "lockstep", "typo"}, out \in {{}, {"vendored"}} :
                   versionsToml' = [TheConfig EXCEPT !.cross = cross, !.exempt = out]
          /\ UNCHANGED <<cargoRoot, crates, npmRoot, versionSlots, pyRoot, dists>>

\* A workspace whose members inherit, and one with no root line at all.
VersionsInit ==
    /\ cargoRoot \in {[workspace |-> 1, package |-> Unversioned], Absent}
    /\ crates = [m \in Members |-> IF cargoRoot = Absent THEN Absent ELSE Inherits]
    /\ npmRoot \in {[version |-> 1, private |-> FALSE], [version |-> Unversioned, private |-> TRUE]}
    /\ versionSlots = [m \in Members |-> [version |-> 1, private |-> FALSE]]
    /\ pyRoot \in {1, Absent} /\ dists = [m \in Members |-> pyRoot]
    /\ versionsToml = Absent
    /\ gate = NotVerified /\ slotEdits = 0

VersionsNext == EditSlot \/ \E npmBase \in Declared : VerifyFamily(npmBase)

VersionsTypeOK ==
    /\ cargoRoot \in CargoRoot \cup {Absent, Corrupt}
    /\ npmRoot \in NpmFile \cup {Absent, Corrupt}
    /\ versionsToml \in Config \cup {Absent, Corrupt}
    /\ gate.exit \in 0..2 /\ slotEdits \in 0..MaxSlotEdits

(* The lines a repository has, without the gate's own notion of a baseline. *)
PublishedLines ==
    {f.version : f \in {g \in {npmRoot} \cup {versionSlots[m] : m \in Gated} : IsFile(g) /\ ~g.private}} \cap Lines
CargoLines ==
    ({crates[m] : m \in Gated}
     \cup (IF IsFile(cargoRoot)
           THEN {IF cargoRoot.workspace # Unversioned THEN cargoRoot.workspace ELSE cargoRoot.package}
           ELSE {})) \cap Lines
\* A root that is a workspace with a line and a package with one.
TwoSlots == IsFile(cargoRoot) /\ cargoRoot.workspace # Unversioned /\ cargoRoot.package \in Lines
DistLines == ({dists[m] : m \in Gated} \cup {pyRoot}) \cap Lines

(* A green gate has decided, and on one line per track: no two gated        *)
(* manifests of a track declare two versions, a declared lockstep holds     *)
(* between the tracks, a pin is the line it pins, and no manifest that      *)
(* could not be read was passed over.  Outside it, as the README says: a    *)
(* root with both a workspace and a package line, of which the gate looks   *)
(* at one, and python members without a root line, a track it takes for     *)
(* absent.                                                                  *)
GreenMeansOneLine ==
    gate.exit = 0 =>
        /\ ~TwoSlots => Cardinality(CargoLines) <= 1
        /\ Cardinality(PublishedLines) <= 1
        /\ pyRoot \in Lines => DistLines = {pyRoot}
        /\ TheConfig.cross = "lockstep" /\ ~TwoSlots => CargoLines \cup PublishedLines \subseteq {CargoBase} \ {Unversioned}
        /\ Pinned_("cargo") /\ ~TwoSlots => CargoLines \subseteq {TheConfig.cargo}
        /\ Corrupt \notin {cargoRoot, npmRoot, pyRoot, versionsToml}
=============================================================================
