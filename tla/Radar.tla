------------------------------- MODULE Radar ------------------------------
(***************************************************************************)
(* radar (radar/radar.py): the dependencies of each watched repository are *)
(* compared with the latest releases.  GitHub and the registries may fail  *)
(* at any request, an answer is kept for the whole scan, and what is there *)
(* changes while it runs.                                                  *)
(***************************************************************************)
EXTENDS Naturals, Sequences

CONSTANTS
    WatchedRepos,  \* the repositories of dependency-radar.yml, in order
    RadarDeps,     \* the names of dependencies
    MaxReleases,   \* bound: versions are 1..MaxReleases
    MaxUpstream,   \* bound: changes upstream
    NotAsked       \* a name that is not in the cache

\* "manifest" stands for the path of one, which is no name of a dependency; of no
\* repository, a scan has nothing to look at.
ASSUME RadarAssumption ==
    /\ MaxReleases \in Nat \ {0} /\ MaxUpstream \in Nat
    /\ WatchedRepos \in Seq(STRING) \ {<<>>}
    /\ NotAsked \notin Nat /\ "manifest" \notin RadarDeps

Probes   == <<"actions", "cargo", "npm">>
ProbeSet == {Probes[i] : i \in 1..Len(Probes)}
Repos_   == {WatchedRepos[i] : i \in 1..Len(WatchedRepos)}
Unknown  == 0                    \* no release, or no answer: the report cannot tell them apart
Known    == 1..MaxReleases
\* The refs of a name: several in workflows, at most one in a manifest.
RefsOf(probe) == IF probe = "actions" THEN SUBSET Known ELSE {{}} \cup {{v} : v \in Known}

VARIABLES
    radarDeclared,  \* by repository, probe and name: the versions it is pinned at
    latest,         \* by probe and name: the latest release
    scanning,       \* the position of the scan, 0 when none runs
    radarQueue,     \* the refs of this probe that are yet to be compared
    asked,          \* by probe and name: the caches of the scan
    rows,           \* the rows of the report
    upstream

radarVars == <<radarDeclared, latest, scanning, radarQueue, asked, rows, upstream>>

Places_ == Len(WatchedRepos) * Len(Probes)
RepoAt(n)  == WatchedRepos[((n - 1) \div Len(Probes)) + 1]
ProbeAt(n) == Probes[((n - 1) % Len(Probes)) + 1]
Row(n, dep, note) == [repo |-> RepoAt(n), probe |-> ProbeAt(n), dep |-> dep, note |-> note]
Listing == [at |-> "manifest", refs |-> {}]

StartScan ==
    /\ scanning = 0
    /\ scanning' = 1 /\ radarQueue' = Listing /\ rows' = {}
    /\ asked' = [p \in ProbeSet |-> [d \in RadarDeps |-> NotAsked]]
    /\ UNCHANGED <<radarDeclared, latest, upstream>>

NextProbe == IF scanning < Places_ THEN scanning + 1 ELSE 0

(* One ref of a name, the first that is met (a sha is a row by itself); a manifest that cannot be      *)
(* fetched is a row, a directory of workflows that cannot is none.          *)
ReadManifest ==
    /\ scanning # 0 /\ radarQueue.at = "manifest"
    /\ \/ /\ \E pick \in [RadarDeps -> Known \cup {Unknown}] :
                LET pins == radarDeclared[RepoAt(scanning)][ProbeAt(scanning)]
                IN  /\ \A d \in RadarDeps : IF pins[d] = {} THEN pick[d] = Unknown ELSE pick[d] \in pins[d]
                    /\ radarQueue' = [at |-> "refs", refs |-> {<<d, pick[d]>> : d \in {e \in RadarDeps : pins[e] # {}}}]
          /\ UNCHANGED <<rows, scanning>>
       \/ /\ rows' = rows \cup (IF ProbeAt(scanning) = "actions" THEN {}
                                ELSE {Row(scanning, "manifest", "not found")})
          /\ scanning' = NextProbe /\ radarQueue' = Listing
    /\ UNCHANGED <<radarDeclared, latest, asked, upstream>>

Compare(ref, answer) ==
    LET dep == ref[1] probe == ProbeAt(scanning)
    IN  /\ answer \in IF asked[probe][dep] # NotAsked THEN {asked[probe][dep]} ELSE {latest[probe][dep], Unknown}
        /\ asked' = [asked EXCEPT ![probe][dep] = answer]
        /\ rows' = rows \cup (IF answer = Unknown THEN {Row(scanning, dep, "unknown")}
                              ELSE IF answer > ref[2] THEN {Row(scanning, dep, "drift")} ELSE {})
        /\ radarQueue' = [radarQueue EXCEPT !.refs = @ \ {ref}]
        /\ UNCHANGED <<radarDeclared, latest, scanning, upstream>>

ProbeEnds ==
    /\ scanning # 0 /\ radarQueue.at = "refs" /\ radarQueue.refs = {}
    /\ scanning' = NextProbe /\ radarQueue' = Listing
    /\ UNCHANGED <<radarDeclared, latest, asked, rows, upstream>>

\* A registry name that resolves to an inner address ends the scan and its report.
RadarRefuses ==
    /\ scanning # 0 /\ ProbeAt(scanning) # "actions" /\ radarQueue.at = "refs" /\ radarQueue.refs # {}
    /\ scanning' = 0 /\ radarQueue' = Listing /\ rows' = {}
    /\ UNCHANGED <<radarDeclared, latest, asked, upstream>>

UpstreamMoves ==
    /\ upstream < MaxUpstream /\ upstream' = upstream + 1
    /\ \/ /\ \E p \in ProbeSet, d \in RadarDeps : /\ latest[p][d] < MaxReleases
                                                  /\ latest' = [latest EXCEPT ![p][d] = @ + 1]
          /\ UNCHANGED radarDeclared
       \/ /\ \E r \in Repos_, p \in ProbeSet, d \in RadarDeps : \E refs \in RefsOf(p) :
                radarDeclared' = [radarDeclared EXCEPT ![r][p][d] = refs]
          /\ UNCHANGED latest
    /\ UNCHANGED <<scanning, radarQueue, asked, rows>>

RadarInit ==
    /\ radarDeclared = [r \in Repos_ |-> [p \in ProbeSet |-> [d \in RadarDeps |-> {1}]]]
    /\ latest = [p \in ProbeSet |-> [d \in RadarDeps |-> 1]]
    /\ scanning = 0 /\ radarQueue = Listing /\ rows = {} /\ upstream = 0
    /\ asked = [p \in ProbeSet |-> [d \in RadarDeps |-> NotAsked]]

RadarNext ==
    \/ StartScan \/ ReadManifest \/ ProbeEnds \/ RadarRefuses \/ UpstreamMoves
    \/ \E ref \in radarQueue.refs, answer \in {Unknown} \cup Known : Compare(ref, answer)

RadarTypeOK ==
    /\ scanning \in 0..Places_ /\ radarQueue.at \in {"manifest", "refs"} /\ upstream \in 0..MaxUpstream
    /\ \A p \in ProbeSet, d \in RadarDeps : /\ asked[p][d] \in {NotAsked, Unknown} \cup Known
                                            /\ \A r \in Repos_ : radarDeclared[r][p][d] \in RefsOf(p)

(* In a report, two repositories that pin a name at one version hear the    *)
(* same of it, whatever was released between the two comparisons: a row is  *)
(* there for both or for none once both have been compared.                 *)
OneAnswerPerScan ==
    \A p \in ProbeSet, d \in RadarDeps :
        ~\E a, b \in rows : a.probe = p /\ b.probe = p /\ a.dep = d /\ b.dep = d /\ a.note # b.note
=============================================================================
