-------------------------------- MODULE Crates --------------------------------
(***************************************************************************)
(* Publishing the crates of a workspace (publish/crates.py).  A release is *)
(* published crate by crate in the order of their dependencies; the index  *)
(* shows an upload late, its API may fail, cargo may fail after the upload *)
(* was taken, and the command is run again after a partial run.            *)
(***************************************************************************)
EXTENDS Naturals, Sequences, FiniteSets, SequencesExt

CONSTANTS
    Names,          \* the publishable crates of the workspace, in metadata order
    DependsOn,      \* their dependencies among themselves
    MaxPublishRuns  \* bound: how often the command is run

ASSUME CratesAssumption ==
    /\ Names \in Seq(Range(Names)) \ {<<>>}   \* with none, publish_all has nothing to do
    /\ IsInjective(Names)
    /\ DependsOn \in [Range(Names) -> SUBSET Range(Names)]
    /\ MaxPublishRuns \in Nat

Crates == Range(Names)

VARIABLES
    uploaded,      \* the versions crates.io has taken
    indexed,       \* those its index shows
    publishing,    \* the crates of the order still to come
    at_crate,      \* what is done with the first of them
    failed,
    publishDry,
    publishExit,
    publishRuns

cratesVars == <<uploaded, indexed, publishing, at_crate, failed, publishDry, publishExit,
                publishRuns>>

CratesTypeOK ==
    /\ indexed \subseteq uploaded /\ uploaded \subseteq Crates
    /\ Range(publishing) \subseteq Crates
    /\ at_crate \in {"none", "check", "publish", "wait"}
    /\ failed \subseteq Crates
    /\ publishDry \in BOOLEAN
    /\ publishExit \in {"none", "ok", "failed", "no metadata"}
    /\ publishRuns \in 0..MaxPublishRuns

-----------------------------------------------------------------------------
(* _topological_order: a crate enters the queue when the last of its        *)
(* dependencies leaves it; the crates of a cycle are appended at the end.   *)

Placed(order, i) == {order[k] : k \in 1..(i - 1)}

\* When order[i] entered the queue: 0, or the place of its last dependency.
FreedAt(order, i) == Max({0} \cup {k \in DOMAIN order : order[k] \in DependsOn[order[i]]})

MetadataPlace(n) == CHOOSE k \in DOMAIN Names : Names[k] = n

Orders ==
    {order \in [DOMAIN Names -> Crates] :
        /\ IsInjective(order)
        /\ \E n \in 0..Len(Names) :
              /\ \A i \in 1..n : DependsOn[order[i]] \subseteq Placed(order, i)
              /\ \A i \in (n + 1)..Len(Names) : ~ (DependsOn[order[i]] \subseteq Placed(order, n + 1))
              /\ \A i, j \in 1..n : i < j =>
                    \/ FreedAt(order, i) < FreedAt(order, j)
                    \/ FreedAt(order, i) = FreedAt(order, j) /\ FreedAt(order, i) > 0
                    \/ /\ FreedAt(order, i) = 0 /\ FreedAt(order, j) = 0
                       /\ MetadataPlace(order[i]) < MetadataPlace(order[j])}

StartPublish ==
    /\ at_crate = "none"
    /\ publishRuns < MaxPublishRuns
    /\ publishRuns' = publishRuns + 1
    /\ failed' = {}
    /\ publishDry' \in BOOLEAN
    /\ \/ /\ \E order \in Orders : publishing' = order
          /\ at_crate' = "check" /\ publishExit' = "none"
       \/ publishing' = <<>> /\ at_crate' = "none" /\ publishExit' = "no metadata"
    /\ UNCHANGED <<uploaded, indexed>>

-----------------------------------------------------------------------------
\* The loop's next crate, or its end.
NextCrate(lost) ==
    /\ publishing' = Tail(publishing)
    /\ failed' = failed \cup lost
    /\ IF Len(publishing) = 1
       THEN at_crate' = "none" /\ publishExit' = IF failed' = {} THEN "ok" ELSE "failed"
       ELSE at_crate' = "check" /\ UNCHANGED publishExit

Stays(step) == at_crate' = step /\ UNCHANGED <<publishing, failed, publishExit>>

\* _version_exists; an API error reads as not indexed.
CheckVersion ==
    /\ at_crate = "check"
    /\ \/ Head(publishing) \in indexed /\ NextCrate({})
       \/ Stays("publish")
    /\ UNCHANGED <<uploaded, indexed, publishDry, publishRuns>>

PublishOneDry ==
    /\ at_crate = "publish" /\ publishDry
    /\ NextCrate({})
    /\ UNCHANGED <<uploaded, indexed, publishDry, publishRuns>>

\* cargo publish succeeds only where the index shows every dependency.
PublishOne ==
    /\ at_crate = "publish" /\ ~publishDry
    /\ Head(publishing) \notin uploaded
    /\ DependsOn[Head(publishing)] \subseteq indexed
    /\ uploaded' = uploaded \cup {Head(publishing)}
    /\ \/ Stays("wait")
       \/ NextCrate({Head(publishing)})       \* the upload was taken, the answer lost
    /\ UNCHANGED <<indexed, publishDry, publishRuns>>

\* Any failure, "is already uploaded" among them: it is one of FAIL_FAST_PATTERNS.
PublishFails ==
    /\ at_crate = "publish" /\ ~publishDry
    /\ NextCrate({Head(publishing)})
    /\ UNCHANGED <<uploaded, indexed, publishDry, publishRuns>>

\* The words come on stdout only: already uploaded, and its index is waited for.
AlreadyUploaded ==
    /\ at_crate = "publish" /\ ~publishDry
    /\ Head(publishing) \in uploaded
    /\ Stays("wait")
    /\ UNCHANGED <<uploaded, indexed, publishDry, publishRuns>>

\* _wait_index; after a timeout the crates that depend on this one are tried too.
WaitIndex ==
    /\ at_crate = "wait"
    /\ \/ Head(publishing) \in indexed /\ NextCrate({})
       \/ NextCrate({Head(publishing)})
    /\ UNCHANGED <<uploaded, indexed, publishDry, publishRuns>>

IndexShows(n) ==
    /\ n \in uploaded \ indexed
    /\ indexed' = indexed \cup {n}
    /\ UNCHANGED <<uploaded, publishing, at_crate, failed, publishDry, publishExit, publishRuns>>

PublishKilled ==
    /\ at_crate # "none"
    /\ publishing' = <<>> /\ at_crate' = "none"
    /\ UNCHANGED <<uploaded, indexed, failed, publishDry, publishExit, publishRuns>>

-----------------------------------------------------------------------------
CratesInit ==
    /\ uploaded = {} /\ indexed = {} /\ publishing = <<>> /\ at_crate = "none"
    /\ failed = {} /\ publishDry = FALSE /\ publishExit = "none" /\ publishRuns = 0

CratesNext ==
    \/ StartPublish \/ CheckVersion \/ PublishOneDry \/ PublishOne \/ PublishFails
    \/ AlreadyUploaded \/ WaitIndex \/ PublishKilled
    \/ \E n \in Crates : IndexShows(n)

CratesSpec == CratesInit /\ [][CratesNext]_cratesVars

-----------------------------------------------------------------------------
(* "All crates published successfully" is true of the index, after any      *)
(* number of partial runs before: each crate was found there or waited for  *)
(* (publish_all).                                                           *)
SuccessMeansIndexed == (publishExit = "ok" /\ ~publishDry) => indexed = Crates
=============================================================================
