----------------------------- MODULE MCScheduler -----------------------------
(* Small instances of Scheduler: every graph over a few names. *)
EXTENDS Scheduler, SequencesExt

CONSTANTS Unknown, NumSteps, MaxDeps, JobChoices, ResultChoices

MCNames   == 1..NumSteps \cup {Unknown}
MCRank    == [n \in MCNames |-> IF n = Unknown THEN 0 ELSE n]
MCResults == [n \in MCNames |-> ResultChoices]

\* The tuples of at most k distinct names of S.
Tuples(S, k) == {t \in BoundedSeq(S, k) : IsInjective(t)}

Calls(deps, dups, jobs) ==
    {[deps |-> d, cmd |-> c, dup |-> b, jobs |-> j] :
        d \in deps, c \in [1..NumSteps -> BOOLEAN], b \in dups, j \in jobs}

Acyclic(d) == \A S \in (SUBSET (1..NumSteps)) \ {{}} :
                 \E s \in S : \A i \in DOMAIN d[s] : d[s][i] \notin S

AcyclicDeps == {d \in [1..NumSteps -> Tuples(1..NumSteps, MaxDeps)] : Acyclic(d)}

\* Every list of steps with at most one dependency each, malformed ones
\* included, and every well-formed list with up to MaxDeps in any order.
Malformed == Calls([1..NumSteps -> Tuples(MCNames, 1)], BOOLEAN, {0, 1})
DagCall   == Calls(AcyclicDeps, {FALSE}, JobChoices)
AnyCall   == Malformed \cup DagCall
=============================================================================
