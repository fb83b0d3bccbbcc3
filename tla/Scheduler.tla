------------------------------ MODULE Scheduler ------------------------------
(***************************************************************************)
(* The gate's DAG scheduler, celestia_devtools/core/scheduler.py.          *)
(*                                                                         *)
(* run_dag takes a list of steps, refuses a malformed graph, and then      *)
(* alternates between a dispatch pass, which walks a sorted snapshot of    *)
(* the remaining steps, and a wait for at least one future.  The main      *)
(* thread is `pc'; the workers of the bounded thread pool take queued      *)
(* futures and finish them in any order, also during a dispatch pass.      *)
(***************************************************************************)
EXTENDS Integers, FiniteSets, Sequences

CONSTANTS
    Names,          \* the step names that may occur in a graph
    Rank,           \* the position of a name in the order of sorted()
    Inputs,         \* the calls of run_dag: records [deps, cmd, dup, jobs]
    RunnerResults   \* what runner(step) may do for each name: return a status,
                    \* return something else, raise an Exception, or exit

(* In a call, deps[n] is the tuple of dependencies of step n, cmd[n] says
   whether its command is not None, dup whether the list repeats a name and
   jobs is the worker cap.  A name outside DOMAIN deps is an unknown step. *)
IsCall(c) ==
    /\ DOMAIN c = {"deps", "cmd", "dup", "jobs"}
    /\ DOMAIN c.deps \subseteq Names
    /\ c.deps \in [DOMAIN c.deps -> Seq(Names)]
    /\ c.cmd \in [DOMAIN c.deps -> BOOLEAN]
    /\ c.dup \in BOOLEAN
    /\ c.jobs \in Int

ASSUME InputsAssumption == \A c \in Inputs : IsCall(c)

ASSUME RankAssumption ==
    /\ Rank \in [Names -> Nat]
    /\ \A m, n \in Names : Rank[m] = Rank[n] => m = n

Statuses == {"PASS", "FAIL", "SKIP", "SKIP_DEP"}
Unset    == "unset"       \* statuses.get(name) is None

\* future.result() returns a status, returns anything else, raises an
\* Exception, or raises SystemExit, which `except Exception' lets through.
Results  == Statuses \cup {"garbage", "raises", "exits"}

ASSUME ResultsAssumption == RunnerResults \in [Names -> SUBSET Results]

VARIABLES
    input,      \* the call being run; it never changes
    pc,         \* where the main thread is
    todo,       \* the names of the sorted snapshot this pass has yet to visit
    remaining,  \* the set `remaining'
    statuses,   \* the dict `statuses'
    future      \* the future of a step, from submission to collection

vars == <<input, pc, todo, remaining, statuses, future>>

Steps   == DOMAIN input.deps
DepSet(s) == {input.deps[s][i] : i \in DOMAIN input.deps[s]}

FutureStates == {"none", "queued", "running", "collected"} \cup Results
Finished == {s \in Steps : future[s] \in Results}
Running  == {s \in Steps : future[s] = "running"}
Queued   == {s \in Steps : future[s] = "queued"}
Futures  == Queued \cup Running \cup Finished   \* the dict `futures'

\* run_dag is over: it refused the graph, returned, raised with the pool joined,
\* or raised out of the join itself.
Terminal == {"rejected", "done", "raised", "abandoned"}

TypeOK ==
    /\ IsCall(input)
    /\ pc \in {"start", "loop", "dispatch", "wait", "unwind"} \cup Terminal
    /\ todo \subseteq remaining
    /\ remaining \subseteq Steps
    /\ statuses \in [Steps -> Statuses \cup {Unset}]
    /\ future \in [Steps -> FutureStates]

-----------------------------------------------------------------------------
(* Validation *)

UnknownDep == \E s \in Steps : ~ (DepSet(s) \subseteq Steps)

\* A finite graph has a cycle exactly when some nonempty set of steps has
\* each of its members depend on a member of the set.
Cyclic == \E S \in (SUBSET Steps) \ {{}} : \A s \in S : DepSet(s) \cap S # {}

WellFormed == ~ input.dup /\ ~ UnknownDep /\ ~ Cyclic

Reject ==
    /\ pc = "start"
    /\ input.jobs < 1 \/ ~ WellFormed
    /\ pc' = "rejected"
    /\ UNCHANGED <<input, todo, remaining, statuses, future>>

Accept ==
    /\ pc = "start"
    /\ input.jobs >= 1
    /\ WellFormed
    /\ pc' = "loop"
    /\ remaining' = Steps
    /\ UNCHANGED <<input, todo, statuses, future>>

-----------------------------------------------------------------------------
(* The main loop: `while remaining or futures' *)

LoopAgain ==
    /\ pc = "loop"
    /\ remaining \cup Futures # {}
    /\ pc' = "dispatch"
    /\ todo' = remaining
    /\ UNCHANGED <<input, remaining, statuses, future>>

\* Variant: the loop condition forgets the futures.
LoopExit_RemainingOnly ==
    /\ pc = "loop"
    /\ remaining = {}
    /\ pc' = "done"
    /\ UNCHANGED <<input, todo, remaining, statuses, future>>

LoopExit ==
    /\ pc = "loop"
    /\ remaining \cup Futures = {}
    /\ pc' = "done"
    /\ UNCHANGED <<input, todo, remaining, statuses, future>>

(* ready(step): the first dependency, in tuple order, that is not satisfied
   decides.  No status yet means wait, a failed one means skip. *)

\* Variants: a pending dependency counts as satisfied; only FAIL blocks.
Unsatisfied_PendingPasses(s) ==
    {i \in DOMAIN input.deps[s] : statuses[input.deps[s][i]] \in {"FAIL", "SKIP_DEP"}}
Unsatisfied_OnlyFail(s) ==
    {i \in DOMAIN input.deps[s] : statuses[input.deps[s][i]] \in {Unset, "FAIL"}}

Unsatisfied(s) ==
    {i \in DOMAIN input.deps[s] :
        statuses[input.deps[s][i]] \notin {"PASS", "SKIP"}}

ReadyNow(s) == Unsatisfied(s) = {}

FirstUnsatisfied(s, i) ==
    /\ i \in Unsatisfied(s)
    /\ \A j \in Unsatisfied(s) : i <= j

MustWait(s) ==
    \E i \in Unsatisfied(s) :
        FirstUnsatisfied(s, i) /\ statuses[input.deps[s][i]] = Unset

MustSkip(s) ==
    \E i \in Unsatisfied(s) :
        FirstUnsatisfied(s, i) /\ statuses[input.deps[s][i]] # Unset

NextInPass(s) ==
    /\ pc = "dispatch"
    /\ s \in todo
    /\ \A t \in todo : Rank[s] <= Rank[t]

Postpone(s) ==
    /\ NextInPass(s)
    /\ MustWait(s)
    /\ todo' = todo \ {s}
    /\ UNCHANGED <<input, pc, remaining, statuses, future>>

Settle(s, status) ==
    /\ todo' = todo \ {s}
    /\ remaining' = remaining \ {s}
    /\ statuses' = [statuses EXCEPT ![s] = status]
    /\ UNCHANGED <<input, pc, future>>

SkipForDep(s) == NextInPass(s) /\ MustSkip(s) /\ Settle(s, "SKIP_DEP")

SkipNoCommand(s) ==
    NextInPass(s) /\ ReadyNow(s) /\ ~ input.cmd[s] /\ Settle(s, "SKIP")

\* Variant: remaining.discard is missing on this path.
Submit_KeepsRemaining(s) ==
    /\ NextInPass(s)
    /\ ReadyNow(s)
    /\ input.cmd[s]
    /\ todo' = todo \ {s}
    /\ future' = [future EXCEPT ![s] = "queued"]
    /\ UNCHANGED <<input, pc, remaining, statuses>>

Submit(s) ==
    /\ NextInPass(s)
    /\ ReadyNow(s)
    /\ input.cmd[s]
    /\ todo' = todo \ {s}
    /\ remaining' = remaining \ {s}
    /\ future' = [future EXCEPT ![s] = "queued"]
    /\ UNCHANGED <<input, pc, statuses>>

Await ==
    /\ pc = "dispatch"
    /\ todo = {}
    /\ Futures # {}
    /\ pc' = "wait"
    /\ UNCHANGED <<input, todo, remaining, statuses, future>>

\* Variants: there is no such branch, and wait blocks on nothing; the branch is
\* taken while futures are in flight.
GiveUp_Waits ==
    /\ pc = "dispatch"
    /\ todo = {}
    /\ Futures = {}
    /\ pc' = "wait"
    /\ UNCHANGED <<input, todo, remaining, statuses, future>>

GiveUp_Early ==
    /\ pc = "dispatch"
    /\ todo = {}
    /\ statuses' = [s \in Steps |->
                      IF s \in remaining THEN "SKIP_DEP" ELSE statuses[s]]
    /\ remaining' = {}
    /\ pc' = "loop"
    /\ UNCHANGED <<input, todo, future>>

\* Nothing is in flight at the end of a pass: what remains is declared
\* unreachable and the loop is left.
GiveUp ==
    /\ pc = "dispatch"
    /\ todo = {}
    /\ Futures = {}
    /\ statuses' = [s \in Steps |->
                      IF s \in remaining THEN "SKIP_DEP" ELSE statuses[s]]
    /\ remaining' = {}
    /\ pc' = "done"
    /\ UNCHANGED <<input, todo, future>>

\* Variant: the runner's return value is stored as it is.
Recorded_AsIs(result) == result

Recorded(result) == IF result \in Statuses THEN result ELSE "FAIL"

Record(S) ==
    /\ statuses' = [s \in Steps |->
                      IF s \in S THEN Recorded(future[s]) ELSE statuses[s]]
    /\ future' = [s \in Steps |-> IF s \in S THEN "collected" ELSE future[s]]

\* wait(FIRST_COMPLETED) returns every future that is finished by now.
Harvest ==
    /\ pc = "wait"
    /\ Finished # {}
    /\ \A s \in Finished : future[s] # "exits"
    /\ Record(Finished)
    /\ pc' = "loop"
    /\ UNCHANGED <<input, todo, remaining>>

\* One of them raised SystemExit: it leaves the loop, in the order of a set,
\* after any number of the others have been recorded.
HarvestExit ==
    /\ pc = "wait"
    /\ \E s \in Finished : future[s] = "exits"
    /\ \E S \in SUBSET {s \in Finished : future[s] # "exits"} : Record(S)
    /\ pc' = "unwind"
    /\ UNCHANGED <<input, todo, remaining>>

\* Ctrl-C reaches the main thread only.  The first one leaves the loop; another,
\* while the executor's __exit__ waits for its threads, leaves that wait too, and
\* the pool goes on with what it was given.
Interrupt ==
    /\ pc \in {"loop", "dispatch", "wait"}
    /\ pc' = "unwind"
    /\ UNCHANGED <<input, todo, remaining, statuses, future>>

InterruptJoin ==
    /\ pc = "unwind"
    /\ pc' = "abandoned"
    /\ UNCHANGED <<input, todo, remaining, statuses, future>>

\* Variant: the pool is shut down without waiting.
Raise_NoJoin ==
    /\ pc = "unwind"
    /\ pc' = "raised"
    /\ UNCHANGED <<input, todo, remaining, statuses, future>>

\* Leaving the `with' block joins the pool, which first drains its queue.
Raise ==
    /\ pc = "unwind"
    /\ Queued \cup Running = {}
    /\ pc' = "raised"
    /\ UNCHANGED <<input, todo, remaining, statuses, future>>

-----------------------------------------------------------------------------
(* The pool: at most input.jobs workers *)

Start(s) ==
    /\ future[s] = "queued"
    /\ Cardinality(Running) < input.jobs
    /\ future' = [future EXCEPT ![s] = "running"]
    /\ UNCHANGED <<input, pc, todo, remaining, statuses>>

Finish(s) ==
    /\ future[s] = "running"
    /\ \E r \in RunnerResults[s] : future' = [future EXCEPT ![s] = r]
    /\ UNCHANGED <<input, pc, todo, remaining, statuses>>

-----------------------------------------------------------------------------

Init ==
    /\ input \in Inputs
    /\ pc = "start"
    /\ todo = {}
    /\ remaining = {}
    /\ statuses = [s \in Steps |-> Unset]
    /\ future = [s \in Steps |-> "none"]

Visit == \E s \in Steps :
    Postpone(s) \/ SkipForDep(s) \/ SkipNoCommand(s) \/ Submit(s)

Main == \/ Reject \/ Accept \/ LoopAgain \/ LoopExit
        \/ Visit \/ Await \/ GiveUp \/ Harvest \/ HarvestExit \/ Raise

Pool == \E s \in Steps : Start(s) \/ Finish(s)

\* run_dag has returned or raised: nothing is left to do.
Stopped == pc \in Terminal /\ UNCHANGED vars

Next == Main \/ Pool \/ Interrupt \/ InterruptJoin \/ Stopped

\* The main thread is never descheduled for ever, a free worker takes queued
\* work, and every command eventually ends (there is no timeout in the code).
Fairness ==
    /\ WF_vars(Main)
    /\ WF_vars(\E s \in Steps : Start(s))
    /\ WF_vars(\E s \in Steps : Finish(s))

Spec == Init /\ [][Next]_vars /\ Fairness

-----------------------------------------------------------------------------
(* Properties *)

Blocking == {"FAIL", "SKIP_DEP"}

\* A step has been handed to the pool only if each of its dependencies had
\* completed and was satisfied; a later record never revokes that.
DepsSatisfiedFirst ==
    \A s \in Steps : future[s] # "none" =>
        \A d \in DepSet(s) : statuses[d] \in {"PASS", "SKIP"}

\* run_dag returns only with a status for every step, nothing in flight, and
\* no PASS or FAIL for a step that did not run.
CompleteAtReturn ==
    pc = "done" =>
        /\ Futures = {}
        /\ \A s \in Steps : statuses[s] # Unset
        /\ \A s \in Steps :
              statuses[s] \in {"PASS", "FAIL"} => future[s] = "collected"

\* A failure reaches every dependent: at the return, a step with a blocking
\* dependency is SKIP_DEP and was never started.
FailureContained ==
    pc = "done" => \A s \in Steps :
        (\E d \in DepSet(s) : statuses[d] \in Blocking)
            => statuses[s] = "SKIP_DEP" /\ future[s] = "none"

\* Some step that s depends on, directly or not, failed.
HasFailedAncestor(s) ==
    \A U \in SUBSET Steps :
        (s \in U /\ \A u \in U : DepSet(u) \subseteq U)
            => \E u \in U : statuses[u] = "FAIL"

\* The converse, down to the root: SKIP_DEP means that an upstream step FAILed
\* (every step has a command).
SkipRootedInFailure ==
    (pc = "done" /\ \A s \in Steps : input.cmd[s]) =>
        \A s \in Steps : statuses[s] = "SKIP_DEP" => HasFailedAncestor(s)

\* run_dag leaves a step behind it in one case only, a second Ctrl-C during the
\* executor's join: when it returns, refuses the graph, or raises after a first
\* Ctrl-C or a SystemExit, no step is queued or running any more.
NoStepOutlivesRun ==
    pc \in Terminal \ {"abandoned"} => Queued \cup Running = {}

\* A status, once recorded, is final, and a step is submitted at most once.
RecordedOnce ==
    [][\A s \in Steps :
          /\ statuses[s] # Unset => statuses'[s] = statuses[s]
          /\ future[s] = "collected" => future'[s] = "collected"
          /\ future[s] \in {"running"} \cup Results => future'[s] # "queued"]_vars

\* The scheduler returns or raises, whatever the runner does.
Terminates == <>(pc \in Terminal)

=============================================================================
