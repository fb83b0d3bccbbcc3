--------------------------- MODULE SchedulerProofs ---------------------------
(***************************************************************************)
(* Proofs about Scheduler, for every list of steps and every runner, and   *)
(* about the graphs of Gate, which are such lists.                         *)
(***************************************************************************)
EXTENDS Gate, SequenceTheorems, TLAPS

\* A step that is still to be dispatched has no status and no future.
RemainingUntouched ==
    \A s \in remaining : statuses[s] = Unset /\ future[s] = "none"

\* A step without a status is still to be dispatched, or in flight.
PendingAccounted ==
    pc \notin {"start", "rejected"} =>
        \A s \in Steps : statuses[s] = Unset => s \in remaining \cup Futures

\* A step in flight has no status; a collected one has.
InFlightUnset ==
    \A s \in Steps :
        /\ s \in Futures => statuses[s] = Unset
        /\ future[s] = "collected" => statuses[s] # Unset

\* PASS and FAIL are only ever the outcome of a future.
OutcomeOfRun ==
    \A s \in Steps : statuses[s] \in {"PASS", "FAIL"} => future[s] = "collected"

\* What was started, or settled other than by SKIP_DEP, had its dependencies.
SettledAfterDeps ==
    \A s \in Steps :
        future[s] # "none" \/ statuses[s] \in {"PASS", "FAIL", "SKIP"} =>
            \A d \in DepSet(s) : statuses[d] \in {"PASS", "SKIP"}

\* Only a well-formed graph is scheduled.
ScheduledWellFormed ==
    /\ pc \notin {"start", "rejected"} => WellFormed
    /\ pc \in {"start", "rejected"} =>
          \A s \in Steps : statuses[s] = Unset /\ future[s] = "none"

\* What is left when run_dag has ended.
Ended ==
    /\ pc = "done" => remaining = {} /\ Futures = {}
    /\ pc = "raised" => Queued \cup Running = {}

Inv ==
    /\ TypeOK
    /\ RemainingUntouched
    /\ PendingAccounted
    /\ InFlightUnset
    /\ OutcomeOfRun
    /\ SettledAfterDeps
    /\ ScheduledWellFormed
    /\ Ended

-----------------------------------------------------------------------------

\* The call does not change, and with it the steps and their dependencies.
LEMMA CallFixed ==
    ASSUME [Next]_vars
    PROVE  /\ input' = input
           /\ Steps' = Steps
           /\ WellFormed' = WellFormed
           /\ \A s : DepSet(s)' = DepSet(s)
<1>1. input' = input
  BY DEF Next, Main, Pool, Visit, Reject, Accept, LoopAgain, LoopExit, Await,
         Raise, Interrupt, InterruptJoin, Postpone, SkipForDep, SkipNoCommand,
         Submit, Settle,
         GiveUp, Harvest, HarvestExit, Start, Finish, Stopped, vars
<1>2. QED
  BY <1>1 DEF Steps, WellFormed, UnknownDep, Cyclic, DepSet

\* Recording sets the statuses of a set of finished futures, and nothing else.
LEMMA RecordTypes ==
    ASSUME TypeOK, NEW S \in SUBSET Finished, Record(S)
    PROVE  /\ statuses' \in [Steps -> Statuses \cup {Unset}]
           /\ future' \in [Steps -> FutureStates]
  BY DEF Record, Recorded, Finished, TypeOK, FutureStates, Statuses

\* The type invariant: it holds of every call the assumptions admit.
THEOREM TypeCorrect == Spec => []TypeOK
<1>1. Init => TypeOK
  BY InputsAssumption DEF Init, TypeOK, FutureStates
<1>2. TypeOK /\ [Next]_vars => TypeOK'
  <2> SUFFICES ASSUME TypeOK, [Next]_vars PROVE TypeOK'
    OBVIOUS
  <2> USE CallFixed DEF TypeOK, Terminal
  <2>1. CASE Reject \/ Accept \/ LoopAgain \/ LoopExit \/ Await \/ Raise
             \/ Interrupt \/ InterruptJoin
    BY <2>1 DEF Reject, Accept, LoopAgain, LoopExit, Await, Raise, Interrupt,
                InterruptJoin
  <2>2. CASE Visit
    BY <2>2 DEF Visit, Postpone, SkipForDep, SkipNoCommand, Submit, Settle,
                NextInPass, FutureStates, Statuses
  <2>3. CASE GiveUp
    BY <2>3 DEF GiveUp, Statuses
  <2>4. CASE Harvest
    BY <2>4, RecordTypes DEF Harvest
  <2>5. CASE HarvestExit
    BY <2>5, RecordTypes DEF HarvestExit
  <2>6. CASE Pool
    <3>1. ASSUME NEW s \in Steps, Start(s) PROVE TypeOK'
      BY <3>1 DEF Start, FutureStates
    <3>2. ASSUME NEW s \in Steps, Finish(s) PROVE TypeOK'
      <4>1. PICK r \in RunnerResults[s] : future' = [future EXCEPT ![s] = r]
        BY <3>2 DEF Finish
      <4>2. r \in Results
        BY <4>1, ResultsAssumption DEF IsCall, Steps
      <4>3. QED
        BY <3>2, <4>1, <4>2 DEF Finish, FutureStates
    <3>3. QED
      BY <2>6, <3>1, <3>2 DEF Pool
  <2>7. CASE Stopped \/ UNCHANGED vars
    BY <2>7 DEF Stopped, vars
  <2>8. QED
    BY <2>1, <2>2, <2>3, <2>4, <2>5, <2>6, <2>7 DEF Next, Main
<1>3. QED
  BY <1>1, <1>2, PTL DEF Spec

-----------------------------------------------------------------------------
(* What ready(step) answers, in terms of the set of its dependencies. *)

LEMMA ReadyNowMeans ==
    ASSUME NEW s \in Steps
    PROVE  ReadyNow(s) <=> \A d \in DepSet(s) : statuses[d] \in {"PASS", "SKIP"}
  BY DEF ReadyNow, Unsatisfied, DepSet

LEMMA MustSkipMeans ==
    ASSUME TypeOK, WellFormed, NEW s \in Steps, MustSkip(s)
    PROVE  \E d \in DepSet(s) : statuses[d] \in Blocking
<1>1. PICK i \in Unsatisfied(s) : statuses[input.deps[s][i]] # Unset
  BY DEF MustSkip
<1>2. input.deps[s][i] \in DepSet(s) /\ input.deps[s][i] \in Steps
  BY <1>1 DEF Unsatisfied, DepSet, WellFormed, UnknownDep
<1>3. statuses[input.deps[s][i]] \in Statuses \ {"PASS", "SKIP"}
  BY <1>1, <1>2 DEF TypeOK, Unsatisfied
<1>4. QED
  BY <1>2, <1>3 DEF Statuses, Blocking

LEMMA MustWaitMeans ==
    ASSUME NEW s \in Steps, MustWait(s)
    PROVE  \E d \in DepSet(s) : statuses[d] = Unset
  BY DEF MustWait, Unsatisfied, DepSet

-----------------------------------------------------------------------------
(* The inductive invariant, one lemma per kind of step. *)

LEMMA InvVisit ==
    ASSUME Inv, TypeOK', [Next]_vars, NEW s \in Steps,
           Postpone(s) \/ SkipForDep(s) \/ SkipNoCommand(s) \/ Submit(s)
    PROVE  Inv'
<1> USE CallFixed DEF Inv, TypeOK, NextInPass
<1>1. /\ pc = "dispatch" /\ pc' = "dispatch"
      /\ s \in remaining /\ statuses[s] = Unset /\ future[s] = "none"
      /\ WellFormed
  BY DEF Postpone, SkipForDep, SkipNoCommand, Submit, Settle,
         RemainingUntouched, ScheduledWellFormed
<1>2. \A x \in Steps : \A d \in DepSet(x) : d \in Steps
  BY <1>1 DEF WellFormed, UnknownDep
<1>3. /\ remaining' \in {remaining, remaining \ {s}}
      /\ \A x \in Steps \ {s} : statuses'[x] = statuses[x] /\ future'[x] = future[x]
  BY DEF Postpone, SkipForDep, SkipNoCommand, Submit, Settle
<1>4. \/ s \in remaining' /\ statuses'[s] = Unset /\ future'[s] = "none"
      \/ s \notin remaining' /\ statuses'[s] = "SKIP_DEP" /\ future'[s] = "none"
      \/ /\ s \notin remaining'
         /\ \/ statuses'[s] = "SKIP" /\ future'[s] = "none"
            \/ statuses'[s] = Unset /\ future'[s] = "queued"
         /\ ReadyNow(s)
  <2>1. CASE Postpone(s)
    BY <2>1, <1>1 DEF Postpone
  <2>2. CASE SkipForDep(s)
    BY <2>2, <1>1 DEF SkipForDep, Settle
  <2>3. CASE SkipNoCommand(s)
    BY <2>3, <1>1 DEF SkipNoCommand, Settle
  <2>4. CASE Submit(s)
    BY <2>4, <1>1 DEF Submit
  <2>5. QED
    BY <2>1, <2>2, <2>3, <2>4
<1>5. RemainingUntouched' /\ OutcomeOfRun'
  BY <1>1, <1>3, <1>4 DEF RemainingUntouched, OutcomeOfRun, Unset
<1>6. PendingAccounted' /\ InFlightUnset'
  BY <1>1, <1>3, <1>4 DEF PendingAccounted, InFlightUnset, Futures, Queued,
     Running, Finished, Unset, Results, Statuses
<1>7. SettledAfterDeps'
  <2>1. ASSUME NEW x \in Steps, NEW d \in DepSet(x),
               statuses[d] \in {"PASS", "SKIP"}
        PROVE  statuses'[d] \in {"PASS", "SKIP"}
    BY <2>1, <1>1, <1>2, <1>3 DEF Unset
  <2>2. ASSUME NEW x \in Steps,
               future'[x] # "none" \/ statuses'[x] \in {"PASS", "FAIL", "SKIP"}
        PROVE  \A d \in DepSet(x) : statuses[d] \in {"PASS", "SKIP"}
    <3>1. CASE x = s
      BY <3>1, <2>2, <1>4, ReadyNowMeans DEF Unset
    <3>2. CASE x # s
      BY <3>2, <2>2, <1>3 DEF SettledAfterDeps
    <3>3. QED
      BY <3>1, <3>2
  <2>3. QED
    BY <2>1, <2>2 DEF SettledAfterDeps
<1>8. ScheduledWellFormed' /\ Ended'
  BY <1>1 DEF ScheduledWellFormed, Ended, Postpone, SkipForDep, SkipNoCommand,
     Submit, Settle
<1>9. QED
  BY <1>5, <1>6, <1>7, <1>8

LEMMA InvRecord ==
    ASSUME Inv, TypeOK', [Next]_vars, NEW S \in SUBSET Finished, Record(S),
           pc = "wait", pc' \in {"loop", "unwind"}, UNCHANGED <<todo, remaining>>
    PROVE  Inv'
<1> USE CallFixed DEF Inv, TypeOK
<1>1. WellFormed
  BY DEF ScheduledWellFormed
<1>2. \A x \in Steps : \A d \in DepSet(x) : d \in Steps
  BY <1>1 DEF WellFormed, UnknownDep
<1>3. \A x \in S : /\ x \in Steps /\ future[x] \in Results
                   /\ statuses[x] = Unset /\ x \notin remaining
  BY DEF Finished, InFlightUnset, Futures, RemainingUntouched, Results, Statuses
<1>4. \A x \in S : statuses'[x] \in Statuses /\ future'[x] = "collected"
  BY <1>3 DEF Record, Recorded, Statuses
<1>5. \A x \in Steps \ S : statuses'[x] = statuses[x] /\ future'[x] = future[x]
  BY DEF Record
<1>6. RemainingUntouched' /\ OutcomeOfRun' /\ ScheduledWellFormed' /\ Ended'
  BY <1>1, <1>3, <1>4, <1>5 DEF RemainingUntouched, OutcomeOfRun,
     ScheduledWellFormed, Ended
<1>7. PendingAccounted' /\ InFlightUnset'
  BY <1>3, <1>4, <1>5 DEF PendingAccounted, InFlightUnset, Futures, Queued,
     Running, Finished, Unset, Results, Statuses
<1>8. SettledAfterDeps'
  <2>1. ASSUME NEW x \in Steps, NEW d \in DepSet(x),
               statuses[d] \in {"PASS", "SKIP"}
        PROVE  statuses'[d] \in {"PASS", "SKIP"}
    BY <2>1, <1>2, <1>3, <1>5 DEF Unset
  <2>2. ASSUME NEW x \in Steps,
               future'[x] # "none" \/ statuses'[x] \in {"PASS", "FAIL", "SKIP"}
        PROVE  future[x] # "none" \/ statuses[x] \in {"PASS", "FAIL", "SKIP"}
    BY <2>2, <1>3, <1>5 DEF Results, Statuses
  <2>3. QED
    BY <2>1, <2>2 DEF SettledAfterDeps
<1>9. QED
  BY <1>6, <1>7, <1>8

LEMMA InvGiveUp ==
    ASSUME Inv, TypeOK', [Next]_vars, GiveUp
    PROVE  Inv'
<1> USE CallFixed DEF Inv, TypeOK, GiveUp
<1>1. WellFormed
  BY DEF ScheduledWellFormed
<1>2. \A x \in Steps : \A d \in DepSet(x) : d \in Steps
  BY <1>1 DEF WellFormed, UnknownDep
<1>3. \A x \in Steps : statuses[x] # Unset => statuses'[x] = statuses[x]
  BY DEF RemainingUntouched
<1>4. \A x \in remaining : statuses'[x] = "SKIP_DEP" /\ future[x] = "none"
  BY DEF RemainingUntouched
<1>5. RemainingUntouched' /\ OutcomeOfRun' /\ ScheduledWellFormed'
  BY <1>1, <1>3, <1>4 DEF RemainingUntouched, OutcomeOfRun, ScheduledWellFormed
<1>6. PendingAccounted' /\ InFlightUnset' /\ Ended'
  BY <1>3, <1>4 DEF PendingAccounted, InFlightUnset, Ended, Futures, Queued,
     Running, Finished, Unset
<1>7. SettledAfterDeps'
  BY <1>2, <1>3, <1>4 DEF SettledAfterDeps, Unset
<1>8. QED
  BY <1>5, <1>6, <1>7

LEMMA InvPool ==
    ASSUME Inv, TypeOK', [Next]_vars, NEW s \in Steps, Start(s) \/ Finish(s)
    PROVE  Inv'
<1> USE CallFixed DEF Inv, TypeOK
<1>1. /\ future[s] \in {"queued", "running"}
      /\ future'[s] \in {"running"} \cup Results
      /\ \A x \in Steps \ {s} : future'[x] = future[x]
      /\ UNCHANGED <<pc, todo, remaining, statuses>>
  <2>1. CASE Start(s)
    BY <2>1 DEF Start
  <2>2. CASE Finish(s)
    <3>1. PICK r \in RunnerResults[s] : future' = [future EXCEPT ![s] = r]
      BY <2>2 DEF Finish
    <3>2. r \in Results
      BY <3>1, ResultsAssumption DEF IsCall, Steps
    <3>3. QED
      BY <2>2, <3>1, <3>2 DEF Finish
  <2>3. QED
    BY <2>1, <2>2
<1>2. s \in Futures /\ s \in Futures' /\ Futures' = Futures
  BY <1>1 DEF Futures, Queued, Running, Finished, Results, Statuses
<1>3. RemainingUntouched' /\ PendingAccounted' /\ InFlightUnset' /\ OutcomeOfRun'
  BY <1>1, <1>2 DEF RemainingUntouched, PendingAccounted, InFlightUnset,
     OutcomeOfRun, Results, Statuses, Unset
<1>4. SettledAfterDeps'
  BY <1>1 DEF SettledAfterDeps
<1>5. ScheduledWellFormed' /\ Ended'
  BY <1>1, <1>2 DEF ScheduledWellFormed, Ended, Futures, Queued, Running
<1>6. QED
  BY <1>3, <1>4, <1>5

LEMMA InvControl ==
    ASSUME Inv, TypeOK', [Next]_vars,
           \/ Reject \/ Accept \/ LoopAgain \/ LoopExit \/ Await \/ Raise
           \/ Interrupt \/ InterruptJoin \/ Stopped \/ UNCHANGED vars
    PROVE  Inv'
<1> USE CallFixed DEF Inv, TypeOK, RemainingUntouched, PendingAccounted,
     InFlightUnset, OutcomeOfRun, SettledAfterDeps, ScheduledWellFormed, Ended,
     Futures, Queued, Running, Finished
<1>1. CASE Reject
  BY <1>1 DEF Reject
<1>2. CASE Accept
  BY <1>2 DEF Accept
<1>3. CASE LoopAgain
  BY <1>3 DEF LoopAgain
<1>4. CASE LoopExit
  BY <1>4 DEF LoopExit
<1>5. CASE Await
  BY <1>5 DEF Await
<1>6. CASE Raise
  BY <1>6 DEF Raise
<1>7. CASE Interrupt \/ InterruptJoin
  BY <1>7 DEF Interrupt, InterruptJoin
<1>8. CASE Stopped \/ UNCHANGED vars
  BY <1>8 DEF Stopped, vars
<1>9. QED
  BY <1>1, <1>2, <1>3, <1>4, <1>5, <1>6, <1>7, <1>8

THEOREM InvHolds == Spec => []Inv
<1>1. Init => Inv
  <2> SUFFICES ASSUME Init PROVE Inv
    OBVIOUS
  <2>1. TypeOK
    BY InputsAssumption DEF Init, TypeOK, FutureStates
  <2>2. QED
    BY <2>1 DEF Init, Inv, RemainingUntouched, PendingAccounted, InFlightUnset,
       OutcomeOfRun, SettledAfterDeps, ScheduledWellFormed, Ended, Futures, Queued,
       Running, Finished, Unset, Results, Statuses
<1>2. Inv /\ TypeOK' /\ [Next]_vars => Inv'
  <2> SUFFICES ASSUME Inv, TypeOK', [Next]_vars PROVE Inv'
    OBVIOUS
  <2>1. CASE Visit
    BY <2>1, InvVisit DEF Visit
  <2>2. CASE Harvest
    BY <2>2, InvRecord DEF Harvest
  <2>3. CASE HarvestExit
    <3>1. PICK S \in SUBSET {s \in Finished : future[s] # "exits"} : Record(S)
      BY <2>3 DEF HarvestExit
    <3>2. S \in SUBSET Finished
      BY <3>1
    <3>3. QED
      BY <2>3, <3>1, <3>2, InvRecord DEF HarvestExit
  <2>4. CASE GiveUp
    BY <2>4, InvGiveUp
  <2>5. CASE Pool
    BY <2>5, InvPool DEF Pool
  <2>6. QED
    BY <2>1, <2>2, <2>3, <2>4, <2>5, InvControl DEF Next, Main
<1>3. QED
  BY <1>1, <1>2, TypeCorrect, PTL DEF Spec

-----------------------------------------------------------------------------
(* The safety properties follow from the invariant. *)

\* No step is handed to the pool before all it depends on is satisfied.
THEOREM DepsSatisfiedFirstHolds == Spec => []DepsSatisfiedFirst
<1>1. Inv => DepsSatisfiedFirst
  BY DEF Inv, SettledAfterDeps, DepsSatisfiedFirst
<1>2. QED
  BY <1>1, InvHolds, PTL

\* run_dag returns a status for every step, and leaves nothing in flight.
THEOREM CompleteAtReturnHolds == Spec => []CompleteAtReturn
<1>1. Inv => CompleteAtReturn
  BY DEF Inv, Ended, PendingAccounted, OutcomeOfRun, CompleteAtReturn
<1>2. QED
  BY <1>1, InvHolds, PTL

\* No step is queued or running once run_dag has returned or raised, unless it
\* raised out of the executor's join.
THEOREM NoStepOutlivesRunHolds == Spec => []NoStepOutlivesRun
<1>1. Inv => NoStepOutlivesRun
  BY DEF Inv, Ended, ScheduledWellFormed, NoStepOutlivesRun, Terminal, Futures,
         Queued, Running
<1>2. QED
  BY <1>1, InvHolds, PTL

\* A step behind a failed or passed-over one is passed over and never started.
THEOREM FailureContainedHolds == Spec => []FailureContained
<1>1. Inv => FailureContained
  <2> SUFFICES ASSUME Inv, pc = "done", NEW s \in Steps, NEW d \in DepSet(s),
                      statuses[d] \in Blocking
               PROVE  statuses[s] = "SKIP_DEP" /\ future[s] = "none"
    BY DEF FailureContained
  <2>1. future[s] = "none" /\ statuses[s] \notin {"PASS", "FAIL", "SKIP"}
    BY DEF Inv, SettledAfterDeps, Blocking
  <2>2. statuses[s] # Unset
    BY DEF Inv, Ended, PendingAccounted
  <2>3. QED
    BY <2>1, <2>2 DEF Inv, TypeOK, Statuses
<1>2. QED
  BY <1>1, InvHolds, PTL

\* A recorded status is final, and no step is submitted a second time.
THEOREM RecordedOnceHolds == Spec => RecordedOnce
<1> DEFINE Once == \A s \in Steps :
        /\ statuses[s] # Unset => statuses'[s] = statuses[s]
        /\ future[s] = "collected" => future'[s] = "collected"
        /\ future[s] \in {"running"} \cup Results => future'[s] # "queued"
<1>1. Inv /\ [Next]_vars => [Once]_vars
  <2> SUFFICES ASSUME Inv, [Next]_vars PROVE Once
    OBVIOUS
  <2> USE CallFixed DEF Inv, TypeOK
  <2>1. CASE Visit
    <3>1. PICK s \in Steps :
             Postpone(s) \/ SkipForDep(s) \/ SkipNoCommand(s) \/ Submit(s)
      BY <2>1 DEF Visit
    <3>2. s \in remaining
      BY <3>1 DEF Postpone, SkipForDep, SkipNoCommand, Submit, NextInPass
    <3>3. /\ statuses[s] = Unset /\ future[s] = "none"
          /\ \A x \in Steps \ {s} :
                statuses'[x] = statuses[x] /\ future'[x] = future[x]
      BY <3>1, <3>2 DEF RemainingUntouched, Postpone, SkipForDep, SkipNoCommand,
                        Submit, Settle
    <3>4. QED
      BY <3>3 DEF Results, Statuses
  <2>2. ASSUME NEW S \in SUBSET Finished, Record(S) PROVE Once
    BY <2>2 DEF Record, Finished, InFlightUnset, Futures, Results, Statuses
  <2>3. CASE Harvest \/ HarvestExit
    BY <2>2, <2>3 DEF Harvest, HarvestExit
  <2>4. CASE GiveUp
    BY <2>4 DEF GiveUp, RemainingUntouched, Results, Statuses
  <2>5. CASE Pool
    <3>1. ASSUME NEW s \in Steps, Start(s) PROVE Once
      BY <3>1 DEF Start, Results, Statuses
    <3>2. ASSUME NEW s \in Steps, Finish(s) PROVE Once
      <4>1. PICK r \in RunnerResults[s] : future' = [future EXCEPT ![s] = r]
        BY <3>2 DEF Finish
      <4>2. r \in Results
        BY <4>1, ResultsAssumption DEF IsCall, Steps
      <4>3. QED
        BY <3>2, <4>1, <4>2 DEF Finish, Results, Statuses
    <3>3. QED
      BY <2>5, <3>1, <3>2 DEF Pool
  <2>6. CASE \/ Reject \/ Accept \/ LoopAgain \/ LoopExit \/ Await \/ Raise
             \/ Interrupt \/ InterruptJoin \/ Stopped \/ UNCHANGED vars
    BY <2>6 DEF Reject, Accept, LoopAgain, LoopExit, Await, Raise, Interrupt,
                InterruptJoin, Stopped, vars, Results, Statuses
  <2>7. QED
    BY <2>1, <2>3, <2>4, <2>5, <2>6 DEF Next, Main
<1>2. QED
  BY <1>1, InvHolds, PTL DEF Spec, RecordedOnce

-----------------------------------------------------------------------------
(* Every SKIP_DEP has a dependency to blame, if the runner does not itself     *)
(* answer SKIP_DEP, and if whatever depends on a step without a command comes  *)
(* after it in the order of sorted(): where it comes before, it is postponed   *)
(* in the pass that skips the command, and given up at the end of this pass.   *)

AllCommands == \A s \in Steps : input.cmd[s]

SkipsInOrder ==
    \A s, d \in Steps : d \in DepSet(s) => input.cmd[d] \/ Rank[d] < Rank[s]

\* A step that has been passed over has a dependency to blame.
SkipJustified ==
    SkipsInOrder => \A s \in Steps :
        statuses[s] = "SKIP_DEP" => \E d \in DepSet(s) : statuses[d] \in Blocking

\* A step this pass has postponed has a dependency that is still pending, or
\* one that was itself passed over after the postponement.
PostponedJustified ==
    SkipsInOrder /\ pc = "dispatch" =>
        \A s \in remaining \ todo :
            \E d \in DepSet(s) : statuses[d] \in {Unset, "SKIP_DEP"}

\* The status a runner's answer leads to is SKIP_DEP only if the answer is.
RunnerSilent == \A n \in Names : "SKIP_DEP" \notin RunnerResults[n]

NoSkipAnswer == \A s \in Steps : future[s] # "SKIP_DEP"

\* A pass goes through the steps in the order of sorted().
PassInOrder ==
    pc = "dispatch" => \A s \in remaining \ todo : \A t \in todo : Rank[s] < Rank[t]

\* A step with a command is skipped only by its own verdict.
SkipAnswered ==
    \A s \in Steps : statuses[s] = "SKIP" => ~input.cmd[s] \/ future[s] = "collected"

SkipInv == SkipJustified /\ PostponedJustified /\ NoSkipAnswer /\ PassInOrder /\ SkipAnswered

LEMMA SkipInvHolds ==
    ASSUME RunnerSilent
    PROVE  Spec => []SkipInv
<1>1. Init => SkipInv
  BY DEF Init, SkipInv, SkipJustified, PostponedJustified, NoSkipAnswer, PassInOrder, SkipAnswered,
     Unset
<1>2. Inv /\ SkipInv /\ [Next]_vars => SkipInv'
  <2> SUFFICES ASSUME Inv, SkipInv, [Next]_vars PROVE SkipInv'
    OBVIOUS
  <2> USE CallFixed DEF Inv, TypeOK, SkipInv
  <2>0. SkipsInOrder' = SkipsInOrder
    BY DEF SkipsInOrder, DepSet
  <2>1. CASE Visit
    <3>1. PICK s \in Steps :
             Postpone(s) \/ SkipForDep(s) \/ SkipNoCommand(s) \/ Submit(s)
      BY <2>1 DEF Visit
    <3>2. /\ s \in remaining /\ s \in todo /\ statuses[s] = Unset /\ WellFormed
          /\ pc = "dispatch" /\ todo' = todo \ {s}
      BY <3>1 DEF Postpone, SkipForDep, SkipNoCommand, Submit, Settle, NextInPass,
                  RemainingUntouched, ScheduledWellFormed
    <3>3. \A x \in Steps : \A d \in DepSet(x) : d \in Steps
      BY <3>2 DEF WellFormed, UnknownDep
    <3>4. \A x \in Steps \ {s} : statuses'[x] = statuses[x] /\ future'[x] = future[x]
      BY <3>1 DEF Postpone, SkipForDep, SkipNoCommand, Submit, Settle
    <3>5. statuses'[s] \in {Unset, "SKIP_DEP"} \/ (statuses'[s] = "SKIP" /\ ~input.cmd[s])
      BY <3>1, <3>2 DEF Postpone, SkipForDep, SkipNoCommand, Submit, Settle
    <3>6. SkipJustified'
      <4> SUFFICES ASSUME SkipsInOrder, NEW x \in Steps, statuses'[x] = "SKIP_DEP"
                   PROVE  \E d \in DepSet(x) : statuses'[d] \in Blocking
        BY <2>0 DEF SkipJustified
      <4>1. \E d \in DepSet(x) : statuses[d] \in Blocking
        <5>1. CASE x # s
          BY <5>1, <3>4 DEF SkipJustified
        <5>2. CASE x = s
          <6>1. MustSkip(s)
            BY <5>2, <3>1, <3>2 DEF Postpone, SkipForDep, SkipNoCommand, Submit,
                                    Settle, Unset
          <6>2. QED
            BY <5>2, <6>1, <3>2, MustSkipMeans
        <5>3. QED
          BY <5>1, <5>2
      <4>2. QED
        BY <4>1, <3>2, <3>3, <3>4 DEF Blocking, Unset
    <3>7. PostponedJustified'
      <4> SUFFICES ASSUME SkipsInOrder, NEW x \in remaining' \ todo'
                   PROVE  \E d \in DepSet(x) : statuses'[d] \in {Unset, "SKIP_DEP"}
        BY <2>0 DEF PostponedJustified
      <4>1. \E d \in DepSet(x) : statuses[d] \in {Unset, "SKIP_DEP"}
        <5>1. CASE x = s
          <6>1. MustWait(s)
            BY <5>1, <3>1, <3>2 DEF Postpone, SkipForDep, SkipNoCommand, Submit, Settle
          <6>2. QED
            BY <5>1, <6>1, MustWaitMeans
        <5>2. CASE x # s
          <6>1. x \in remaining \ todo
            BY <5>2, <3>1, <3>2 DEF Postpone, SkipForDep, SkipNoCommand, Submit, Settle
          <6>2. QED
            BY <6>1, <3>2 DEF PostponedJustified
        <5>3. QED
          BY <5>1, <5>2
      <4>2. x \in Steps
        BY <3>1 DEF Postpone, SkipForDep, SkipNoCommand, Submit, Settle
      <4>3. PICK d \in DepSet(x) : statuses[d] \in {Unset, "SKIP_DEP"}
        BY <4>1
      <4>4. d \in Steps
        BY <4>2, <3>3
      <4>5. CASE d # s
        BY <4>3, <4>4, <4>5, <3>4
      <4>6. CASE d = s
        <5>1. x # s => x \in remaining \ todo
          BY <3>1, <3>2 DEF Postpone, SkipForDep, SkipNoCommand, Submit, Settle
        <5>2. x # s => Rank[x] < Rank[s]
          BY <5>1, <3>2 DEF PassInOrder
        <5>3. x = s => statuses'[s] = statuses[s]
          BY <3>1, <3>2 DEF Postpone, SkipForDep, SkipNoCommand, Submit, Settle
        <5>4. Rank[x] \in Nat /\ Rank[s] \in Nat
          BY <4>2, RankAssumption DEF IsCall, Steps
        <5>5. statuses'[d] \in {Unset, "SKIP_DEP"}
          BY <3>5, <4>2, <4>3, <4>6, <5>2, <5>3, <5>4 DEF SkipsInOrder
        <5>6. QED
          BY <4>3, <5>5
      <4>7. QED
        BY <4>5, <4>6
    <3>8. NoSkipAnswer'
      BY <3>1 DEF NoSkipAnswer, Postpone, SkipForDep, SkipNoCommand, Submit, Settle
    <3>9. PassInOrder'
      <4>1. remaining' \ todo' \subseteq (remaining \ todo) \cup {s}
        BY <3>1, <3>2 DEF Postpone, SkipForDep, SkipNoCommand, Submit, Settle
      <4>2. \A t \in todo \ {s} : Rank[s] < Rank[t]
        <5>1. SUFFICES ASSUME NEW t \in todo, t # s PROVE Rank[s] < Rank[t]
          OBVIOUS
        <5>2. Rank[s] <= Rank[t]
          BY <3>1 DEF Postpone, SkipForDep, SkipNoCommand, Submit, NextInPass
        <5>3. s \in Names /\ t \in Names
          BY DEF IsCall, Steps
        <5>4. Rank[s] # Rank[t] /\ Rank[s] \in Nat /\ Rank[t] \in Nat
          BY <5>1, <5>3, RankAssumption
        <5>5. QED
          BY <5>2, <5>4
      <4>3. QED
        BY <4>1, <4>2, <3>2 DEF PassInOrder
    <3>10. SkipAnswered'
      BY <3>1, <3>4, <3>5 DEF SkipAnswered, Postpone, SkipForDep, SkipNoCommand, Submit, Settle,
                              Unset
    <3>11. QED
      BY <3>6, <3>7, <3>8, <3>9, <3>10
  <2>2. ASSUME NEW S \in SUBSET Finished, Record(S), pc' # "dispatch", WellFormed
        PROVE SkipInv'
    <3>1. \A x \in Steps : \A d \in DepSet(x) : d \in Steps
      BY <2>2 DEF WellFormed, UnknownDep
    <3>2. \A x \in Steps : /\ statuses[x] # Unset => statuses'[x] = statuses[x]
                           /\ statuses'[x] = "SKIP_DEP" => statuses[x] = "SKIP_DEP"
      BY <2>2 DEF Record, Recorded, Finished, InFlightUnset, Futures, NoSkipAnswer
    <3>3. SkipJustified'
      <4> SUFFICES ASSUME SkipsInOrder, NEW x \in Steps, statuses'[x] = "SKIP_DEP"
                   PROVE  \E d \in DepSet(x) : statuses'[d] \in Blocking
        BY <2>0 DEF SkipJustified
      <4>1. PICK d \in DepSet(x) : statuses[d] \in Blocking
        BY <3>2 DEF SkipJustified
      <4>2. statuses'[d] = statuses[d]
        BY <4>1, <3>1, <3>2 DEF Blocking, Unset
      <4>3. QED
        BY <4>1, <4>2
    <3>4. NoSkipAnswer'
      BY <2>2 DEF NoSkipAnswer, Record
    <3>5. SkipAnswered'
      BY <2>2 DEF SkipAnswered, Record
    <3>6. QED
      BY <2>2, <3>3, <3>4, <3>5 DEF PostponedJustified, PassInOrder
  <2>3. CASE Harvest \/ HarvestExit
    BY <2>2, <2>3 DEF Harvest, HarvestExit, ScheduledWellFormed
  <2>4. CASE GiveUp
    <3>1. \A x \in Steps : \A d \in DepSet(x) : d \in Steps
      BY <2>4 DEF GiveUp, ScheduledWellFormed, WellFormed, UnknownDep
    <3>2. \A x \in Steps : statuses[x] = Unset <=> x \in remaining
      BY <2>4 DEF GiveUp, RemainingUntouched, PendingAccounted
    <3>3. \A x \in Steps : statuses'[x] =
             IF statuses[x] = Unset THEN "SKIP_DEP" ELSE statuses[x]
      BY <2>4, <3>2 DEF GiveUp
    <3>4. SkipJustified'
      <4> SUFFICES ASSUME SkipsInOrder, NEW x \in Steps, statuses'[x] = "SKIP_DEP"
                   PROVE  \E d \in DepSet(x) : statuses'[d] \in Blocking
        BY <2>0 DEF SkipJustified
      <4>1. CASE x \in remaining
        BY <4>1, <2>4, <3>1, <3>3 DEF PostponedJustified, GiveUp, Blocking
      <4>2. CASE x \notin remaining
        BY <4>2, <3>1, <3>2, <3>3 DEF SkipJustified, Blocking, Unset
      <4>3. QED
        BY <4>1, <4>2
    <3>5. QED
      BY <2>4, <3>3, <3>4 DEF GiveUp, PostponedJustified, NoSkipAnswer, PassInOrder, SkipAnswered
  <2>5. CASE Pool
    <3>1. UNCHANGED <<pc, todo, remaining, statuses>>
      BY <2>5 DEF Pool, Start, Finish
    <3>2. NoSkipAnswer'
      <4>1. ASSUME NEW s \in Steps, Start(s) PROVE NoSkipAnswer'
        BY <4>1 DEF Start, NoSkipAnswer
      <4>2. ASSUME NEW s \in Steps, Finish(s) PROVE NoSkipAnswer'
        BY <4>2 DEF Finish, NoSkipAnswer, RunnerSilent, IsCall, Steps
      <4>3. QED
        BY <2>5, <4>1, <4>2 DEF Pool
    <3>3. SkipAnswered'
      <4>1. ASSUME NEW s \in Steps, Start(s) \/ Finish(s) PROVE SkipAnswered'
        <5>1. \A x \in Steps : future[x] = "collected" => future'[x] = "collected"
          BY <4>1 DEF Start, Finish
        <5>2. QED
          BY <3>1, <5>1 DEF SkipAnswered
      <4>2. QED
        BY <2>5, <4>1 DEF Pool
    <3>4. QED
      BY <3>1, <3>2, <3>3, <2>0 DEF SkipJustified, PostponedJustified, PassInOrder
  <2>6. CASE \/ Reject \/ Accept \/ LoopAgain \/ LoopExit \/ Await \/ Raise
             \/ Interrupt \/ InterruptJoin \/ Stopped \/ UNCHANGED vars
    BY <2>0, <2>6 DEF Reject, Accept, LoopAgain, LoopExit, Await, Raise, Interrupt,
                InterruptJoin, Stopped, vars, SkipJustified, PostponedJustified, NoSkipAnswer, PassInOrder,
                SkipAnswered
  <2>7. QED
    BY <2>1, <2>3, <2>4, <2>5, <2>6 DEF Next, Main
<1>3. QED
  BY <1>1, <1>2, InvHolds, PTL DEF Spec

\* Acyclicity turns "a dependency to blame" into "an upstream step that FAILed":
\* among the SKIP_DEP steps upstream of s there is one that depends on none.
THEOREM SkipRootedHolds ==
    ASSUME RunnerSilent
    PROVE  Spec => []SkipRootedInFailure
<1>1. Inv /\ SkipInv => SkipRootedInFailure
  <2> SUFFICES ASSUME Inv, SkipInv, pc = "done", AllCommands,
                      NEW s \in Steps, statuses[s] = "SKIP_DEP",
                      NEW U \in SUBSET Steps, s \in U,
                      \A u \in U : DepSet(u) \subseteq U
               PROVE  \E u \in U : statuses[u] = "FAIL"
    BY DEF SkipRootedInFailure, HasFailedAncestor, AllCommands
  <2> DEFINE W == {u \in U : statuses[u] = "SKIP_DEP"}
  <2>1. W \in (SUBSET Steps) \ {{}}
    OBVIOUS
  <2>2. PICK w \in W : DepSet(w) \cap W = {}
    BY <2>1 DEF Inv, ScheduledWellFormed, WellFormed, Cyclic
  <2>3. PICK d \in DepSet(w) : statuses[d] \in Blocking
    BY <2>2 DEF SkipInv, SkipJustified, SkipsInOrder, AllCommands
  <2>4. d \in U /\ d \notin W
    BY <2>2, <2>3
  <2>5. QED
    BY <2>3, <2>4 DEF Blocking
<1>2. QED
  BY <1>1, InvHolds, SkipInvHolds, PTL

-----------------------------------------------------------------------------
(* A part of the graph that is closed under dependencies, and in which nothing *)
(* failed, has run whatever happened to the rest.                              *)

Closed(M) == \A s \in M : DepSet(s) \subseteq M

LEMMA PartRuns ==
    ASSUME Inv, SkipInv, SkipsInOrder, pc = "done", NEW M \in SUBSET Steps, Closed(M),
           \A s \in M : statuses[s] # "FAIL"
    PROVE  \A s \in M : input.cmd[s] => future[s] = "collected"
<1> DEFINE W == {s \in M : statuses[s] = "SKIP_DEP"}
<1>1. W = {}
  <2>1. SUFFICES ASSUME W # {} PROVE FALSE
    OBVIOUS
  <2>2. PICK w \in W : DepSet(w) \cap W = {}
    <3>1. W \in (SUBSET Steps) \ {{}}
      BY <2>1
    <3>2. QED
      BY <3>1 DEF Inv, ScheduledWellFormed, WellFormed, Cyclic
  <2>3. PICK d \in DepSet(w) : statuses[d] \in Blocking
    BY <2>2 DEF SkipInv, SkipJustified
  <2>4. d \in M /\ d \notin W
    BY <2>2, <2>3 DEF Closed
  <2>5. QED
    BY <2>3, <2>4 DEF Blocking
<1>2. ASSUME NEW s \in M, input.cmd[s]
      PROVE  future[s] = "collected"
  <2>1. statuses[s] \in {"PASS", "SKIP"}
    <3>1. statuses[s] \in Statuses \cup {Unset} /\ statuses[s] # "SKIP_DEP"
      BY <1>1 DEF Inv, TypeOK
    <3>2. statuses[s] # Unset
      BY DEF Inv, PendingAccounted, Ended
    <3>3. QED
      BY <3>1, <3>2 DEF Statuses
  <2>2. QED
    BY <1>2, <2>1 DEF Inv, OutcomeOfRun, SkipInv, SkipAnswered
<1>3. QED
  BY <1>2

(* In every graph whose steps without a command sort before what depends on  *)
(* them: if no step on which a part of the graph rests has failed, then all  *)
(* the commands of that part have run, whatever failed elsewhere (run_dag).  *)
PartsIndependent ==
    pc = "done" /\ SkipsInOrder =>
        \A M \in SUBSET Steps : Closed(M) /\ (\A s \in M : statuses[s] # "FAIL") =>
            \A s \in M : input.cmd[s] => future[s] = "collected"

THEOREM PartsIndependentHolds ==
    ASSUME RunnerSilent
    PROVE  Spec => []PartsIndependent
<1>1. Inv /\ SkipInv => PartsIndependent
  BY PartRuns DEF PartsIndependent
<1>2. QED
  BY <1>1, InvHolds, SkipInvHolds, PTL

-----------------------------------------------------------------------------
(* The gate's own graphs.                                                      *)

LEMMA CallGiven == Spec => [](input \in Inputs)
<1>1. Init => input \in Inputs
  BY DEF Init
<1>2. input \in Inputs /\ [Next]_vars => (input \in Inputs)'
  BY CallFixed
<1>3. QED
  BY <1>1, <1>2, PTL DEF Spec

\* Without --coverage, what comes after deny is lint-commits.
LEMMA RustIs ==
    ASSUME NEW e, e.coverage = FALSE, NEW i \in DOMAIN RustChain(e), i # 1,
           RustChain(e)[i - 1] = "deny"
    PROVE  RustChain(e)[i] = "lint-commits"
<1> DEFINE first == <<"credential-scan", "fmt", "clippy", "check", "deny">>
           last  == <<"lint-commits">>
           names == {"credential-scan", "fmt", "clippy", "check", "deny", "lint-commits"}
<1>1. /\ first \in Seq(names) /\ Len(first) = 5 /\ \A k \in 1..4 : first[k] # "deny"
      /\ last \in Seq(names) /\ Len(last) = 1 /\ last[1] = "lint-commits"
  <2>1. first \in Seq(names)
    OBVIOUS
  <2>2. Len(first) = 5 /\ \A k \in 1..4 : first[k] # "deny"
    OBVIOUS
  <2>3. last \in Seq(names)
    OBVIOUS
  <2>4. Len(last) = 1 /\ last[1] = "lint-commits"
    OBVIOUS
  <2>5. QED
    BY <2>1, <2>2, <2>3, <2>4
<1> HIDE DEF first, last, names
<1>2. RustChain(e) = first \o last
  <2>1. RustChain(e) = (first \o <<>>) \o last
    BY DEF RustChain, first, last
  <2>2. first \o <<>> = first
    BY <1>1, ConcatEmptySeq
  <2>3. QED
    BY <2>1, <2>2
<1>3. /\ first \o last \in Seq(names) /\ Len(first \o last) = 6
      /\ \A k \in 1..6 : (first \o last)[k] = IF k <= 5 THEN first[k] ELSE last[k - 5]
  <2>1. Len(first) + Len(last) = 6
    BY <1>1
  <2>2. /\ first \o last \in Seq(names)
        /\ Len(first \o last) = Len(first) + Len(last)
        /\ \A k \in 1..(Len(first) + Len(last)) :
              (first \o last)[k] = IF k <= Len(first) THEN first[k] ELSE last[k - Len(first)]
    BY <1>1, ConcatProperties
  <2>3. QED
    BY <1>1, <2>1, <2>2
<1>4. i \in 1..6 /\ i - 1 \in 1..6
  <2>1. \A q \in Seq(names) : DOMAIN q = 1..Len(q)
    OBVIOUS
  <2>2. DOMAIN RustChain(e) = 1..6
    BY <1>2, <1>3, <2>1
  <2>3. QED
    BY <2>2
<1>5. i = 6
  BY <1>1, <1>2, <1>3, <1>4
<1>6. QED
  BY <1>1, <1>2, <1>3, <1>5

\* A step of a gate's graph is a mode with a name of its chain, and depends on the one before.
LEMMA MergedShape ==
    ASSUME NEW ms, NEW e, NEW jobs, input = Merged(ms, e, jobs),
           NEW s \in Steps, NEW d \in DepSet(s)
    PROVE  \E i \in DOMAIN ChainOf(s[1], e) :
              /\ i # 1 /\ s[1] \in ms /\ s = <<s[1], ChainOf(s[1], e)[i]>>
              /\ d = <<s[1], ChainOf(s[1], e)[i - 1]>>
<1> DEFINE steps == UNION {{<<m, n>> : n \in ToSet(ChainOf(m, e))} : m \in ms}
           chain == ChainOf(s[1], e)
           i == CHOOSE k \in DOMAIN chain : chain[k] = s[2]
<1>1. /\ Steps = steps
      /\ input.deps[s] = IF i = 1 THEN <<>> ELSE <<<<s[1], chain[i - 1]>>>>
  BY DEF Merged, Steps
<1>2. PICK m \in ms : \E n \in ToSet(ChainOf(m, e)) : s = <<m, n>>
  BY <1>1
<1>3. s[1] = m /\ s = <<s[1], s[2]>> /\ s[2] \in ToSet(chain)
  BY <1>2
<1>4. i \in DOMAIN chain /\ chain[i] = s[2]
  <2>1. \E k \in DOMAIN chain : chain[k] = s[2]
    BY <1>3 DEF ToSet
  <2>2. QED
    BY <2>1
<1> HIDE DEF i, chain
<1>5. i # 1
  BY <1>1 DEF DepSet
<1>6. d = <<s[1], chain[i - 1]>>
  BY <1>1, <1>5 DEF DepSet
<1>7. QED
  BY <1>2, <1>3, <1>4, <1>5, <1>6 DEF chain

LEMMA RanksOf ==
    ASSUME Rank = GateRank
    PROVE  /\ Rank[<<"rust", "deny">>] < Rank[<<"rust", "lint-commits">>]
           /\ Rank[<<"web", "install">>] < Rank[<<"web", "lint">>]
<1>1. Len(SortedSteps) = 14
  BY DEF SortedSteps
<1>2. /\ \A k \in 1..14 : SortedSteps[k] = "deny" <=> k = 6
      /\ \A k \in 1..14 : SortedSteps[k] = "lint-commits" <=> k = 10
      /\ \A k \in 1..14 : SortedSteps[k] = "install" <=> k = 8
      /\ \A k \in 1..14 : SortedSteps[k] = "lint" <=> k = 9
      /\ DOMAIN SortedSteps = 1..14
  BY DEF SortedSteps
<1>3. /\ Position(SortedSteps, "deny") = 6 /\ Position(SortedSteps, "lint-commits") = 10
      /\ Position(SortedSteps, "install") = 8 /\ Position(SortedSteps, "lint") = 9
  BY <1>2 DEF Position
<1>4. /\ \A k \in 1..3 : SortedModes[k] = "rust" <=> k = 2
      /\ \A k \in 1..3 : SortedModes[k] = "web" <=> k = 3
      /\ DOMAIN SortedModes = 1..3
  BY DEF SortedModes
<1>5. Position(SortedModes, "rust") = 2 /\ Position(SortedModes, "web") = 3
  BY <1>4 DEF Position
<1>6. {"rust", "web"} \X {"deny", "lint-commits", "install", "lint"} \subseteq GateNames
  <2>1. {"rust", "web"} \subseteq ToSet(SortedModes)
    BY DEF ToSet, SortedModes
  <2>2. {"deny", "lint-commits", "install", "lint"} \subseteq ToSet(SortedSteps)
    BY <1>2 DEF ToSet
  <2>3. QED
    BY <2>1, <2>2 DEF GateNames
<1>7. QED
  BY <1>1, <1>3, <1>5, <1>6 DEF GateRank

LEMMA GateInOrder ==
    ASSUME NEW ms, NEW e, NEW jobs, input = Merged(ms, e, jobs), ms \subseteq Modes,
           e.coverage = FALSE, Rank = GateRank
    PROVE  SkipsInOrder
<1>1. SUFFICES ASSUME NEW s \in Steps, NEW d \in Steps, d \in DepSet(s), ~input.cmd[d]
               PROVE  Rank[d] < Rank[s]
  BY DEF SkipsInOrder
<1>2. d = <<"rust", "deny">> \/ d = <<"web", "install">>
  <2>1. d \in WithoutCommand(e)
    BY <1>1 DEF Merged, Steps
  <2>2. QED
    BY <2>1 DEF WithoutCommand
<1>3. PICK i \in DOMAIN ChainOf(s[1], e) :
         /\ i # 1 /\ s = <<s[1], ChainOf(s[1], e)[i]>>
         /\ d = <<s[1], ChainOf(s[1], e)[i - 1]>>
  BY <1>1, MergedShape
<1>4. CASE d = <<"rust", "deny">>
  <2>1. s[1] = "rust" /\ ChainOf(s[1], e)[i - 1] = "deny"
    BY <1>3, <1>4
  <2>2. ChainOf(s[1], e) = RustChain(e)
    BY <2>1 DEF ChainOf
  <2>3. ChainOf(s[1], e)[i] = "lint-commits"
    BY <1>3, <2>1, <2>2, RustIs
  <2>4. s = <<"rust", "lint-commits">>
    BY <1>3, <2>1, <2>3
  <2>5. QED
    BY <1>4, <2>4, RanksOf
<1>5. CASE d = <<"web", "install">>
  <2>1. s[1] = "web" /\ ChainOf(s[1], e)[i - 1] = "install"
    BY <1>3, <1>5
  <2>2. i = 3
    BY <1>3, <2>1 DEF ChainOf, WebChain
  <2>3. s = <<"web", "lint">>
    BY <1>3, <2>1, <2>2 DEF ChainOf, WebChain
  <2>4. QED
    BY <1>5, <2>3, RanksOf
<1>6. QED
  BY <1>2, <1>4, <1>5

(* The modes of one gate do not disturb each other: without --coverage, in  *)
(* whatever way cargo-deny and the web's install are found, a mode in which *)
(* no step failed has run each of its commands (gate_graph.py, gate_cli.py).*)
(* With --coverage and no cargo-deny it is not so, see GreenMeansRan.       *)
THEOREM ModesIndependentHolds ==
    ASSUME Rank = GateRank, RunnerResults = GateResults, Names = GateNames,
           Inputs = GateCalls, CoverageChoices = {FALSE}
    PROVE  Spec => []ModesIndependent
<1>1. RunnerSilent
  BY DEF RunnerSilent, GateResults
<1>2. Inv /\ input \in Inputs /\ PartsIndependent => ModesIndependent
  <2>1. SUFFICES ASSUME Inv, input \in Inputs, PartsIndependent, pc = "done", NEW m \in Modes,
                        \A s \in StepsOf(m) : statuses[s] # "FAIL"
                 PROVE  \A s \in StepsOf(m) : input.cmd[s] => future[s] = "collected"
    BY DEF ModesIndependent
  <2>2. PICK ms \in SUBSET Modes : \E e \in Env, jobs \in JobChoices : input = Merged(ms, e, jobs)
    BY <2>1 DEF GateCalls, kSubset
  <2>3. PICK e \in Env, jobs \in JobChoices : input = Merged(ms, e, jobs)
    BY <2>2
  <2>4. SkipsInOrder
    BY <2>3, GateInOrder DEF Env
  <2>5. StepsOf(m) \in SUBSET Steps /\ Closed(StepsOf(m))
    <3>1. ASSUME NEW s \in StepsOf(m), NEW d \in DepSet(s)
          PROVE  d \in StepsOf(m)
      <4>1. s \in Steps /\ s[1] = m
        BY DEF StepsOf
      <4>2. d[1] = s[1]
        BY <2>3, <4>1, MergedShape
      <4>3. d \in Steps
        BY <2>1, <4>1 DEF Inv, ScheduledWellFormed, WellFormed, UnknownDep
      <4>4. QED
        BY <4>1, <4>2, <4>3 DEF StepsOf
    <3>2. QED
      BY <3>1 DEF StepsOf, Closed
  <2>6. QED
    BY <2>1, <2>4, <2>5 DEF PartsIndependent
<1>3. QED
  BY <1>1, <1>2, InvHolds, CallGiven, PartsIndependentHolds, PTL

=============================================================================
