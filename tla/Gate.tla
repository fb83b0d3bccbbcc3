--------------------------------- MODULE Gate ---------------------------------
(***************************************************************************)
(* The local CI gate: the step graphs of build/gate_graph.py, merged and   *)
(* run by build/gate_cli.py on the scheduler.  A step is <<mode, name>>:   *)
(* the gate writes "mode:name", and only when several modes are merged,    *)
(* which changes neither the graph nor the order of sorted() within a mode.*)
(***************************************************************************)
EXTENDS Scheduler, SequencesExt

CONSTANTS
    JobChoices,       \* the values of --jobs
    CoverageChoices,  \* may --coverage be given
    MaxModes          \* bound: how many modes are merged

Modes == {"rust", "web", "python"}

(* What the builders find in the environment: is cargo-deny installed, does
   web need an install, is --coverage given. *)
Env == [deny : BOOLEAN, install : BOOLEAN, coverage : CoverageChoices]

\* Every canonical graph is a chain: each step depends on the one before.
RustChain(e) ==
    <<"credential-scan", "fmt", "clippy", "check", "deny">>
        \o (IF e.coverage THEN <<"coverage">> ELSE <<>>) \o <<"lint-commits">>

WebChain ==
    <<"credential-scan", "install", "lint", "build", "test", "lint-commits">>

PythonChain == <<"ruff-check", "py-style", "pytest", "lint-commits">>

ChainOf(m, e) == CASE m = "rust"   -> RustChain(e)
                   [] m = "web"    -> WebChain
                   [] m = "python" -> PythonChain

\* The steps built with None instead of a command.
WithoutCommand(e) ==
    (IF e.deny THEN {} ELSE {<<"rust", "deny">>})
        \cup (IF e.install THEN {} ELSE {<<"web", "install">>})

\* Variant: `prev' survives from one builder to the next, so that the merged
\* chains hang together.
Merged_Chained(ms, e, jobs) ==
    LET steps == UNION {{<<m, n>> : n \in ToSet(ChainOf(m, e))} : m \in ms}
        last  == CHOOSE m \in ms : TRUE
        prev(s) == LET chain == ChainOf(s[1], e)
                       i == CHOOSE k \in DOMAIN chain : chain[k] = s[2]
                   IN  IF i > 1 THEN <<<<s[1], chain[i - 1]>>>>
                       ELSE IF s[1] # last THEN <<<<last, "lint-commits">>>>
                       ELSE <<>>
    IN  [deps |-> [s \in steps |-> prev(s)],
         cmd  |-> [s \in steps |-> s \notin WithoutCommand(e)],
         dup  |-> FALSE,
         jobs |-> jobs]

\* The graphs of the modes ms, prefixed and merged into one call of run_dag.
Merged(ms, e, jobs) ==
    LET steps == UNION {{<<m, n>> : n \in ToSet(ChainOf(m, e))} : m \in ms}
        prev(s) == LET chain == ChainOf(s[1], e)
                       i == CHOOSE k \in DOMAIN chain : chain[k] = s[2]
                   IN  IF i = 1 THEN <<>> ELSE <<<<s[1], chain[i - 1]>>>>
    IN  [deps |-> [s \in steps |-> prev(s)],
         cmd  |-> [s \in steps |-> s \notin WithoutCommand(e)],
         dup  |-> FALSE,
         jobs |-> jobs]

GateCalls == {Merged(ms, e, j) :
                ms \in kSubset(1, Modes) \cup kSubset(MaxModes, Modes), e \in Env, j \in JobChoices}

(* sorted() compares the names as strings. *)
SortedModes == <<"python", "rust", "web">>
SortedSteps == <<"build", "check", "clippy", "coverage", "credential-scan",
                 "deny", "fmt", "install", "lint", "lint-commits", "py-style",
                 "pytest", "ruff-check", "test">>

GateNames == ToSet(SortedModes) \X ToSet(SortedSteps)

Position(seq, x) == CHOOSE i \in DOMAIN seq : seq[i] = x

GateRank == [s \in GateNames |->
                Len(SortedSteps) * Position(SortedModes, s[1])
                    + Position(SortedSteps, s[2])]

\* _execute_step: a callable returns a status and its exceptions become FAIL; an
\* external command passes, fails, or cannot be launched.
GateResults == [s \in GateNames |->
                  IF s[2] \in {"credential-scan", "lint-commits"}
                  THEN {"PASS", "FAIL", "SKIP"}
                  ELSE {"PASS", "FAIL", "raises"}]

\* _run: what the gate exits with once run_dag has returned.
ExitCode == IF \E s \in Steps : statuses[s] = "FAIL" THEN 1 ELSE 0

-----------------------------------------------------------------------------

StepsOf(m) == {s \in Steps : s[1] = m}

\* README: exit code 0 means that all steps passed.  Short of a step skipped on
\* purpose, by having no command or by its own verdict, each of them ran.
GreenMeansRan ==
    (pc = "done" /\ ExitCode = 0) =>
        \A s \in Steps : input.cmd[s] => future[s] = "collected"

\* Merged modes do not disturb each other: whatever fails elsewhere, a mode in
\* which no step failed has run every step that has a command.
ModesIndependent ==
    pc = "done" => \A m \in Modes :
        (\A s \in StepsOf(m) : statuses[s] # "FAIL") =>
            \A s \in StepsOf(m) : input.cmd[s] => future[s] = "collected"

=============================================================================
