---------------------------- MODULE JobTimeouts ----------------------------
(***************************************************************************)
(* job-timeouts (ci/job_timeouts.py): the audit that lists the workflow    *)
(* jobs without timeout-minutes, and the fixer that adds the line to the   *)
(* text itself, never through a YAML library.  A workflow is the sequence  *)
(* of its lines; a line is what the scanner can tell of it: how far it is  *)
(* indented, which key it opens, and whether its value ends there.         *)
(***************************************************************************)
EXTENDS Naturals, SequencesExt

CONSTANTS
    Workflows,       \* the files of .github/workflows
    MaxFlowEdits,    \* bound: times an author rewrites a file
    MaxTimeoutRuns   \* bound: runs of the tool

ASSUME JobTimeoutsAssumption == MaxFlowEdits \in Nat /\ MaxTimeoutRuns \in Nat

\* The ways to write where a job runs, and the two jobs the scanner refuses or skips.
Shapes == {"inline", "list", "flow", "block", "flush", "caller", "nowhere", "mapping"}
TimeoutPlaces == {"absent", "own", "step", "script", "tabbed script", "tabbed"}

(* What an author writes: the first job of the file; a second, plain        *)
(* self-hosted job follows it.                                              *)
Authored == [shape : Shapes, self : BOOLEAN, timeout : TimeoutPlaces,
             words : {{}, {"lint", "cargo"}, {"bench", "cargo"}}]

Plain == [shape |-> "inline", self |-> TRUE, timeout |-> "absent", words |-> {}]

VARIABLES
    author,      \* what the author last wrote into each file
    savedFlow,   \* the lines of each file on disk; <<>> is a file cut short
    fixing,      \* the texts a running fix has read, by the files it has yet to write
    fixScope,    \* the flags of that fix
    timeoutRun,  \* how the last run ended
    reached,     \* the jobs of each file that fixes wrote to since its author saved it
    spoiled,     \* the files cut short, or overwritten from an older text, since then
    flowEdits, timeoutRuns

timeoutVars == <<author, savedFlow, fixing, fixScope, timeoutRun,
    reached, spoiled, flowEdits, timeoutRuns>>

FlowLine(indent, key, value, self, words) ==
    [indent |-> indent, key |-> key, value |-> value, self |-> self,
     words |-> words, minutes |-> 0, tab |-> FALSE]
Key(indent, key, value) == FlowLine(indent, key, value, FALSE, {})
Text(indent, self)      == FlowLine(indent, "", "inline", self, {})
BlankLine               == Key(0, "blank", "none")
TimeoutLine(indent, minutes) == [Key(indent, "timeout", "inline") EXCEPT !.minutes = minutes]

(* ---------------------------------------------------- what authors write *)

TimeoutEntry(a) ==
    CASE a.shape = "inline" -> <<FlowLine(2, "runs-on", "inline", a.self, {})>>
      [] a.shape = "list"   -> <<Key(2, "runs-on", "none"), Text(3, FALSE), BlankLine, Text(3, a.self)>>
      [] a.shape = "flow"   -> <<Key(2, "runs-on", "open"), Text(3, a.self)>>
      [] a.shape = "block"  -> <<Key(2, "runs-on", "block"), Text(3, a.self)>>
      [] a.shape = "flush"  -> <<Key(2, "runs-on", "none"), Text(2, a.self)>>
      [] a.shape = "caller" -> <<Key(2, "uses", "inline")>>
      [] OTHER              -> <<>>

StepLines(a) ==
    <<FlowLine(2, "steps", "none", FALSE, a.words \cap {"cargo"})>> \o
    CASE a.timeout = "own"    -> <<TimeoutLine(2, 30)>>
      [] a.timeout = "step"   -> <<Text(3, FALSE), TimeoutLine(4, 30)>>
      [] a.timeout = "script" -> <<Key(3, "run", "block"), TimeoutLine(4, 30)>>
      [] a.timeout = "tabbed script" ->
            <<Key(3, "run", "block"), [TimeoutLine(4, 30) EXCEPT !.tab = TRUE]>>
      [] a.timeout = "tabbed" -> <<[Text(3, FALSE) EXCEPT !.tab = TRUE]>>
      [] OTHER -> <<>>

Opening(a) == <<Key(0, "jobs", "none"),
              FlowLine(1, "job", IF a.shape = "mapping" THEN "inline" ELSE "none", FALSE,
                   a.words \ {"cargo"})>>
SecondJob(line) == <<Key(1, "job", "none"), FlowLine(2, "runs-on", "inline", TRUE, {})>> \o line

FlowText(a) == Opening(a) \o TimeoutEntry(a) \o StepLines(a) \o SecondJob(<<>>)

(* ----------------------------------------------------------- the scanner *)

Blank(l) == l.key = "blank"

\* The bodies of block scalars: content, whatever it looks like.
Opaque(t) ==
    {i \in DOMAIN t : /\ ~Blank(t[i])
                      /\ \E k \in 1..(i - 1) :
                            /\ t[k].value = "block"
                            /\ \A j \in (k + 1)..i : Blank(t[j]) \/ t[j].indent > t[k].indent}

Structure(t) == {i \in DOMAIN t : ~Blank(t[i])} \ Opaque(t)
KeyLines(t)  == {i \in Structure(t) : t[i].key # ""}

RejectsTab(t) == \E i \in DOMAIN t \ Opaque(t) : t[i].tab

JobsLine(t) == {i \in KeyLines(t) : t[i].key = "jobs"}
\* The keys one level below jobs: are the jobs.
JobLines(t) ==
    LET jobs  == JobsLine(t)
        below == {i \in Structure(t) : \E j \in jobs : i > j}
    IN  {i \in below : t[i].indent = t[Min(below)].indent}
BlockEnd(t, job) ==
    LET after == {i \in Structure(t) : i > job /\ t[i].indent <= t[job].indent}
    IN  IF after = {} THEN Len(t) ELSE Min(after) - 1

Unparsed(t) == \/ RejectsTab(t)
               \/ \E i \in JobLines(t) : t[i].key = "" \/ t[i].value # "none"

Properties(t, job) ==
    LET end    == BlockEnd(t, job)
        inside == {i \in KeyLines(t) : i > job /\ i <= end}
    IN  {i \in inside : \A k \in inside : t[i].indent <= t[k].indent}

EntryLastLine(t, i, end) ==
    IF t[i].value = "inline" THEN i
    ELSE Max({i} \cup {j \in (i + 1)..end : /\ ~Blank(t[j])
                                            /\ \A k \in (i + 1)..j : Blank(t[k]) \/ t[k].indent > t[i].indent})

Anchor(t, job) ==
    LET properties == Properties(t, job)
        on(key) == {i \in properties : t[i].key = key}
    IN  IF on("runs-on") # {} THEN {Min(on("runs-on"))}
        ELSE IF on("uses") # {} THEN {Min(on("uses"))} ELSE {}
HasTimeout(t, job) == \E i \in Properties(t, job) : t[i].key = "timeout"
IsCaller(t, job)   == \E i \in Anchor(t, job) : t[i].key = "uses"
InsertAfter(t, job) == EntryLastLine(t, CHOOSE i \in Anchor(t, job) : TRUE, BlockEnd(t, job))
SelfHosted(t, job) ==
    /\ Anchor(t, job) # {} /\ ~IsCaller(t, job)
    /\ \E i \in (CHOOSE i \in Anchor(t, job) : TRUE)..InsertAfter(t, job) : t[i].self

\* The name decides before the body does; a light name only if the body says nothing.
Suggest(name, body) ==
    IF "bench" \in name THEN 360
    ELSE IF "cargo" \in body THEN 300
    ELSE IF "lint" \in name THEN 60 ELSE 120
Minutes(t, job) ==
    Suggest(t[job].words, UNION {t[i].words : i \in job..BlockEnd(t, job)})

\* The flags that widen a run beyond the self-hosted jobs.
Scope == SUBSET {"hosted", "callers"}
InScope(t, job, scope) ==
    IF IsCaller(t, job) THEN "callers" \in scope ELSE SelfHosted(t, job) \/ "hosted" \in scope

MissingTimeouts(t, scope)  == {j \in JobLines(t) : InScope(t, j, scope) /\ ~HasTimeout(t, j)}
Editable(t, scope) == {j \in MissingTimeouts(t, scope) : Anchor(t, j) # {}}

Inserted(t, scope) ==
    LET jobs  == Editable(t, scope)
        after == [j \in jobs |-> InsertAfter(t, j)]
    IN  FlattenSeq([i \in DOMAIN t |->
            <<t[i]>> \o IF \E j \in jobs : after[j] = i
                        THEN LET j == CHOOSE j \in jobs : after[j] = i
                             IN  <<TimeoutLine(t[CHOOSE a \in Anchor(t, j) : TRUE].indent, Minutes(t, j))>>
                        ELSE <<>>])

(* ------------------------------------------------------------ the command *)

TimeoutsInit ==
    /\ author = [w \in Workflows |-> Plain]
    /\ savedFlow = [w \in Workflows |-> FlowText(author[w])]
    /\ fixing = << >> /\ fixScope = {}
    /\ timeoutRun = [did |-> "none", exit |-> 0, dry |-> FALSE, scope |-> {}]
    /\ reached = [w \in Workflows |-> {}] /\ spoiled = {}
    /\ flowEdits = 0 /\ timeoutRuns = 0

\* An author saves another text, also while a fix is under way.
EditWorkflow(w) ==
    /\ flowEdits < MaxFlowEdits
    /\ \E a \in Authored : a # author[w] /\ author' = [author EXCEPT ![w] = a]
                                         /\ savedFlow' = [savedFlow EXCEPT ![w] = FlowText(a)]
    /\ reached' = [reached EXCEPT ![w] = {}] /\ spoiled' = spoiled \ {w}
    /\ flowEdits' = flowEdits + 1
    /\ timeoutRun' = [timeoutRun EXCEPT !.did = "none"]
    /\ UNCHANGED <<fixing, fixScope, timeoutRuns>>

StartTimeouts == timeoutRuns < MaxTimeoutRuns /\ DOMAIN fixing = {} /\ timeoutRuns' = timeoutRuns + 1

\* One file that cannot be scanned safely ends the run before any is written.
RefuseText ==
    /\ StartTimeouts
    /\ \E w \in Workflows : Unparsed(savedFlow[w])
    /\ timeoutRun' = [did |-> "refused", exit |-> 2, dry |-> FALSE, scope |-> {}]
    /\ UNCHANGED <<author, savedFlow, fixing, fixScope, reached, spoiled, flowEdits>>

AuditTimeouts(scope) ==
    /\ StartTimeouts
    /\ \A w \in Workflows : ~Unparsed(savedFlow[w])
    /\ timeoutRun' = [did |-> "audit", dry |-> FALSE, scope |-> scope,
                      exit |-> IF \E w \in Workflows : MissingTimeouts(savedFlow[w], scope) # {} THEN 1 ELSE 0]
    /\ UNCHANGED <<author, savedFlow, fixing, fixScope, reached, spoiled, flowEdits>>

\* collect_jobs reads every file before the first is written.
FixReads(scope, dry) ==
    LET edited == {w \in Workflows : Editable(savedFlow[w], scope) # {}}
    IN  /\ StartTimeouts
        /\ \A w \in Workflows : ~Unparsed(savedFlow[w])
        /\ fixing' = IF dry THEN << >> ELSE [w \in edited |-> savedFlow[w]]
        /\ fixScope' = scope
        /\ timeoutRun' = [did |-> IF dry \/ edited = {} THEN "fixed" ELSE "fixing",
                          exit |-> 0, dry |-> dry, scope |-> scope]
        /\ UNCHANGED <<author, savedFlow, reached, spoiled, flowEdits>>

\* The jobs a fix is for: the self-hosted ones, and those its flags add.
Reach(scope) == scope \cup {"self"}

\* The text that is written is the one that was read, with the lines added.
FixWrites(w) ==
    /\ w \in DOMAIN fixing
    /\ savedFlow' = [savedFlow EXCEPT ![w] = Inserted(fixing[w], fixScope)]
    /\ spoiled' = IF savedFlow[w] = fixing[w] THEN spoiled ELSE spoiled \cup {w}
    /\ reached' = [reached EXCEPT ![w] = @ \cup Reach(fixScope)]
    /\ fixing' = [x \in DOMAIN fixing \ {w} |-> fixing[x]]
    /\ timeoutRun' = IF DOMAIN fixing = {w} /\ timeoutRun.did = "fixing"
                     THEN [timeoutRun EXCEPT !.did = "fixed"] ELSE timeoutRun
    /\ UNCHANGED <<author, fixScope, flowEdits, timeoutRuns>>

\* Killed between two files, or when one is opened for writing, and so empty.
FixKilled(w) ==
    /\ w \in DOMAIN fixing
    /\ \/ UNCHANGED <<savedFlow, spoiled>>
       \/ savedFlow' = [savedFlow EXCEPT ![w] = <<>>] /\ spoiled' = spoiled \cup {w}
    /\ fixing' = << >>
    /\ timeoutRun' = [timeoutRun EXCEPT !.did = "killed"]
    /\ UNCHANGED <<author, fixScope, reached, flowEdits, timeoutRuns>>

TimeoutsNext ==
    \/ \E w \in Workflows : EditWorkflow(w) \/ FixWrites(w) \/ FixKilled(w)
    \/ \E scope \in Scope : AuditTimeouts(scope) \/ (\E dry \in BOOLEAN : FixReads(scope, dry))
    \/ RefuseText

JobTimeoutsTypeOK ==
    /\ author \in [Workflows -> Authored]
    /\ DOMAIN savedFlow = Workflows
    /\ DOMAIN fixing \subseteq Workflows
    /\ fixScope \in Scope
    /\ timeoutRun.did \in {"none", "refused", "audit", "fixing", "fixed", "killed"}
    /\ reached \in [Workflows -> SUBSET {"self", "hosted", "callers"}]
    /\ spoiled \subseteq Workflows
    /\ flowEdits \in 0..MaxFlowEdits /\ timeoutRuns \in 0..MaxTimeoutRuns

(* What fixes leave of a file, read off what its author meant and not off   *)
(* the scanner: the timeout of every job they reached, after the whole of   *)
(* the entry that says where it runs.                                       *)
NeedsLine(a, reach) ==
    /\ a.timeout # "own"
    /\ CASE a.shape = "caller"  -> "callers" \in reach
         [] a.shape = "nowhere" -> FALSE
         [] OTHER               -> "hosted" \in reach \/ (a.self /\ "self" \in reach)
LineIf(needed, minutes) == IF needed THEN <<TimeoutLine(2, minutes)>> ELSE <<>>
Meant(a, reach) ==
    Opening(a) \o TimeoutEntry(a) \o LineIf(NeedsLine(a, reach), Suggest(a.words, a.words))
    \o StepLines(a) \o SecondJob(LineIf("self" \in reach, 120))

(* A fix that reports its count has given every job in scope its own        *)
(* timeout, after the last line of the entry that says where it runs, and   *)
(* left every other line alone, those of earlier fixes included; an audit   *)
(* of the same scope then passes unless a job names no runner.  Not meant   *)
(* are files spoiled before their author saved them again, and a list flush *)
(* with its key, the shape the scanner mistakes (_entry_last_line asks for  *)
(* more indentation).                                                       *)
TimeoutsLandWhole ==
    (timeoutRun.did = "fixed" /\ ~timeoutRun.dry) =>
        \A w \in Workflows \ spoiled : author[w].shape # "flush" =>
            /\ savedFlow[w] = Meant(author[w], reached[w] \cup Reach(timeoutRun.scope))
            /\ Editable(savedFlow[w], timeoutRun.scope) = {}

(* What a fix makes of any text that authors and earlier fixes can leave:   *)
(* finitely many texts, so that TLC decides it.                             *)
Reaches == {{}} \cup {Reach(scope) : scope \in Scope}
ASSUME FixIsRight ==
    /\ \A a \in Authored : FlowText(a) = Meant(a, {})
    /\ \A a \in Authored, reach \in Reaches, scope \in Scope :
          LET t == Meant(a, reach)
              u == Inserted(t, scope)
          IN  a.shape # "flush" /\ ~Unparsed(t) =>
                  /\ u = Meant(a, reach \cup Reach(scope))
                  /\ Editable(t, scope) = {} => u = t
                  /\ Editable(u, scope) = {}
=============================================================================
