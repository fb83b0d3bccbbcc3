-------------------------------- MODULE Judge --------------------------------
(***************************************************************************)
(* The supervision judge (src/celestia_devtools/judge).  judge-fleet takes *)
(* a few samples of a supervised worker through the MCP session, evaluates *)
(* its predicates over them and reports.  The worker is one of a fleet, of *)
(* which a single --probe-url asks one worker, that one or another: the    *)
(* answers count for them all.  An operator may approve what the           *)
(* report advises, and judge-fleet act executes that one action after a    *)
(* preflight against the live state.  The worker crashes, comes back,      *)
(* hangs and is drained between any two calls of either, a call may time   *)
(* out, and a timed out call may have been served.                         *)
(***************************************************************************)
EXTENDS Naturals, Sequences, SequencesExt, FiniteSetsExt

CONSTANTS
    TICKS,            \* --ticks
    STALL_TICKS,      \* identical tails that are a stall
    READINESS_TICKS,  \* failing probes that are a readiness failure
    DRAIN_TICKS,      \* samples a drain may take
    CRASH_DELTA,      \* restarts within the window that are a crash loop
    CRASH_ABSOLUTE,   \* restarts that are a storm, when ...
    CRASH_EVERY,      \* ... there is one per so many ticks of the run's age
    OSCILLATION,      \* running -> restarting transitions that are suspicious
    STALL_UPTIME,     \* how old a worker must be to be stalled, ...
    HANG_UPTIME,      \* ... and to be hung
    MaxRestarts,      \* bound: how often malkuth starts the worker again
    MaxActs,          \* bound: how often the executor is run
    NoDigest          \* no log tail was read in a tick

ASSUME JudgeAssumption ==
    /\ TICKS \in Nat /\ TICKS >= 2
    /\ {STALL_TICKS, READINESS_TICKS, DRAIN_TICKS, CRASH_DELTA, CRASH_ABSOLUTE,
        CRASH_EVERY, OSCILLATION, STALL_UPTIME, HANG_UPTIME} \subseteq Nat \ {0}
    /\ MaxRestarts \in Nat /\ MaxActs \in Nat
    /\ NoDigest \notin Nat
    /\ READINESS_TICKS <= TICKS   \* which is 2, and --ticks at least that

PHASES == {"starting", "running", "restarting", "draining", "stopped"}
Codes  == {"A1", "A2", "B1", "B2", "B3", "C1", "C2"}

\* What a tick holds of the worker; pid and start time are one incarnation, 0 for none.
Ticks == [phase : PHASES, incarnation : 0..(MaxRestarts + 1), uptime : 0..TICKS,
          restarts : 0..MaxRestarts, error : BOOLEAN, draining : BOOLEAN, age : 0..TICKS,
          log : (0..TICKS) \cup {NoDigest}, probe : {"ok", "down", "none"}]

NoBundle == [codes |-> {}, action |-> "none", incarnation |-> 0]

VARIABLES
    phase, incarnation, uptime, restarts, lastError, draining, log, age,
    probed,         \* the probe asks this worker, not another of the fleet
    hung,           \* ground truth: the worker runs and makes no progress
    ticks,          \* the samples collected
    sampling,       \* the tick being filled
    unevaluated,    \* the codes noted as unevaluated
    judging,        \* where judge-fleet is
    verdictReport,  \* its status
    sound,          \* history: the incarnation that has run unhung since the first sample
    wedged,         \* history: the incarnation that has hung since the first sample
    bundle,         \* the handoff the operator approved
    expired,        \* its execution window has closed
    acting,         \* where the executor is
    acts,           \* how many times the executor was run
    exit,           \* the code its last run ended with
    restarted       \* history: how many restarts this bundle has executed

supervised == <<phase, incarnation, uptime, restarts, lastError, draining, log, age, probed, hung>>
judgement  == <<ticks, sampling, unevaluated, judging, verdictReport>>
executor   == <<bundle, expired, acting, acts, exit, restarted>>
judgeVars  == <<supervised, judgement, sound, wedged, executor>>

NoTick == [phase |-> "starting", incarnation |-> 0, uptime |-> 0, restarts |-> 0,
           error |-> FALSE, draining |-> FALSE, age |-> 0, log |-> NoDigest, probe |-> "none"]

JudgeTypeOK ==
    /\ phase \in PHASES
    /\ incarnation \in 0..(MaxRestarts + 1)
    /\ uptime \in 0..TICKS /\ log \in 0..TICKS /\ age \in 0..TICKS
    /\ restarts \in 0..MaxRestarts
    /\ {lastError, draining, hung, probed, expired} \subseteq BOOLEAN
    /\ Len(ticks) <= TICKS /\ \A i \in DOMAIN ticks : ticks[i] \in Ticks
    /\ sampling \in Ticks
    /\ unevaluated \subseteq Codes
    /\ judging \in {"status", "logs", "probe", "wait", "render", "done"}
    /\ verdictReport \in {"none", "unavailable", "failed", "indeterminate", "ok"}
    /\ {sound, wedged} \subseteq 0..(MaxRestarts + 1)
    /\ bundle \in [codes : SUBSET Codes, action : {"none", "restart", "drain"},
                   incarnation : 0..(MaxRestarts + 1)]
    /\ acting \in {"idle", "justify", "target", "approve", "execute"}
    /\ acts \in 0..MaxActs /\ restarted \in 0..MaxActs
    /\ exit \in {"none", "executed", "dry_run", "refused", "failed", "unavailable"}

-----------------------------------------------------------------------------
(* malkuth, the supervisor. *)

\* The worker is watched until a report nobody approves an action of.
Watched == judging # "done" \/ bundle # NoBundle

HasPid == phase \in {"running", "draining"}

\* The judge's history follows the worker: any change of incarnation ends both.
Replaced == /\ sound' = 0
            /\ wedged' = 0

Spawn ==
    /\ phase \in {"starting", "restarting"}
    /\ phase' = "running"
    /\ incarnation' = restarts + 1
    /\ uptime' = 0
    /\ hung' = FALSE
    /\ Replaced
    /\ UNCHANGED <<restarts, lastError, draining, log, age, probed, judgement, executor>>

\* last_error is set here and never cleared.
SpawnFails ==
    /\ phase \in {"starting", "restarting"}
    /\ restarts < MaxRestarts
    /\ phase' = "restarting"
    /\ restarts' = restarts + 1
    /\ lastError' = TRUE
    /\ UNCHANGED <<incarnation, uptime, draining, log, age, probed, hung, judgement, sound,
                   wedged, executor>>

Crash ==
    /\ phase = "running"
    /\ ~draining
    /\ restarts < MaxRestarts
    /\ phase' = "restarting"
    /\ restarts' = restarts + 1
    /\ hung' = FALSE
    /\ Replaced
    /\ UNCHANGED <<incarnation, uptime, lastError, draining, log, age, probed, judgement,
                   executor>>

BeginsToHang ==
    /\ HasPid
    /\ ~hung
    /\ hung' = TRUE
    /\ sound' = 0
    /\ UNCHANGED <<phase, incarnation, uptime, restarts, lastError, draining, log, age,
                   probed, judgement, wedged, executor>>

BeginDrain ==
    /\ phase = "running"
    /\ ~draining
    /\ draining' = TRUE
    /\ \E p \in {"running", "draining"} : phase' = p
    /\ sound' = 0
    /\ UNCHANGED <<incarnation, uptime, restarts, lastError, log, age, probed, hung, judgement,
                   wedged, executor>>

Drained ==
    /\ draining
    /\ phase \in {"running", "draining"}
    /\ ~hung
    /\ phase' = "stopped"
    /\ Replaced
    /\ UNCHANGED <<incarnation, uptime, restarts, lastError, draining, log, age, probed, hung,
                   judgement, executor>>

-----------------------------------------------------------------------------
(* _collect: a tick reads the status, then the logs, then the probe. *)

Unavailable ==
    /\ judging \in {"status"}
    /\ verdictReport' = "unavailable"
    /\ judging' = "done"
    /\ UNCHANGED <<ticks, sampling, unevaluated, supervised, sound, wedged, executor>>

ReadStatus ==
    /\ judging = "status"
    /\ sampling' = [phase |-> phase, incarnation |-> IF HasPid THEN incarnation ELSE 0,
                    uptime |-> uptime, restarts |-> restarts, error |-> lastError,
                    draining |-> draining, age |-> age, log |-> NoDigest, probe |-> "none"]
    /\ judging' = IF phase = "running" THEN "logs" ELSE "probe"
    /\ IF ticks = <<>>
       THEN /\ sound'  = IF phase = "running" /\ ~draining /\ ~hung THEN incarnation ELSE 0
            /\ wedged' = IF phase = "running" /\ hung THEN incarnation ELSE 0
       ELSE UNCHANGED <<sound, wedged>>
    /\ UNCHANGED <<ticks, unevaluated, verdictReport, supervised, executor>>

Note(codes) == unevaluated' = unevaluated \cup codes

ReadLogs ==
    /\ judging = "logs"
    /\ judging' = "probe"
    /\ \/ /\ sampling' = [sampling EXCEPT !.log = log]
          /\ UNCHANGED unevaluated
       \/ Note({"A2", "C1"}) /\ UNCHANGED sampling
    /\ UNCHANGED <<ticks, verdictReport, supervised, sound, wedged, executor>>

\* probe_state: an endpoint that answers is evidence, one that does not is none.  That
\* of another worker may be in any state.
ProbeStates ==
    {"unreachable"} \cup IF ~probed THEN {"ok", "down"}
                        ELSE IF phase = "running" /\ ~hung THEN {"ok"} ELSE {"down"}

Probe ==
    /\ judging = "probe"
    /\ \E state \in ProbeStates :
          IF state = "unreachable"
          THEN /\ Note({"A1", "C1"})
               /\ ticks' = Append(ticks, sampling)
          ELSE /\ ticks' = Append(ticks, [sampling EXCEPT !.probe = state])
               /\ UNCHANGED unevaluated
    /\ sampling' = NoTick
    /\ judging' = IF Len(ticks') = TICKS THEN "render" ELSE "wait"
    /\ UNCHANGED <<verdictReport, supervised, sound, wedged, executor>>

\* The interval: a worker that is not hung may write to its log.
JudgeInterval ==
    /\ judging = "wait"
    /\ judging' = "status"
    /\ age' = age + 1
    /\ uptime' = IF HasPid THEN uptime + 1 ELSE uptime
    /\ \E lines \in IF HasPid /\ ~hung THEN {0, 1} ELSE {0} : log' = log + lines
    /\ UNCHANGED <<phase, incarnation, restarts, lastError, draining, probed, hung, ticks,
                   sampling, unevaluated, verdictReport, sound, wedged, executor>>

-----------------------------------------------------------------------------
(* evaluate: the predicates over the samples. *)

Latest == ticks[Len(ticks)]

RestartCounts == {ticks[i].restarts : i \in DOMAIN ticks}
Delta         == Max(RestartCounts) - Min(RestartCounts)
Recovered     == Latest.phase = "running" /\ Delta = 0
Saturated     == /\ ~Recovered
                 /\ Latest.restarts >= CRASH_ABSOLUTE
                 /\ Latest.restarts * CRASH_EVERY >= Max({Latest.age, 1})

b1_crash_loop == Delta >= CRASH_DELTA \/ Saturated

b2_phase_oscillation ==
    Cardinality({i \in 1..(Len(ticks) - 1) :
        ticks[i].phase = "running" /\ ticks[i + 1].phase = "restarting"}) >= OSCILLATION

b3_drain_stalled ==
    /\ Latest.draining
    /\ Cardinality({i \in DOMAIN ticks : ticks[i].draining}) >= DRAIN_TICKS
    /\ Latest.phase \in {"running", "draining"}

\* Ticks whose probe gave no evidence are not part of the history, which is the fleet's.
ProbeHistory == {i \in DOMAIN ticks : ticks[i].probe # "none"}
FailingTicks ==
    Cardinality({i \in ProbeHistory : \A j \in ProbeHistory : j >= i => ticks[j].probe # "ok"})

a1_readiness_down == Latest.phase = "running" /\ FailingTicks >= READINESS_TICKS

\* The logs that could be read, and the last STALL_TICKS of them.
Digests == {i \in DOMAIN ticks : ticks[i].log # NoDigest}
Frozen  ==
    LET tail == {i \in Digests : Cardinality({j \in Digests : j > i}) < STALL_TICKS}
    IN  /\ Cardinality(Digests) >= STALL_TICKS
        /\ \A i, j \in tail : ticks[i].log = ticks[j].log

a2_log_stall == Frozen /\ Latest.uptime >= STALL_UPTIME /\ Latest.uptime > ticks[1].uptime

c1_silent_hang == /\ Latest.phase = "running"
                  /\ Latest.uptime >= HANG_UPTIME
                  /\ FailingTicks >= READINESS_TICKS
                  /\ Frozen

\* Variant: without looking at what ran since.
c2_spawn_failure_Ever == Latest.error

c2_spawn_failure ==
    /\ Latest.error
    /\ \A i \in DOMAIN ticks : ticks[i].phase # "running" /\ ticks[i].incarnation = 0

Fired ==
    {c \in Codes : \/ c = "A1" /\ a1_readiness_down
                   \/ c = "A2" /\ a2_log_stall
                   \/ c = "B1" /\ b1_crash_loop
                   \/ c = "B2" /\ b2_phase_oscillation
                   \/ c = "B3" /\ b3_drain_stalled
                   \/ c = "C1" /\ c1_silent_hang
                   \/ c = "C2" /\ c2_spawn_failure}

CriticalCodes == {"B1", "B3", "C1", "C2"}

report_status == IF Fired # {} THEN "failed"
                 ELSE IF unevaluated # {} THEN "indeterminate" ELSE "ok"

\* The report is of the fleet: the other workers can make it worse, not better.
Render ==
    /\ judging = "render"
    /\ verdictReport' \in {report_status, "failed"} \cup
                         (IF report_status = "ok" THEN {"indeterminate"} ELSE {})
    /\ judging' = "done"
    /\ UNCHANGED <<ticks, sampling, unevaluated, supervised, sound, wedged, executor>>

\* advice.decide: the action for a target's codes, by priority.
decide(codes, drains) ==
    CASE "C2" \in codes             -> "notify"
      [] "C2" \notin codes /\ ("B3" \in codes \/ ("C1" \in codes /\ drains)) -> "drain"
      [] "C2" \notin codes /\ "B3" \notin codes /\ codes \cap {"B1", "C1"} # {}
                           /\ ~("C1" \in codes /\ drains) -> "restart"
      [] codes = {}                 -> "observe"
      [] OTHER                      -> "notify"

-----------------------------------------------------------------------------
(* act: the executor of one approved action. *)

\* The operator approves what the report advises; the samples went with the judge.
Approve ==
    /\ judging = "done" /\ verdictReport = "failed"
    /\ bundle = NoBundle
    /\ LET action == decide(Fired, Latest.draining)
       IN  /\ action \in {"restart", "drain"}
           /\ bundle' = [codes |-> Fired, action |-> action,
                         incarnation |-> Latest.incarnation]
    /\ ticks' = <<>> /\ unevaluated' = {}
    /\ UNCHANGED <<supervised, sampling, judging, verdictReport, sound, wedged, expired, acting, acts,
                   exit, restarted>>

WindowCloses ==
    /\ bundle # NoBundle
    /\ ~expired
    /\ expired' = TRUE
    /\ UNCHANGED <<supervised, judgement, sound, wedged, bundle, acting, acts, exit, restarted>>

ActStarts ==
    /\ bundle # NoBundle
    /\ acting = "idle"
    /\ acts < MaxActs
    /\ acts' = acts + 1
    /\ acting' = "justify"
    /\ exit' = "none"
    /\ UNCHANGED <<supervised, judgement, sound, wedged, bundle, expired, restarted>>

Ends(code) == acting' = "idle" /\ exit' = code
Continues(step) == acting' = step /\ UNCHANGED exit

\* parse_handoff, check_action_supported and check_justification; the drain is not known yet.
Justified ==
    /\ bundle.codes \cap {"B1", "C1", "B3"} # {}
    /\ ~expired
    /\ decide(bundle.codes, FALSE) \in {"restart", "drain"}

check_justification ==
    /\ acting = "justify"
    /\ IF Justified THEN Continues("target") ELSE Ends("refused")
    /\ UNCHANGED <<supervised, judgement, sound, wedged, bundle, expired, acts, restarted>>

TargetMatches ==
    /\ phase \notin {"stopped", "starting"}
    /\ bundle.incarnation # 0
    /\ HasPid /\ incarnation = bundle.incarnation
    /\ decide(bundle.codes, draining) = bundle.action

check_target ==
    /\ acting = "target"
    /\ \/ TargetMatches /\ (Continues("approve") \/ Ends("dry_run"))
       \/ ~TargetMatches /\ Ends("refused")
       \/ Ends("unavailable")
    /\ UNCHANGED <<supervised, judgement, sound, wedged, bundle, expired, acts, restarted>>

\* The gate registers the approval, refuses it, or does not answer in time.
RegisterApproval ==
    /\ acting = "approve"
    /\ \/ Continues("execute")
       \/ \E code \in {"failed", "unavailable"} : Ends(code)
    /\ UNCHANGED <<supervised, judgement, sound, wedged, bundle, expired, acts, restarted>>

\* The call names the worker, not its identity: it acts on what runs by now.  When the
\* reply is late the executor ends unavailable and the action was executed.
Execute ==
    /\ acting = "execute"
    /\ \E code \in {"executed", "unavailable"} : Ends(code)
    /\ IF bundle.action = "restart"
       THEN /\ phase = "running"
            /\ restarts < MaxRestarts
            /\ phase' = "restarting"
            /\ restarts' = restarts + 1
            /\ hung' = FALSE
            /\ restarted' = restarted + 1
            /\ Replaced
            /\ UNCHANGED draining
       ELSE /\ phase \in {"running", "draining"}
            /\ draining' = TRUE
            /\ sound' = 0
            /\ UNCHANGED <<phase, restarts, hung, restarted, wedged>>
    /\ UNCHANGED <<incarnation, uptime, lastError, log, age, probed, judgement, bundle, expired,
                   acts>>

\* The gate or the tool refuses, or the call is lost before it is served.
ExecuteFails ==
    /\ acting = "execute"
    /\ \E code \in {"refused", "failed", "unavailable"} : Ends(code)
    /\ UNCHANGED <<supervised, judgement, sound, wedged, bundle, expired, acts, restarted>>

-----------------------------------------------------------------------------
JudgeInit ==
    /\ phase = "starting" /\ incarnation = 0 /\ uptime = 0 /\ restarts = 0
    /\ lastError = FALSE /\ draining = FALSE /\ log = 0 /\ age = 0 /\ hung = FALSE
    /\ probed \in BOOLEAN
    /\ ticks = <<>> /\ sampling = NoTick /\ unevaluated = {}
    /\ judging = "status" /\ verdictReport = "none"
    /\ sound = 0 /\ wedged = 0
    /\ bundle = NoBundle /\ expired = FALSE /\ acting = "idle" /\ acts = 0
    /\ exit = "none" /\ restarted = 0

MalkuthNext == /\ Watched
               /\ Spawn \/ SpawnFails \/ Crash \/ BeginsToHang \/ BeginDrain \/ Drained
CollectNext == Unavailable \/ ReadStatus \/ ReadLogs \/ Probe \/ JudgeInterval \/ Render
ActNext     == \/ Approve \/ WindowCloses \/ ActStarts \/ check_justification
               \/ check_target \/ RegisterApproval \/ Execute \/ ExecuteFails

JudgeNext == MalkuthNext \/ CollectNext \/ ActNext

JudgeSpec == JudgeInit /\ [][JudgeNext]_judgeVars

-----------------------------------------------------------------------------
(* A worker that has hung since the first sample, and still ran in the last *)
(* one, is never reported healthy: probes that do not answer and logs that  *)
(* cannot be read are noted, and the report is then indeterminate at best   *)
(* (cli._collect, report_status).  One whose endpoint is not the one that   *)
(* is probed is only found by its silent log, if there are STALL_TICKS of   *)
(* it and the worker is of age.  One that began to drain before the last    *)
(* sample is not meant: no predicate looks at it until DRAIN_TICKS.         *)
SilenceIsNotHealth ==
    verdictReport = "ok" /\ Latest.phase = "running" /\ wedged # 0 =>
        ~probed /\ (TICKS < STALL_TICKS \/ Latest.uptime < STALL_UPTIME)

(* A worker that has run well since the first sample is given no critical   *)
(* finding, whatever it went through before: neither last_error, which      *)
(* malkuth never clears, nor a restart count that has stopped moving is     *)
(* held against it (fleet.c2_spawn_failure, fleet.b1_crash_loop).  But one  *)
(* that is quiet is blamed for the endpoint of another (fleet.evaluate).    *)
RecoveredNotBlamed ==
    (judging = "render" /\ sound # 0) =>
        Fired \cap CriticalCodes \subseteq IF probed THEN {} ELSE {"C1"}

(* However often the executor is run with one bundle, after a timeout that  *)
(* hid its success too, the bundle restarts the worker at most once: the    *)
(* restart changes the identity that check_target compares.                 *)
OneRestartPerApproval == restarted <= 1
=============================================================================
