------------------------------- MODULE Referee -------------------------------
(***************************************************************************)
(* The heartbeat referee (tools/ci_farm_heartbeat_referee.py) and the      *)
(* receiver of the beats it judges by (ci_farm_heartbeat_receiver.py).     *)
(* A guest beats every minute; a timer starts a round, which reads the     *)
(* beats, reverts a silent guest to its baseline through ESXi, puts the    *)
(* beat unit back into it, and only when it has seen every guest saves     *)
(* what it did.  A round may be killed, or end in an exception, before.    *)
(*                                                                         *)
(* Time is counted in ticks, and a point of time is kept as its age, up to *)
(* the age from which on nobody can tell it from an older one.  A decision *)
(* and the revert it leads to are within one tick; a re-arm need not be.   *)
(***************************************************************************)
EXTENDS Naturals, Sequences

CONSTANTS
    Guests,         \* the names of the guests: numbers, for the rounds sort them
    STALE_AGE,      \* STALE_SEC: a beat of a greater age is red
    STALE_ROUNDS,   \* polls without a beat that trigger a revert
    REVERT_BUDGET,  \* reverts of a guest per WINDOW
    KEPT_REVERTS,   \* how many reverts of a guest the file keeps: the last 10
    WINDOW,         \* 24 hours
    COOLDOWN,       \* COOLDOWN_SEC
    MaxBackoff,     \* the longest silence after failed probes
    MaxLost         \* bound: rounds lost within a window

ASSUME RefereeAssumption ==
    /\ Guests \subseteq Nat
    /\ STALE_AGE \in Nat /\ STALE_ROUNDS \in Nat \ {0}
    /\ REVERT_BUDGET \in Nat \ {0} /\ KEPT_REVERTS \in Nat \ {0}
    /\ WINDOW \in Nat /\ COOLDOWN \in 1..WINDOW
    /\ MaxBackoff \in Nat \ {0} /\ MaxLost \in Nat

BeatAges == 0..(STALE_AGE + 1)
NoBeat   == STALE_AGE + 2         \* there is no beat file
Ages     == 0..WINDOW

\* What the state file says of a guest; an age above COOLDOWN: no last action.
Entries == [stale : Nat, reverts : Seq(Ages), action : 0..(COOLDOWN + 1)]

VARIABLES
    guest,        \* beating, hung, or booted from the baseline without a beat unit
    beatAge,      \* the age of the guest's beat file
    saved,        \* the state file
    mem,          \* the state of the round under way
    at,           \* what the round does next
    todo,         \* the guests it has still to look at
    dryRun,       \* it was started with --dry-run
    failStreak,   \* probes that failed in a row
    backoff,      \* the time left until the next probe
    reverted,     \* history: the ages of the reverts of each guest
    lost          \* history: the ages of the rounds that did not save

round       == <<mem, at, todo, dryRun>>
probing     == <<failStreak, backoff>>
happened    == <<reverted, lost>>
refereeVars == <<guest, beatAge, saved, round, probing, happened>>

RefereeTypeOK ==
    /\ guest \in [Guests -> {"beating", "hung", "unarmed"}]
    /\ beatAge \in [Guests -> BeatAges \cup {NoBeat}]
    /\ saved \in [Guests -> Entries] /\ mem \in [Guests -> Entries]
    /\ at \in {"idle", "visit", "revert", "rearm"}
    /\ todo \subseteq Guests
    /\ dryRun \in BOOLEAN
    /\ failStreak \in 0..(MaxBackoff + 1) /\ backoff \in 0..MaxBackoff
    /\ reverted \in [Guests -> Seq(Ages)] /\ lost \in Seq(Ages)

Fresh == [stale |-> 0, reverts |-> <<>>, action |-> COOLDOWN + 1]
Untroubled == [g \in Guests |-> Fresh]

-----------------------------------------------------------------------------
(* The guests, and time.                                                    *)

\* The receiver writes the beat file anew.
Beat(g) ==
    /\ guest[g] = "beating"
    /\ beatAge' = [beatAge EXCEPT ![g] = 0]
    /\ UNCHANGED <<guest, saved, round, probing, happened>>

Hang(g) ==
    /\ guest[g] = "beating"
    /\ guest' = [guest EXCEPT ![g] = "hung"]
    /\ UNCHANGED <<beatAge, saved, round, probing, happened>>

\* The first tier, or somebody by hand, repairs it.
Repair(g) ==
    /\ guest[g] # "beating"
    /\ guest' = [guest EXCEPT ![g] = "beating"]
    /\ UNCHANGED <<beatAge, saved, round, probing, happened>>

Least(a, b) == IF a < b THEN a ELSE b

\* How many entries of a list, which has the oldest first, are of an age up to a.
Recent(ages, a) ==
    CHOOSE n \in 0..Len(ages) : \A i \in DOMAIN ages : ages[i] <= a <=> i > Len(ages) - n

\* A tick later; what leaves the window is dropped.
Older(ages) ==
    LET kept == Recent(ages, WINDOW - 1)
    IN  [i \in 1..kept |-> ages[Len(ages) - kept + i] + 1]
Aged(e) == [e EXCEPT !.reverts = Older(@), !.action = Least(@ + 1, COOLDOWN + 1)]

Pass ==
    /\ at # "revert"
    /\ beatAge' = [g \in Guests |-> IF beatAge[g] = NoBeat THEN NoBeat
                                    ELSE Least(beatAge[g] + 1, STALE_AGE + 1)]
    /\ saved' = [g \in Guests |-> Aged(saved[g])]
    /\ mem' = [g \in Guests |-> Aged(mem[g])]
    /\ backoff' = IF backoff = 0 THEN 0 ELSE backoff - 1
    /\ reverted' = [g \in Guests |-> Older(reverted[g])]
    /\ lost' = Older(lost)
    /\ UNCHANGED <<guest, at, todo, dryRun, failStreak>>

-----------------------------------------------------------------------------
(* main: one round at a time, by the lock; a round that finds it taken, or  *)
(* that starts in the time after a failed probe, ends without a trace.      *)

Monitored == {g \in Guests : beatAge[g] # NoBeat}
First     == CHOOSE g \in todo : \A h \in todo : g <= h    \* sorted(glob)

Backoff(streak) == Least(2 ^ (streak - 1), MaxBackoff)

ProbeFails ==
    /\ at = "idle"
    /\ backoff = 0
    /\ failStreak' = Least(failStreak + 1, MaxBackoff + 1)
    /\ backoff' = Backoff(failStreak')
    /\ UNCHANGED <<guest, beatAge, saved, round, happened>>

RoundStarts ==
    /\ at = "idle"
    /\ backoff = 0
    /\ at' = "visit"
    /\ todo' = Monitored
    /\ mem' = saved
    /\ dryRun' \in BOOLEAN
    /\ UNCHANGED <<guest, beatAge, saved, probing, happened>>

\* decide: the guards come in this order.
Decide(e, age) ==
    IF age <= STALE_AGE THEN "ok"
    ELSE IF e.stale + 1 < STALE_ROUNDS THEN "stale"
    ELSE IF e.action < COOLDOWN THEN "refused-cooldown"
    ELSE IF Len(e.reverts) >= REVERT_BUDGET THEN "refused-budget"
    ELSE "trigger"

\* The count of polls without a beat: 0 also where a revert is decided.
StalePolls(e, decision) == IF decision \in {"ok", "trigger"} THEN 0 ELSE e.stale + 1

Noted(g, decision) == [mem EXCEPT ![g].stale = Least(StalePolls(mem[g], decision), STALE_ROUNDS)]

\* process_vm, up to the revert.  A snapshot count other than one, or an ESXi that
\* does not say, refuses it; a dry run stops short of it.
Judge ==
    /\ at = "visit"
    /\ todo # {}
    /\ LET g == First
           decision == Decide(mem[g], beatAge[g])
       IN  /\ mem' = Noted(g, decision)
           /\ \/ at' = "visit" /\ todo' = todo \ {First}
              \/ decision = "trigger" /\ ~dryRun /\ at' = "revert" /\ todo' = todo
           /\ UNCHANGED <<guest, beatAge, saved, dryRun, probing, happened>>

\* A beat without a vmid in the inventory is not looked at.
Unmapped ==
    /\ at = "visit"
    /\ todo # {}
    /\ todo' = todo \ {First}
    /\ UNCHANGED <<guest, beatAge, saved, mem, at, dryRun, probing, happened>>

LastReverts(ages) ==
    SubSeq(ages, IF Len(ages) > KEPT_REVERTS THEN Len(ages) - KEPT_REVERTS + 1 ELSE 1, Len(ages))
Counted(g) == [mem EXCEPT ![g].reverts = LastReverts(Append(@, 0)), ![g].action = 0]

\* Variant: where ESXi reports failure, it is asked again at once.
Revert_Again ==
    /\ at = "revert"
    /\ LET g == First
       IN  /\ reverted' = [reverted EXCEPT ![g] = Append(@, 0)]
           /\ \/ at' = "rearm" /\ mem' = Counted(g) /\ guest' = [guest EXCEPT ![g] = "unarmed"]
              \/ at' = "revert" /\ mem' = mem
                   /\ guest' \in {guest, [guest EXCEPT ![g] = "unarmed"]}
           /\ UNCHANGED <<todo, beatAge, saved, dryRun, probing, lost>>

\* recover_vm.  Whether ESXi reports success or not, the revert counts.
Revert ==
    /\ at = "revert"
    /\ LET g == First
       IN  /\ mem' = Counted(g)
           /\ reverted' = [reverted EXCEPT ![g] = Append(@, 0)]
           /\ \/ at' = "rearm" /\ todo' = todo /\ guest' = [guest EXCEPT ![g] = "unarmed"]
              \/ at' = "visit" /\ todo' = todo \ {First}
                   /\ guest' \in {guest, [guest EXCEPT ![g] = "unarmed"]}
           /\ UNCHANGED <<beatAge, saved, dryRun, probing, lost>>

\* rearm_guest: put the beat unit back, or give the guest up after the last try.
Rearm ==
    /\ at = "rearm"
    /\ at' = "visit"
    /\ todo' = todo \ {First}
    /\ guest' \in {guest, [guest EXCEPT ![First] = "beating"]}
    /\ UNCHANGED <<beatAge, saved, mem, dryRun, probing, happened>>

RoundOver ==
    /\ at' = "idle"
    /\ todo' = {}
    /\ mem' = Untroubled
    /\ dryRun' = FALSE

SaveRound ==
    /\ at = "visit"
    /\ todo = {}
    /\ saved' = mem
    /\ failStreak' = 0
    /\ RoundOver
    /\ UNCHANGED <<guest, beatAge, backoff, happened>>

\* Killed, perhaps with the revert on its way; or the re-arm throws, where sshpass
\* or the password file is missing.
LoseRound ==
    /\ at # "idle"
    /\ Len(lost) < MaxLost
    /\ lost' = Append(lost, 0)
    /\ RoundOver
    /\ \/ UNCHANGED <<guest, reverted>>
       \/ /\ at = "revert"
          /\ guest' = [guest EXCEPT ![First] = "unarmed"]
          /\ reverted' = [reverted EXCEPT ![First] = Append(@, 0)]
    /\ UNCHANGED <<beatAge, saved, probing>>

RefereeInit ==
    /\ guest = [g \in Guests |-> "beating"]
    /\ beatAge = [g \in Guests |-> NoBeat]
    /\ saved = Untroubled /\ mem = Untroubled
    /\ at = "idle" /\ todo = {} /\ dryRun = FALSE
    /\ failStreak = 0 /\ backoff = 0
    /\ reverted = [g \in Guests |-> <<>>] /\ lost = <<>>

RefereeNext ==
    \/ \E g \in Guests : Beat(g) \/ Hang(g) \/ Repair(g)
    \/ Pass \/ ProbeFails \/ RoundStarts \/ Judge \/ Unmapped \/ Revert \/ Rearm
    \/ SaveRound \/ LoseRound

RefereeSpec == RefereeInit /\ [][RefereeNext]_refereeVars

-----------------------------------------------------------------------------
(* The hard guard rails of the module's head, 3 (at most REVERT_BUDGET      *)
(* reverts of a guest in any WINDOW) and 4 (none before the COOLDOWN is     *)
(* over), for the farm itself and not for the file that counts: a round     *)
(* that is lost before it saves makes room for one more, and no other.  A   *)
(* budget above what the file keeps of the reverts is none.                 *)
RevertsRationed ==
    REVERT_BUDGET <= KEPT_REVERTS => \A g \in Guests :
        /\ Len(reverted[g]) <= REVERT_BUDGET + Len(lost)
        /\ lost = <<>> => \A i, j \in DOMAIN reverted[g] :
                             i < j => reverted[g][i] - reverted[g][j] >= COOLDOWN
=============================================================================
