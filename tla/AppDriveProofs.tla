---------------------------- MODULE AppDriveProofs ----------------------------
(***************************************************************************)
(* Proofs about AppDrive, for every set of pids and images and every       *)
(* number of processes.                                                    *)
(***************************************************************************)
EXTENDS AppDrive, TLAPS

Terminating == pc \in Terminations

\* From the moment launch stops looking at the state file until it has ended.
Launching ==
    \/ pc \in {"spawn", "probe", "record", "claim", "page", "abort", "keep"}
    \/ Terminating /\ why = "abort"

\* The pids of the apps somebody has to answer for.
Apps == {n \in Pids : Exists(n) /\ proc[n].token \in launched \ excused}

Names(s, n) == s # NoState /\ s.pid = n /\ s.token \in {0, proc[n].token}

\* No process has a token that is still to be given out; an app can be inspected.
TokensBorn ==
    /\ launched \subseteq 1..born
    /\ \A n \in Pids : Exists(n) =>
          /\ proc[n].token \in 1..born
          /\ proc[n].token \in launched => ~ proc[n].hidden

\* What the child, the state that was built and the target are at each place.
Roles ==
    /\ child # 0 => Launching /\ pc # "spawn"
    /\ pc \in {"probe", "record", "claim", "page", "keep"} => child # 0
    /\ mine # NoState => /\ mine.token # 0 /\ mine.pid = child
                         /\ Exists(child) => proc[child].token = mine.token
    /\ pc \in {"claim", "page"} => file = mine
    /\ Terminating /\ why = "abort" => target = mine /\ mine # NoState
    /\ Terminating /\ why # "abort" => target = file /\ file # NoState
    /\ pc = "probe" => mine = NoState

\* While a launch is under way its child is the only app; else the state names them all.
AppsKnown == IF Launching THEN Apps \subseteq {child} ELSE \A n \in Apps : Names(file, n)

Base == TypeOK /\ TokensBorn /\ Roles

Inv == Base /\ AppsKnown

-----------------------------------------------------------------------------
(* Values *)

LEMMA NoneIsNone ==
    /\ \A p \in Processes : p # NoProc
    /\ \A s \in States : s # NoState
  BY AppDriveAssumption

LEMMA ProcessFields ==
    ASSUME TypeOK, NEW n \in Pids, Exists(n)
    PROVE  /\ proc[n] \in Processes
           /\ proc[n].image \in Images /\ proc[n].token \in Tokens /\ proc[n].hidden \in BOOLEAN
           /\ proc[n].token # 0 /\ n # 0
  BY AppDriveAssumption DEF TypeOK, Exists, Processes, Tokens

LEMMA StateFields ==
    ASSUME NEW s \in States \cup {NoState}, s # NoState
    PROVE  /\ s \in States
           /\ s.pid \in Pids /\ s.image \in Images /\ s.token \in {0} \cup Tokens
           /\ s.pid # 0
  BY AppDriveAssumption DEF States

\* The tables the environment and a kill leave.
LEMMA ProcType ==
    ASSUME TypeOK
    PROVE  /\ \A n \in Pids : [proc EXCEPT ![n] = NoProc] \in [Pids -> Processes \cup {NoProc}]
           /\ \A n \in Pids, x \in Images, h \in BOOLEAN : NewProcess(n, x, h) =>
                 /\ proc' \in [Pids -> Processes \cup {NoProc}]
                 /\ born' \in 0..MaxBorn /\ born' = born + 1
                 /\ proc'[n] = [image |-> x, token |-> born + 1, hidden |-> h]
                 /\ proc'[n] # NoProc
                 /\ \A m \in Pids \ {n} : proc'[m] = proc[m]
<1>1. \A n \in Pids : [proc EXCEPT ![n] = NoProc] \in [Pids -> Processes \cup {NoProc}]
  BY DEF TypeOK
<1>2. ASSUME NEW n \in Pids, NEW x \in Images, NEW h \in BOOLEAN, NewProcess(n, x, h)
      PROVE  /\ proc' \in [Pids -> Processes \cup {NoProc}]
             /\ born' \in 0..MaxBorn /\ born' = born + 1
             /\ proc'[n] = [image |-> x, token |-> born + 1, hidden |-> h]
             /\ proc'[n] # NoProc
             /\ \A m \in Pids \ {n} : proc'[m] = proc[m]
  <2>1. born' = born + 1 /\ born' \in 0..MaxBorn /\ born' \in Tokens
    BY <1>2, AppDriveAssumption DEF NewProcess, TypeOK, Tokens
  <2>2. [image |-> x, token |-> born', hidden |-> h] \in Processes
    BY <2>1 DEF Processes
  <2>3. proc' = [proc EXCEPT ![n] = [image |-> x, token |-> born', hidden |-> h]]
    BY <1>2 DEF NewProcess
  <2>4. QED
    BY <2>1, <2>2, <2>3, NoneIsNone DEF TypeOK
<1>3. QED
  BY <1>1, <1>2

-----------------------------------------------------------------------------
(* How processes and the history change *)

\* Whatever the step, a process that runs was running, unless it is the one that was
\* started, with a new token; it is an app only if launch started it.
LEMMA Processes_Step ==
    ASSUME Base, [Next]_vars
    PROVE  \/ /\ proc' \in [Pids -> Processes \cup {NoProc}] /\ born' = born /\ launched' = launched
              /\ \A n \in Pids : proc'[n] \in {proc[n], NoProc}
           \/ \E n \in Pids, x \in Images, h \in BOOLEAN :
                 /\ NewProcess(n, x, h)
                 /\ \/ launched' = launched
                    \/ Spawn(n) /\ ~ h /\ launched' = launched \cup {born'}
<1> USE DEF Base, environment, history, command
<1>1. CASE Termination
  <2>1. CASE Kill
    <3>1. target.pid \in Pids
      BY <2>1, StateFields DEF Kill, TypeOK, HasIdentity, Roles, Terminating, Terminations
    <3>2. proc' = proc \/ proc' = [proc EXCEPT ![target.pid] = NoProc]
      BY <2>1 DEF Kill
    <3>3. QED
      BY <2>1, <3>1, <3>2, ProcType DEF Kill, TypeOK
  <2>2. CASE AlreadyGone \/ Ask \/ Refuse \/ Send \/ Exited \/ Recheck \/ RefuseKill \/ CloseFailed
    BY <2>2 DEF AlreadyGone, Ask, Refuse, Send, Exited, Recheck, Look, RefuseKill, CloseFailed,
       Succeed, Fail, TypeOK
  <2>3. QED
    BY <1>1, <2>1, <2>2 DEF Termination
<1>2. CASE Abort
  BY <1>2 DEF Abort, AbortDead, AbortTerminate, AbortRefuse, Keep, KeepFails, TypeOK
<1>3. CASE ReadIdentity \/ WriteState \/ ClaimPort \/ LaunchDone \/ LaunchFails \/ AcquireFails
  BY <1>3 DEF ReadIdentity, WriteState, ClaimPort, LaunchDone, LaunchFails, AcquireFails, TypeOK
<1>4. ASSUME NEW n \in Pids, Spawn(n) PROVE
         NewProcess(n, want, FALSE) /\ want \in Images /\ launched' = launched \cup {born'}
  BY <1>4 DEF Spawn, TypeOK
<1>5. CASE User
  BY <1>5 DEF User, Close, CloseForce, Discard, Launch, Replace, TypeOK
<1>6. ASSUME NEW n \in Pids, Die(n) PROVE
         /\ proc' \in [Pids -> Processes \cup {NoProc}] /\ born' = born /\ launched' = launched
         /\ \A m \in Pids : proc'[m] \in {proc[m], NoProc}
  BY <1>6, ProcType DEF Die, TypeOK
<1>7. ASSUME NEW n \in Pids, NEW x \in Images, NEW h \in BOOLEAN, OtherStarts(n, x, h)
      PROVE  NewProcess(n, x, h) /\ launched' = launched
  BY <1>7 DEF OtherStarts
<1>8. CASE Crash \/ UNCHANGED vars
  BY <1>8 DEF Crash, vars, TypeOK
<1>9. QED
  BY <1>1, <1>2, <1>3, <1>4, <1>5, <1>6, <1>7, <1>8 DEF Next, Command, Environment

-----------------------------------------------------------------------------
(* TypeOK *)

LEMMA DoneType ==
    ASSUME TypeOK, Done
    PROVE  /\ pc' = "idle" /\ child' = 0 /\ mine' = NoState /\ target' = NoState
           /\ child' \in {0} \cup Pids /\ mine' \in States \cup {NoState}
           /\ target' \in States \cup {NoState}
  BY DEF Done, Goto, TypeOK

LEMMA TypeStep ==
    ASSUME Base, [Next]_vars
    PROVE  TypeOK'
<1> USE DEF Base, environment, history, command, Goto
<1>0. /\ proc' \in [Pids -> Processes \cup {NoProc}]
      /\ born' \in 0..MaxBorn
      /\ launched' \subseteq Tokens
  <2>1. CASE /\ proc' \in [Pids -> Processes \cup {NoProc}]
             /\ born' = born /\ launched' = launched
    BY <2>1 DEF TypeOK
  <2>2. ASSUME NEW n \in Pids, NEW x \in Images, NEW h \in BOOLEAN, NewProcess(n, x, h),
               launched' = launched \/ launched' = launched \cup {born'}
        PROVE  /\ proc' \in [Pids -> Processes \cup {NoProc}]
               /\ born' \in 0..MaxBorn
               /\ launched' \subseteq Tokens
    <3>1. /\ proc' \in [Pids -> Processes \cup {NoProc}]
          /\ born' \in 0..MaxBorn /\ born' = born + 1
      <4> HIDE DEF Base, environment, history, command
      <4>1. TypeOK
        BY DEF Base
      <4>2. QED
        BY <2>2, <4>1, ProcType
    <3>2. born' \in Tokens
      BY <3>1, AppDriveAssumption DEF TypeOK, Tokens
    <3>3. QED
      BY <2>2, <3>1, <3>2 DEF TypeOK
  <2>3. QED
    BY <2>1, <2>2, Processes_Step
<1>1. excused' \subseteq Tokens /\ strayed' \in BOOLEAN
  <2>1. CASE Termination
    <3>1. excused' = excused
      BY <2>1 DEF Termination, Ask, Refuse, AlreadyGone, Send, Exited, Recheck,
         RefuseKill, Kill, CloseFailed, Look,
         Succeed, Fail
    <3>2. strayed' \in BOOLEAN
      BY <2>1 DEF Termination, Ask, Refuse, AlreadyGone, Send, Exited, Recheck,
         RefuseKill, Kill, CloseFailed, Look,
         Succeed, Fail, Signalled, TypeOK
    <3>3. QED
      BY <3>1, <3>2 DEF TypeOK
  <2>2. CASE Abort
    <3>1. CASE KeepFails
      <4>1. child # 0 /\ child \in Pids
        BY <3>1 DEF KeepFails, Roles, TypeOK
      <4>2. QED
        BY <3>1, <4>1, ProcessFields DEF KeepFails, TypeOK
    <3>2. CASE AbortDead \/ AbortTerminate \/ AbortRefuse \/ Keep
      BY <3>2 DEF AbortDead, AbortTerminate, AbortRefuse, Keep, TypeOK
    <3>3. QED
      BY <2>2, <3>1, <3>2 DEF Abort
  <2>3. CASE ReadIdentity \/ WriteState \/ ClaimPort \/ LaunchDone \/ LaunchFails
               \/ AcquireFails \/ \E n \in Pids : Spawn(n)
    BY <2>3 DEF ReadIdentity, WriteState, ClaimPort, LaunchDone, LaunchFails, AcquireFails,
       Spawn, TypeOK
  <2>4. CASE User
    <3>1. CASE Discard
      <4>1. file.pid \in Pids
        BY <3>1, StateFields DEF Discard, TypeOK
      <4>2. QED
        BY <3>1, <4>1, ProcessFields DEF Discard, GiveUp, TypeOK
    <3>2. CASE Close \/ CloseForce \/ \E x \in Images : Launch(x) \/ Replace(x)
      BY <3>2 DEF Close, CloseForce, Launch, Replace, TypeOK
    <3>3. QED
      BY <2>4, <3>1, <3>2 DEF User
  <2>5. CASE Environment
    BY <2>5 DEF Environment, Die, OtherStarts, TypeOK
  <2>6. CASE Crash
    <3>1. CASE child # 0 /\ Exists(child) /\ (mine = NoState \/ file # mine)
      <4>1. child \in Pids /\ proc[child].token \in Tokens
        BY <3>1, ProcessFields DEF TypeOK
      <4>2. QED
        BY <2>6, <3>1, <4>1 DEF Crash, TypeOK
    <3>2. CASE ~ (child # 0 /\ Exists(child) /\ (mine = NoState \/ file # mine))
      BY <2>6, <3>2 DEF Crash, TypeOK
    <3>3. QED
      BY <3>1, <3>2
  <2>7. CASE UNCHANGED vars
    BY <2>7 DEF vars, TypeOK
  <2>8. QED
    BY <2>1, <2>2, <2>3, <2>4, <2>5, <2>6, <2>7 DEF Next, Command
<1>2. /\ file' \in States \cup {NoState}
      /\ pc' \in Terminations \cup
                 {"idle", "spawn", "probe", "record", "claim", "page", "abort", "keep"}
      /\ why' \in {"close", "force", "replace", "abort"}
      /\ target' \in States \cup {NoState}
      /\ want' \in Images
      /\ child' \in {0} \cup Pids
      /\ mine' \in States \cup {NoState}
      /\ pc' \in Terminations => HasIdentity(target)' \/ why' \in {"close", "force"}
      /\ pc' \in {"record", "claim", "page"} => HasIdentity(mine)' /\ child' = mine'.pid
  <2> USE DEF HasIdentity, Terminations
  <2>1. CASE Termination
    <3>1. CASE AlreadyGone \/ Exited
      <4>1. Succeed
        BY <3>1 DEF AlreadyGone, Exited
      <4>2. QED
        BY <4>1, DoneType DEF Succeed, RemoveState, TypeOK
    <3>2. CASE Refuse \/ RefuseKill \/ CloseFailed
      <4>1. Fail
        BY <3>2 DEF Refuse, RefuseKill, CloseFailed
      <4>2. QED
        BY <4>1, DoneType DEF Fail, TypeOK
    <3>3. CASE Ask \/ Recheck
      BY <3>3 DEF Ask, Recheck, Look, TypeOK
    <3>4. CASE Send \/ Kill
      BY <3>4 DEF Send, Kill, TypeOK
    <3>5. QED
      BY <2>1, <3>1, <3>2, <3>3, <3>4 DEF Termination
  <2>2. CASE Abort
    <3>1. CASE AbortDead
      BY <3>1, DoneType DEF AbortDead, RemoveState, TypeOK
    <3>2. CASE AbortTerminate
      BY <3>2 DEF AbortTerminate, Terminate, TypeOK
    <3>3. CASE AbortRefuse
      BY <3>3 DEF AbortRefuse, TypeOK
    <3>4. CASE Keep
      BY <3>4, DoneType DEF Keep, TypeOK
    <3>5. CASE KeepFails
      BY <3>5, DoneType DEF KeepFails, TypeOK
    <3>6. QED
      BY <2>2, <3>1, <3>2, <3>3, <3>4, <3>5 DEF Abort
  <2>3. CASE ReadIdentity
    <3>1. child # 0 /\ child \in Pids /\ Exists(child)
      BY <2>3 DEF ReadIdentity, ChildExited, Roles, TypeOK, Exists
    <3>2. proc[child].token \in Tokens /\ proc[child].token # 0
      BY <3>1, ProcessFields
    <3>3. mine' \in States /\ mine'.token # 0 /\ mine'.pid = child
      BY <2>3, <3>1, <3>2 DEF ReadIdentity, States, TypeOK
    <3>4. QED
      BY <2>3, <3>3, NoneIsNone DEF ReadIdentity, TypeOK
  <2>4. CASE WriteState
    BY <2>4 DEF WriteState, TypeOK
  <2>5. CASE ClaimPort \/ LaunchFails
    BY <2>5 DEF ClaimPort, LaunchFails, TypeOK
  <2>6. CASE LaunchDone \/ AcquireFails \/ Crash
    BY <2>6, DoneType DEF LaunchDone, AcquireFails, Crash, TypeOK
  <2>7. CASE \E n \in Pids : Spawn(n)
    BY <2>7 DEF Spawn, TypeOK
  <2>8. CASE User
    <3>1. CASE Close \/ CloseForce
      BY <3>1 DEF Close, CloseForce, Terminate, TypeOK
    <3>2. CASE Discard
      BY <3>2 DEF Discard, RemoveState, TypeOK
    <3>3. CASE \E x \in Images : Launch(x) \/ Replace(x)
      BY <3>3 DEF Launch, Replace, Terminate, TypeOK
    <3>4. QED
      BY <2>8, <3>1, <3>2, <3>3 DEF User
  <2>9. CASE Environment
    BY <2>9 DEF Environment, Die, OtherStarts, TypeOK
  <2>10. CASE UNCHANGED vars
    BY <2>10 DEF vars, TypeOK
  <2>11. QED
    BY <2>1, <2>2, <2>3, <2>4, <2>5, <2>6, <2>7, <2>8, <2>9, <2>10 DEF Next, Command
<1>3. seen' \in 0..born'
  <2>1. born \in Nat /\ (born' = born \/ born' = born + 1)
    <3>1. born \in Nat
      BY AppDriveAssumption DEF TypeOK
    <3>2. \A n \in Pids, x \in Images, h \in BOOLEAN : NewProcess(n, x, h) => born' = born + 1
      BY DEF NewProcess
    <3>3. QED
      BY <3>1, <3>2, Processes_Step
  <2>2. seen' = seen \/ seen' = born
    <3>1. CASE Termination
      BY <3>1 DEF Termination, Ask, Refuse, AlreadyGone, Send, Exited, Recheck, RefuseKill, Kill,
         CloseFailed, Look, Succeed, Fail
    <3>2. CASE Abort
      BY <3>2 DEF Abort, AbortDead, AbortTerminate, AbortRefuse, Keep, KeepFails
    <3>3. CASE ReadIdentity \/ WriteState \/ ClaimPort \/ LaunchDone \/ LaunchFails
                 \/ AcquireFails \/ \E n \in Pids : Spawn(n)
      BY <3>3 DEF ReadIdentity, WriteState, ClaimPort, LaunchDone, LaunchFails, AcquireFails, Spawn
    <3>4. CASE User \/ Environment \/ Crash \/ UNCHANGED vars
      BY <3>4 DEF User, Close, CloseForce, Discard, Launch, Replace, Environment, Die,
         OtherStarts, Crash, vars
    <3>5. QED
      BY <3>1, <3>2, <3>3, <3>4 DEF Next, Command
  <2>3. QED
    BY <2>1, <2>2 DEF TypeOK
<1>4. QED
  BY <1>0, <1>1, <1>2, <1>3 DEF TypeOK

-----------------------------------------------------------------------------
(* TokensBorn *)

LEMMA BornStep ==
    ASSUME Base, [Next]_vars
    PROVE  TokensBorn'
<1>0. TypeOK /\ TokensBorn /\ born \in Nat
  BY AppDriveAssumption DEF Base, TypeOK
<1>1. CASE /\ born' = born /\ launched' = launched
           /\ \A n \in Pids : proc'[n] \in {proc[n], NoProc}
  BY <1>0, <1>1 DEF TokensBorn, Exists
<1>2. ASSUME NEW n \in Pids, NEW x \in Images, NEW h \in BOOLEAN, NewProcess(n, x, h),
             launched' = launched \/ (~ h /\ launched' = launched \cup {born'})
      PROVE  TokensBorn'
  <2>1. /\ born' = born + 1
        /\ proc'[n] = [image |-> x, token |-> born + 1, hidden |-> h]
        /\ \A m \in Pids \ {n} : proc'[m] = proc[m]
    BY <1>0, <1>2, ProcType
  <2>2. launched' \subseteq 1..born'
    <3>1. 1..born \subseteq 1..born' /\ born' \in 1..born'
      BY <1>0, <2>1
    <3>2. launched \subseteq 1..born
      BY <1>0 DEF TokensBorn
    <3>3. QED
      BY <1>2, <3>1, <3>2
  <2>3. ASSUME NEW m \in Pids, Exists(m)'
        PROVE  proc'[m].token \in 1..born' /\ (proc'[m].token \in launched' => ~ proc'[m].hidden)
    <3>1. CASE m = n
      <4>1. proc'[m].token = born + 1 /\ proc'[m].hidden = h /\ born + 1 \notin launched
        BY <1>0, <2>1, <3>1 DEF TokensBorn
      <4>2. QED
        BY <1>0, <1>2, <2>1, <4>1
    <3>2. CASE m # n
      <4>1. proc'[m] = proc[m] /\ Exists(m)
        BY <2>1, <2>3, <3>2 DEF Exists
      <4>2. proc[m].token \in 1..born /\ (proc[m].token \in launched => ~ proc[m].hidden)
        BY <1>0, <4>1 DEF TokensBorn
      <4>3. QED
        BY <1>0, <1>2, <2>1, <4>1, <4>2
    <3>3. QED
      BY <3>1, <3>2
  <2>4. QED
    BY <2>2, <2>3 DEF TokensBorn
<1>3. QED
  BY <1>1, <1>2, Processes_Step

-----------------------------------------------------------------------------
(* Roles *)

\* The pid of a child is given to no other process.
LEMMA ChildStays ==
    ASSUME Base, [Next]_vars, child # 0
    PROVE  child \in Pids /\ proc'[child] \in {proc[child], NoProc}
<1>1. TypeOK /\ child \in Pids
  BY DEF Base, TypeOK
<1>2. ASSUME NEW n \in Pids, NEW x \in Images, NEW h \in BOOLEAN, NewProcess(n, x, h)
      PROVE  proc'[child] = proc[child]
  <2>1. n # child
    BY <1>2 DEF NewProcess
  <2>2. QED
    BY <1>1, <1>2, <2>1, ProcType
<1>3. QED
  BY <1>1, <1>2, Processes_Step

\* A child, the state of one and the file go through a step that leaves them alone.
LEMMA RolesFrame ==
    ASSUME Base, [Next]_vars, UNCHANGED <<child, mine>>
    PROVE  mine' # NoState =>
              /\ mine'.token # 0 /\ mine'.pid = child'
              /\ Exists(child)' => proc'[child].token = mine'.token
<1> SUFFICES ASSUME mine # NoState
             PROVE  /\ mine.token # 0 /\ mine.pid = child
                    /\ Exists(child)' => proc'[child].token = mine.token
  OBVIOUS
<1>1. mine.pid = child /\ mine.token # 0 /\ child # 0
  BY StateFields DEF Base, Roles, TypeOK
<1>2. proc'[child] \in {proc[child], NoProc}
  BY <1>1, ChildStays
<1>3. QED
  BY <1>1, <1>2 DEF Base, Roles, Exists

LEMMA NoChildNoState ==
    ASSUME Base, child = 0
    PROVE  mine = NoState
<1>1. mine # NoState => mine.pid = 0 /\ mine.pid # 0
  BY StateFields DEF Base, Roles, TypeOK
<1>2. QED
  BY <1>1

LEMMA RolesStep ==
    ASSUME Base, [Next]_vars
    PROVE  Roles'
<1> USE DEF environment, history, command, Goto, Terminating, Launching, Terminations
<1>0. TypeOK /\ Roles
  BY DEF Base
<1>1. CASE Done
  BY <1>1 DEF Done, Roles
<1>2. CASE Termination
  <2>1. CASE Succeed
    <3>1. CASE why = "replace"
      <4>1. pc \in Terminations
        BY <1>2 DEF Termination, Ask, Refuse, AlreadyGone, Send, Exited, Recheck,
         RefuseKill, Kill, CloseFailed, Look
      <4>2. child = 0 /\ mine = NoState
        BY <1>0, <3>1, <4>1, NoChildNoState DEF Roles
      <4>3. pc' = "spawn" /\ child' = 0 /\ mine' = NoState
        BY <2>1, <3>1, <4>2 DEF Succeed
      <4>4. QED
        BY <4>3 DEF Roles
    <3>2. QED
      BY <1>1, <2>1, <3>1 DEF Succeed
  <2>2. CASE Fail
    <3>1. CASE why = "abort"
      <4>1. pc \in Terminations
        BY <1>2 DEF Termination, Ask, Refuse, AlreadyGone, Send, Exited, Recheck,
         RefuseKill, Kill, CloseFailed, Look
      <4>2. target = mine /\ mine # NoState /\ child # 0
        BY <1>0, <3>1, <4>1, NoChildNoState DEF Roles, Base
      <4>3. pc' = "keep" /\ UNCHANGED <<child, mine, file>>
        BY <2>2, <3>1 DEF Fail
      <4>4. QED
        BY <4>2, <4>3, RolesFrame DEF Roles
    <3>2. QED
      BY <1>1, <2>2, <3>1 DEF Fail
  <2>3. CASE Ask \/ Send \/ Recheck \/ Kill
    <3>1. /\ pc \in Terminations /\ pc' \in Terminations
          /\ UNCHANGED <<why, target, child, mine, file>>
      BY <2>3 DEF Ask, Send, Recheck, Look, Kill
    <3>2. QED
      BY <1>0, <3>1, RolesFrame DEF Roles
  <2>4. QED
    BY <1>2, <2>1, <2>2, <2>3 DEF Termination, AlreadyGone, Refuse, Exited, RefuseKill, CloseFailed
<1>3. CASE Abort
  <2>1. CASE AbortTerminate
    <3>1. /\ pc' = "ask" /\ why' = "abort" /\ target' = mine /\ mine # NoState
          /\ UNCHANGED <<child, mine, file>>
      BY <2>1 DEF AbortTerminate, Terminate, HasIdentity
    <3>2. QED
      BY <3>1, RolesFrame DEF Roles
  <2>2. CASE AbortRefuse
    <3>1. pc' = "keep" /\ child # 0 /\ UNCHANGED <<child, mine>>
      BY <2>2 DEF AbortRefuse, Dead
    <3>2. QED
      BY <3>1, RolesFrame DEF Roles
  <2>3. QED
    BY <1>1, <1>3, <2>1, <2>2 DEF Abort, AbortDead, Keep, KeepFails
<1>4. CASE ReadIdentity
  <2>1. child # 0 /\ child \in Pids /\ Exists(child)
    BY <1>0, <1>4 DEF ReadIdentity, ChildExited, Roles, TypeOK, Exists
  <2>2. proc[child].token # 0
    BY <1>0, <2>1, ProcessFields
  <2>3. pc' = "record" /\ child' = child /\ proc' = proc
        /\ mine'.pid = child /\ mine'.token = proc[child].token
    BY <1>4 DEF ReadIdentity
  <2>4. QED
    BY <2>1, <2>2, <2>3 DEF Roles
<1>5. CASE WriteState \/ ClaimPort
  <2>1. /\ pc' \in {"claim", "page"} /\ file' = mine /\ child # 0
        /\ UNCHANGED <<child, mine>>
    BY <1>0, <1>5 DEF WriteState, ClaimPort, Roles
  <2>2. QED
    BY <2>1, RolesFrame DEF Roles
<1>6. CASE LaunchFails
  <2>1. pc' = "abort" /\ UNCHANGED <<child, mine>>
    BY <1>6 DEF LaunchFails
  <2>2. QED
    BY <2>1, RolesFrame DEF Roles
<1>7. CASE LaunchDone \/ AcquireFails \/ Crash
  BY <1>1, <1>7 DEF LaunchDone, AcquireFails, Crash
<1>8. ASSUME NEW n \in Pids, Spawn(n) PROVE Roles'
  <2>1. child = 0 /\ mine = NoState /\ n # 0
    BY <1>0, <1>8, NoChildNoState, AppDriveAssumption DEF Roles, Spawn
  <2>2. pc' = "probe" /\ child' = n /\ mine' = NoState
    BY <1>8, <2>1 DEF Spawn
  <2>3. QED
    BY <2>1, <2>2 DEF Roles
<1>9. CASE User
  <2>1. pc = "idle" /\ child = 0 /\ mine = NoState /\ UNCHANGED <<child, mine>>
    BY <1>0, <1>9, NoChildNoState DEF User, Close, CloseForce, Discard, Launch, Replace, Roles
  <2>2. \/ pc' = "ask" /\ why' # "abort" /\ target' = file' /\ file' # NoState
        \/ pc' \in {"idle", "spawn"}
    BY <1>9, <2>1 DEF User, Close, CloseForce, Discard, Launch, Replace, Terminate, Blocks
  <2>3. QED
    BY <2>1, <2>2 DEF Roles
<1>10. CASE Environment \/ UNCHANGED vars
  <2>1. UNCHANGED <<pc, why, target, child, mine, file>>
    BY <1>10 DEF Environment, Die, OtherStarts, vars
  <2>2. QED
    BY <1>0, <2>1, RolesFrame DEF Roles
<1>11. QED
  BY <1>2, <1>3, <1>4, <1>5, <1>6, <1>7, <1>8, <1>9, <1>10 DEF Next, Command

-----------------------------------------------------------------------------
(* AppsKnown *)

LEMMA ExcusedGrows ==
    ASSUME [Next]_vars
    PROVE  excused \subseteq excused'
<1> USE DEF environment, history, command
<1>1. CASE Termination
  BY <1>1 DEF Termination, Ask, Refuse, AlreadyGone, Send, Exited, Recheck,
         RefuseKill, Kill, CloseFailed, Look,
     Succeed, Fail
<1>2. CASE Abort
  BY <1>2 DEF Abort, AbortDead, AbortTerminate, AbortRefuse, Keep, KeepFails
<1>3. CASE ReadIdentity \/ WriteState \/ ClaimPort \/ LaunchDone \/ LaunchFails
             \/ AcquireFails \/ \E n \in Pids : Spawn(n)
  BY <1>3 DEF ReadIdentity, WriteState, ClaimPort, LaunchDone, LaunchFails, AcquireFails, Spawn
<1>4. CASE User \/ Environment \/ Crash \/ UNCHANGED vars
  BY <1>4 DEF User, Close, CloseForce, Discard, GiveUp, Launch, Replace, Environment, Die,
     OtherStarts, Crash, vars
<1>5. QED
  BY <1>1, <1>2, <1>3, <1>4 DEF Next, Command

\* Only Spawn makes an app; an app that still runs is the process it was.
LEMMA AppsShrink ==
    ASSUME Base, [Next]_vars, \A n \in Pids : ~ Spawn(n)
    PROVE  /\ Apps' \subseteq Apps
           /\ \A n \in Apps' : proc'[n] = proc[n]
<1>0. TypeOK /\ TokensBorn /\ born \in Nat /\ excused \subseteq excused'
  BY AppDriveAssumption, ExcusedGrows DEF Base, TypeOK
<1>1. CASE /\ born' = born /\ launched' = launched
           /\ \A n \in Pids : proc'[n] \in {proc[n], NoProc}
  BY <1>0, <1>1 DEF Apps, Exists
<1>2. ASSUME NEW n \in Pids, NEW x \in Images, NEW h \in BOOLEAN, NewProcess(n, x, h),
             launched' = launched
      PROVE  /\ Apps' \subseteq Apps
             /\ \A m \in Apps' : proc'[m] = proc[m]
  <2>1. /\ proc'[n] = [image |-> x, token |-> born + 1, hidden |-> h]
        /\ \A m \in Pids \ {n} : proc'[m] = proc[m]
    BY <1>0, <1>2, ProcType
  <2>2. n \notin Apps'
    <3>1. proc'[n].token = born + 1 /\ born + 1 \notin launched
      BY <1>0, <2>1 DEF TokensBorn
    <3>2. QED
      BY <1>2, <3>1 DEF Apps
  <2>3. QED
    BY <1>0, <1>2, <2>1, <2>2 DEF Apps, Exists
<1>3. QED
  BY <1>1, <1>2, Processes_Step

\* A process that a wait finds gone was the only app there could be.
LEMMA GoneNoApp ==
    ASSUME Base, AppsKnown, Terminating, Gone
    PROVE  Apps = {}
<1>1. CASE why = "abort"
  <2>1. Apps \subseteq {child} /\ proc[child] = NoProc
    BY <1>1 DEF AppsKnown, Launching, Gone, ChildExited
  <2>2. QED
    BY <2>1 DEF Apps, Exists
<1>2. CASE why # "abort"
  <2>1. ~ Launching /\ target = file /\ ~ PidAlive(file.pid)
    BY <1>2 DEF Base, Roles, Launching, Terminating, Terminations, Gone
  <2>2. \A n \in Apps : n = file.pid /\ Exists(n) /\ ~ proc[n].hidden
    BY <2>1 DEF AppsKnown, Apps, Names, Base, TokensBorn
  <2>3. QED
    BY <2>1, <2>2 DEF PidAlive
<1>3. QED
  BY <1>1, <1>2

LEMMA DeadNoApp ==
    ASSUME Base, AppsKnown, Launching, Dead
    PROVE  Apps = {}
<1>1. Apps \subseteq {child}
  BY DEF AppsKnown
<1>2. child \in Apps => child # 0 /\ proc[child] # NoProc
  BY AppDriveAssumption DEF Apps, Exists
<1>3. QED
  BY <1>1, <1>2 DEF Dead, ChildExited

\* A step within a launch, or outside of one, that leaves the child and the file alone.
LEMMA AppsFrame ==
    ASSUME Base, AppsKnown, [Next]_vars, \A n \in Pids : ~ Spawn(n), Launching' <=> Launching,
           Launching => child' = child, ~ Launching => file' = file
    PROVE  AppsKnown'
<1>1. CASE Launching
  BY <1>1, AppsShrink DEF AppsKnown
<1>2. CASE ~ Launching
  <2>1. \A n \in Apps' : n \in Apps /\ proc'[n] = proc[n] /\ Names(file, n)
    BY <1>2, AppsShrink DEF AppsKnown
  <2>2. \A n \in Apps' : Names(file, n)'
    BY <1>2, <2>1 DEF Names
  <2>3. QED
    BY <1>2, <2>2 DEF AppsKnown
<1>3. QED
  BY <1>1, <1>2

LEMMA NoAppLeft ==
    ASSUME Apps' = {}
    PROVE  AppsKnown'
  BY DEF AppsKnown

LEMMA AppsStep ==
    ASSUME Inv, [Next]_vars
    PROVE  AppsKnown'
<1> USE DEF environment, history, command, Goto, Terminations
<1>0. Base /\ AppsKnown /\ TypeOK /\ TokensBorn /\ Roles
  BY DEF Inv, Base
<1>1. ASSUME NEW n \in Pids, Spawn(n) PROVE AppsKnown'
  <2>1. Launching' /\ child' = n
    BY <1>1 DEF Spawn, Launching
  <2>2. Apps = {}
    <3>1. Launching /\ child = 0
      BY <1>0, <1>1 DEF Spawn, Launching, Roles
    <3>2. QED
      BY <1>0, <3>1, DeadNoApp DEF Dead
  <2>3. /\ launched' = launched \cup {born + 1} /\ excused' = excused
        /\ \A m \in Pids \ {n} : proc'[m] = proc[m]
    <3>1. NewProcess(n, want, FALSE) /\ want \in Images
      BY <1>0, <1>1 DEF Spawn, TypeOK
    <3>2. born' = born + 1 /\ \A m \in Pids \ {n} : proc'[m] = proc[m]
      BY <1>0, <3>1, ProcType
    <3>3. QED
      BY <1>1, <3>2 DEF Spawn
  <2>4. \A m \in Apps' : m = n
    <3>1. SUFFICES ASSUME NEW m \in Pids, m # n, m \in Apps' PROVE FALSE
      BY DEF Apps
    <3>2. proc'[m] = proc[m] /\ Exists(m)
      BY <2>3, <3>1 DEF Apps, Exists
    <3>3. proc[m].token # born + 1
      BY <1>0, <3>2, AppDriveAssumption DEF TokensBorn, TypeOK
    <3>4. m \in Apps
      BY <2>3, <3>1, <3>2, <3>3 DEF Apps
    <3>5. QED
      BY <2>2, <3>4
  <2>5. QED
    BY <2>1, <2>4 DEF AppsKnown
<1>2. CASE \A n \in Pids : ~ Spawn(n)
  <2>0. Apps' \subseteq Apps /\ \A n \in Apps' : proc'[n] = proc[n]
    BY <1>0, <1>2, AppsShrink
  <2>1. CASE Termination
    <3>0. Terminating
      BY <2>1 DEF Termination, Ask, Refuse, AlreadyGone, Send, Exited, Recheck,
         RefuseKill, Kill, CloseFailed, Look,
         Terminating
    <3>1. CASE AlreadyGone \/ Exited
      <4>1. Apps = {}
        BY <1>0, <3>0, <3>1, GoneNoApp DEF AlreadyGone, Exited
      <4>2. QED
        BY <2>0, <4>1, NoAppLeft
    <3>2. CASE Refuse \/ RefuseKill \/ CloseFailed
      <4>1. Fail
        BY <3>2 DEF Refuse, RefuseKill, CloseFailed
      <4>2. Launching' <=> Launching
        BY <3>0, <4>1 DEF Fail, Done, Launching, Terminating
      <4>3. file' = file /\ (Launching => child' = child)
        BY <3>0, <4>1 DEF Fail, Launching, Terminating
      <4>4. QED
        BY <1>0, <1>2, <4>2, <4>3, AppsFrame
    <3>3. CASE Ask \/ Send \/ Recheck \/ Kill
      <4>1. (Launching' <=> Launching) /\ child' = child /\ file' = file
        BY <3>3 DEF Ask, Send, Recheck, Look, Kill, Launching, Terminating
      <4>2. QED
        BY <1>0, <1>2, <4>1, AppsFrame
    <3>4. QED
      BY <2>1, <3>1, <3>2, <3>3 DEF Termination
  <2>2. CASE Abort
    <3>0. Launching
      BY <2>2 DEF Abort, AbortDead, AbortTerminate, AbortRefuse, Keep, KeepFails, Launching
    <3>1. CASE AbortDead
      <4>1. Apps = {}
        BY <1>0, <3>0, <3>1, DeadNoApp DEF AbortDead
      <4>2. QED
        BY <2>0, <4>1, NoAppLeft
    <3>2. CASE AbortTerminate \/ AbortRefuse
      <4>1. Launching' /\ child' = child
        BY <3>2 DEF AbortTerminate, AbortRefuse, Terminate, Launching, Terminating
      <4>2. QED
        BY <1>0, <1>2, <3>0, <4>1, AppsFrame
    <3>3. CASE Keep
      <4>1. PICK s \in States : Kept(s) /\ file' = s
        BY <3>3 DEF Keep
      <4>2. s # NoState /\ s.pid = child
        BY <1>0, <4>1, NoneIsNone DEF Kept, Roles
      <4>3. Exists(child) => s.token \in {0, proc[child].token}
        BY <1>0, <4>1 DEF Kept, Roles
      <4>4. \A n \in Apps' : n = child /\ Exists(child) /\ proc'[n] = proc[n]
        BY <1>0, <2>0, <3>0 DEF AppsKnown, Apps
      <4>5. \A n \in Apps' : Names(file, n)'
        BY <4>1, <4>2, <4>3, <4>4 DEF Names
      <4>6. ~ Launching'
        BY <3>3 DEF Keep, Done, Launching, Terminating
      <4>7. QED
        BY <4>5, <4>6 DEF AppsKnown
    <3>4. CASE KeepFails
      <4>1. Exists(child) => proc[child].token \in excused'
        BY <3>4 DEF KeepFails
      <4>2. \A n \in Apps' : n = child /\ Exists(child) /\ proc'[n] = proc[n]
                              /\ proc'[n].token \notin excused'
        BY <1>0, <2>0, <3>0 DEF AppsKnown, Apps
      <4>3. Apps' = {}
        BY <4>1, <4>2
      <4>4. QED
        BY <4>3, NoAppLeft
    <3>5. QED
      BY <2>2, <3>1, <3>2, <3>3, <3>4 DEF Abort
  <2>3. CASE ReadIdentity \/ WriteState \/ ClaimPort \/ LaunchFails
    <3>1. Launching /\ Launching' /\ child' = child
      BY <2>3 DEF ReadIdentity, WriteState, ClaimPort, LaunchFails, Launching
    <3>2. QED
      BY <1>0, <1>2, <3>1, AppsFrame
  <2>4. CASE AcquireFails
    <3>1. Launching /\ child = 0
      BY <1>0, <2>4 DEF AcquireFails, Launching, Roles
    <3>2. QED
      BY <1>0, <2>0, <3>1, DeadNoApp, NoAppLeft DEF Dead
  <2>5. CASE LaunchDone
    <3>1. Launching /\ child # 0 /\ file = mine /\ file' = file /\ ~ Launching'
      BY <1>0, <2>5 DEF LaunchDone, Done, Launching, Terminating, Roles
    <3>2. mine # NoState /\ mine.pid = child /\ (Exists(child) => proc[child].token = mine.token)
      BY <1>0, <2>5 DEF LaunchDone, Roles, TypeOK, HasIdentity
    <3>3. \A n \in Apps' : n = child /\ Exists(child) /\ proc'[n] = proc[n]
      BY <1>0, <2>0, <3>1 DEF AppsKnown, Apps
    <3>4. \A n \in Apps' : Names(file, n)'
      BY <3>1, <3>2, <3>3 DEF Names
    <3>5. QED
      BY <3>1, <3>4 DEF AppsKnown
  <2>6. CASE User
    <3>1. CASE Close \/ CloseForce \/ \E x \in Images : Replace(x)
      <4>1. ~ Launching /\ ~ Launching' /\ file' = file
        BY <3>1 DEF Close, CloseForce, Replace, Terminate, Launching, Terminating
      <4>2. QED
        BY <1>0, <1>2, <4>1, AppsFrame
    <3>2. CASE Discard
      <4>1. ~ Launching
        BY <3>2 DEF Discard, Launching, Terminating
      <4>2. Exists(file.pid) => proc[file.pid].token \in excused'
        BY <3>2 DEF Discard, GiveUp
      <4>3. \A n \in Apps' : n = file.pid /\ Exists(n) /\ proc'[n] = proc[n]
                              /\ proc'[n].token \notin excused'
        BY <1>0, <2>0, <4>1 DEF AppsKnown, Apps, Names
      <4>4. Apps' = {}
        BY <4>2, <4>3
      <4>5. QED
        BY <4>4, NoAppLeft
    <3>3. ASSUME NEW x \in Images, Launch(x) PROVE AppsKnown'
      <4>1. ~ Launching /\ (file # NoState => ~ PidAlive(file.pid))
        BY <3>3 DEF Launch, Blocks, Launching, Terminating
      <4>2. \A n \in Apps : file # NoState /\ n = file.pid /\ PidAlive(n)
        BY <1>0, <4>1 DEF AppsKnown, Apps, Names, PidAlive, TokensBorn
      <4>3. Apps' = {}
        BY <2>0, <4>1, <4>2
      <4>4. QED
        BY <4>3, NoAppLeft
    <3>4. QED
      BY <2>6, <3>1, <3>2, <3>3 DEF User
  <2>7. CASE Environment \/ UNCHANGED vars
    <3>1. (Launching' <=> Launching) /\ child' = child /\ file' = file
      BY <2>7 DEF Environment, Die, OtherStarts, vars, Launching, Terminating
    <3>2. QED
      BY <1>0, <1>2, <3>1, AppsFrame
  <2>8. CASE Crash
    <3>0. ~ Launching' /\ file' = file
      BY <2>8 DEF Crash, Done, Launching, Terminating
    <3>1. CASE ~ Launching
      BY <1>0, <1>2, <3>0, <3>1, AppsFrame
    <3>2. CASE Launching
      <4>1. \A n \in Apps' : n = child /\ n # 0 /\ Exists(n) /\ proc'[n] = proc[n]
                              /\ proc'[n].token \notin excused'
        BY <1>0, <2>0, <3>2, AppDriveAssumption DEF AppsKnown, Apps
      <4>2. \A n \in Apps' : mine # NoState /\ file = mine
        BY <2>8, <4>1 DEF Crash
      <4>3. \A n \in Apps' : Names(file, n)'
        BY <1>0, <3>0, <4>1, <4>2 DEF Names, Roles
      <4>4. QED
        BY <3>0, <4>3 DEF AppsKnown
    <3>3. QED
      BY <3>1, <3>2
  <2>9. QED
    BY <1>2, <2>1, <2>2, <2>3, <2>4, <2>5, <2>6, <2>7, <2>8 DEF Next, Command
<1>3. QED
  BY <1>1, <1>2

-----------------------------------------------------------------------------
(* The theorems *)

LEMMA InvInit == Init => Inv
<1> SUFFICES ASSUME Init PROVE Inv
  OBVIOUS
<1>1. /\ proc \in [Pids -> Processes \cup {NoProc}] /\ born \in 0..MaxBorn
      /\ \A n \in Pids : Exists(n) => proc[n].token \in 1..born
  <2>1. CASE born = 0 /\ proc = [n \in Pids |-> NoProc]
    BY <2>1, AppDriveAssumption DEF Exists
  <2>2. ASSUME born = 1, NEW n \in Pids, NEW x \in Images,
               proc = [m \in Pids |-> IF m = n
                                      THEN [image |-> x, token |-> 1, hidden |-> FALSE]
                                      ELSE NoProc]
        PROVE  /\ proc \in [Pids -> Processes \cup {NoProc}] /\ born \in 0..MaxBorn
               /\ \A m \in Pids : Exists(m) => proc[m].token \in 1..born
    <3>1. [image |-> x, token |-> 1, hidden |-> FALSE] \in Processes
      BY AppDriveAssumption DEF Processes, Tokens
    <3>2. QED
      BY <2>2, <3>1, AppDriveAssumption DEF Exists
  <2>3. QED
    BY <2>1, <2>2 DEF Init
<1>2. TypeOK
  <2>1. seen \in 0..born
    BY <1>1, AppDriveAssumption DEF Init
  <2>2. pc = "idle" /\ why = "close" /\ target = NoState /\ child = 0 /\ mine = NoState
        /\ launched = {} /\ excused = {} /\ strayed = FALSE /\ want \in Images
        /\ file \in States \cup {NoState}
    BY DEF Init
  <2>3. pc \notin Terminations
    BY <2>2 DEF Terminations
  <2>4. QED
    BY <1>1, <2>1, <2>2, <2>3 DEF TypeOK
<1>3. TokensBorn
  BY <1>1 DEF Init, TokensBorn
<1>4. Roles
  BY DEF Init, Roles, Launching, Terminating, Terminations
<1>5. Apps = {}
  BY DEF Init, Apps
<1>6. QED
  BY <1>2, <1>3, <1>4, <1>5 DEF Inv, Base, AppsKnown

LEMMA InvNext == Inv /\ [Next]_vars => Inv'
  BY TypeStep, BornStep, RolesStep, AppsStep DEF Inv, Base

LEMMA InvHolds == Spec => []Inv
<1>1. QED
  BY InvInit, InvNext, PTL DEF Spec

\* Types are kept by every command, crash and reuse of a pid; a process is terminated
\* for its identity unless the user forces it, and a state is written with one.
THEOREM TypeCorrect == Spec => []TypeOK
<1>1. Inv => TypeOK
  BY DEF Inv, Base
<1>2. QED
  BY <1>1, InvHolds, PTL

\* From a look that showed the recorded process until the next look, whoever has its
\* pid is that process or came after the look.
LookedFor ==
    /\ pc \in {"send", "strike"} /\ Verifies => target.token <= seen
    /\ pc \in {"send", "strike"} /\ Verifies /\ Exists(target.pid)
          => proc[target.pid].token = target.token \/ proc[target.pid].token > seen

LEMMA LookedStep ==
    ASSUME Base, LookedFor, [Next]_vars
    PROVE  LookedFor'
<1> USE DEF environment, history, command, Goto, Terminations
<1>0. TypeOK /\ TokensBorn /\ Roles /\ born \in Nat /\ seen \in 0..born
  BY AppDriveAssumption DEF Base, TypeOK
<1>1. CASE Ask \/ Recheck
  <2>1. /\ Verifies => Verified(target)
        /\ seen' = born /\ UNCHANGED <<proc, target, why>>
    BY <1>1 DEF Ask, Recheck, Look
  <2>2. Verifies => target.token \in 1..born /\ proc[target.pid].token = target.token
    <3>1. HasIdentity(target) => target.pid \in Pids
      BY <1>0, StateFields DEF HasIdentity, TypeOK
    <3>2. QED
      BY <1>0, <2>1, <3>1 DEF Verified, PidAlive, TokensBorn
  <2>3. QED
    BY <1>0, <2>1, <2>2 DEF LookedFor, Verifies
<1>2. CASE Environment \/ UNCHANGED vars
  <2>0. UNCHANGED <<pc, why, target, seen>>
    BY <1>2 DEF Environment, Die, OtherStarts, vars
  <2>1. SUFFICES ASSUME pc \in {"send", "strike"}, Verifies, Exists(target.pid)'
                 PROVE  \/ proc'[target.pid].token = target.token
                        \/ proc'[target.pid].token > seen
    BY <2>0 DEF LookedFor, Verifies, Exists
  <2>2. target.pid \in Pids
    BY <1>0, <2>1, StateFields DEF TypeOK, HasIdentity, Roles, Terminating
  <2>3. CASE proc'[target.pid] = proc[target.pid]
    BY <2>0, <2>1, <2>3 DEF LookedFor, Exists
  <2>4. CASE proc'[target.pid] # proc[target.pid]
    <3>1. ASSUME NEW n \in Pids, NEW x \in Images, NEW h \in BOOLEAN, NewProcess(n, x, h)
          PROVE  proc'[target.pid].token = born + 1
      <4>1. /\ proc'[n] = [image |-> x, token |-> born + 1, hidden |-> h]
            /\ \A m \in Pids \ {n} : proc'[m] = proc[m]
        BY <1>0, <3>1, ProcType
      <4>2. n = target.pid
        BY <2>2, <2>4, <4>1
      <4>3. QED
        BY <4>1, <4>2
    <3>2. proc'[target.pid] # NoProc
      BY <2>0, <2>1 DEF Exists
    <3>3. proc'[target.pid].token = born + 1
      BY <2>2, <2>4, <3>1, <3>2, Processes_Step
    <3>4. QED
      BY <1>0, <3>3
  <2>5. QED
    BY <2>3, <2>4
<1>3. CASE ~ (pc' \in {"send", "strike"})
  BY <1>3 DEF LookedFor
<1>4. QED
  <2>1. CASE Termination
    <3>1. CASE Refuse \/ RefuseKill \/ CloseFailed \/ AlreadyGone \/ Exited
      BY <1>3, <3>1 DEF Refuse, RefuseKill, CloseFailed, AlreadyGone, Exited, Succeed, Fail, Done
    <3>2. CASE Send \/ Kill
      BY <1>3, <3>2 DEF Send, Kill
    <3>3. QED
      BY <1>1, <2>1, <3>1, <3>2 DEF Termination
  <2>2. CASE Abort
    BY <1>3, <2>2 DEF Abort, AbortDead, AbortTerminate, AbortRefuse, Terminate, Keep, KeepFails,
       Done
  <2>3. CASE ReadIdentity \/ WriteState \/ ClaimPort \/ LaunchDone \/ LaunchFails
               \/ AcquireFails \/ \E n \in Pids : Spawn(n)
    BY <1>3, <2>3 DEF ReadIdentity, WriteState, ClaimPort, LaunchDone, LaunchFails, AcquireFails,
       Spawn, Done
  <2>4. CASE User \/ Crash
    BY <1>3, <2>4 DEF User, Close, CloseForce, Discard, Launch, Replace, Terminate, Crash, Done
  <2>5. QED
    BY <1>2, <2>1, <2>2, <2>3, <2>4 DEF Next, Command

\* "app-drive only closes the process it launched and can verify": both signals go to
\* the process just verified, or to one that took its pid since, unless --force; and
\* to no other at all when a launch ends its own child.
THEOREM OnlyRecordedSignalledHolds == Spec => []OnlyRecordedSignalled
<1> DEFINE J == Inv /\ LookedFor /\ OnlyRecordedSignalled
<1>1. Init => J
  <2>1. Init => LookedFor /\ OnlyRecordedSignalled
    BY DEF Init, LookedFor, OnlyRecordedSignalled
  <2>2. QED
    BY <2>1, InvInit
<1>2. J /\ [Next]_vars => J'
  <2> USE DEF environment, history, command
  <2> SUFFICES ASSUME J, [Next]_vars PROVE ~ strayed'
    BY InvNext, LookedStep DEF OnlyRecordedSignalled, Inv
  <2>0. Base /\ LookedFor /\ ~ strayed
    BY DEF Inv, OnlyRecordedSignalled
  <2>1. CASE Send \/ Kill
    <3>1. pc \in {"send", "strike"} /\ Signalled
      BY <2>1 DEF Send, Kill
    <3>2. CASE why = "abort" /\ Exists(target.pid)
      <4>1. target = mine /\ mine # NoState
        BY <2>0, <3>1, <3>2 DEF Base, Roles, Terminating, Terminations
      <4>2. target.pid = child /\ proc[child].token = target.token
        BY <2>0, <3>2, <4>1 DEF Base, Roles
      <4>3. QED
        BY <2>0, <3>1, <4>2 DEF Signalled
    <3>3. CASE ~ Verifies \/ ~ Exists(target.pid)
      BY <2>0, <3>1, <3>3 DEF Signalled, PidAlive
    <3>4. CASE why # "abort" /\ Verifies /\ Exists(target.pid)
      <4>1. proc[target.pid].token = target.token \/ proc[target.pid].token > seen
        BY <2>0, <3>1, <3>4 DEF LookedFor
      <4>2. target.pid \in Pids /\ proc[target.pid].token \in Nat /\ seen \in Nat
        <5>1. TypeOK /\ target # NoState
          BY <2>0, <3>1, <3>4 DEF Base, Roles, Terminating, Terminations
        <5>2. target.pid \in Pids
          BY <5>1, StateFields DEF TypeOK
        <5>3. QED
          BY <3>4, <5>1, <5>2, ProcessFields DEF Tokens, TypeOK
      <4>3. proc[target.pid].token # target.token => ~ (proc[target.pid].token <= seen)
        BY <4>1, <4>2
      <4>4. QED
        BY <2>0, <3>1, <3>4, <4>3 DEF Signalled
    <3>5. QED
      BY <3>2, <3>3, <3>4
  <2>2. CASE Ask \/ Recheck \/ AlreadyGone \/ Refuse \/ Exited \/ RefuseKill \/ CloseFailed
    BY <2>0, <2>2 DEF Ask, Recheck, Look, AlreadyGone, Refuse, Exited, RefuseKill, CloseFailed,
       Succeed, Fail
  <2>3. CASE Abort
    BY <2>0, <2>3 DEF Abort, AbortDead, AbortTerminate, AbortRefuse, Keep, KeepFails
  <2>4. CASE ReadIdentity \/ WriteState \/ ClaimPort \/ LaunchDone \/ LaunchFails
               \/ AcquireFails \/ \E n \in Pids : Spawn(n)
    BY <2>0, <2>4 DEF ReadIdentity, WriteState, ClaimPort, LaunchDone, LaunchFails,
       AcquireFails, Spawn
  <2>5. CASE User \/ Environment \/ Crash \/ UNCHANGED vars
    BY <2>0, <2>5 DEF User, Close, CloseForce, Discard, Launch, Replace, Environment, Die,
       OtherStarts, Crash, vars
  <2>6. QED
    BY <2>1, <2>2, <2>3, <2>4, <2>5 DEF Next, Command, Termination
<1>3. J => OnlyRecordedSignalled
  OBVIOUS
<1>4. QED
  BY <1>1, <1>2, <1>3, PTL DEF Spec

\* No launch leaves an app that runs and that nothing names, whatever fails, dies or is
\* reused, unless the user discarded it, was told of it, or killed its launcher.
THEOREM NoSilentOrphanHolds == Spec => []NoSilentOrphan
<1>1. Inv => NoSilentOrphan
  <2> SUFFICES ASSUME Inv, pc = "idle", NEW n \in Pids, Exists(n),
                      proc[n].token \in launched \ excused
               PROVE  file # NoState /\ file.pid = n /\ file.token \in {0, proc[n].token}
    BY DEF NoSilentOrphan
  <2>1. ~ Launching /\ n \in Apps
    BY DEF Launching, Terminating, Terminations, Apps
  <2>2. QED
    BY <2>1 DEF Inv, AppsKnown, Names
<1>2. QED
  BY <1>1, InvHolds, PTL
=============================================================================
