-------------------------------- MODULE Mutex --------------------------------
(***************************************************************************)
(* What registry_lock promises: "exclusive cross-process lock".            *)
(***************************************************************************)
CONSTANT Procs
VARIABLE holder       \* the processes inside the with block

Free == holder = {}

Enter(p) == Free /\ holder' = {p}
Leave(p) == holder = {p} /\ holder' = {}

Init == Free
Next == \E p \in Procs : Enter(p) \/ Leave(p)
Spec == Init /\ [][Next]_holder
=============================================================================
