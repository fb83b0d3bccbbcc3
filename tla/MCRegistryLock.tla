---------------------------- MODULE MCRegistryLock ----------------------------
(* Four processes over three pids: d has the pid of a, and lives when a has gone. *)
EXTENDS RegistryLock
CONSTANTS a, b, c, d
MCPidOf == [p \in Procs |-> IF p = b THEN 2 ELSE IF p = c THEN 3 ELSE 1]
=============================================================================
