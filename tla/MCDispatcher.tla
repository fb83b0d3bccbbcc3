----------------------------- MODULE MCDispatcher -----------------------------
(* All runs are of one commit, or each has its own. *)
EXTENDS Dispatcher
CONSTANTS x, y
MCCommits == {[r \in Runs |-> x], [r \in Runs |-> IF r % 2 = 1 THEN x ELSE y]}
=============================================================================
