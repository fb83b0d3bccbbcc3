---------------------------- MODULE MCPortRegistry ----------------------------
(* Two apps that prefer the same port, and two ports to choose from. *)
EXTENDS PortRegistry, TLC
MCWindow == [k \in Keys |-> <<1, 2>>]
Symmetry == {cs @@ ks : cs \in Permutations(Clis), ks \in Permutations(Keys)}
=============================================================================
