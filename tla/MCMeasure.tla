----------------------------- MODULE MCMeasure ------------------------------
(* Measure for TLC: two programs of any kind, on a counter that wraps.      *)
EXTENDS Measure, TLC

CONSTANTS c1, c2

(* A single run caps the first policy and says nothing of boost. *)
CapOnly == {[boost |-> "user", cap |-> "policy0"]}

Symmetry == Permutations(Clients)

=============================================================================
