------------------------------ MODULE MCCliRun ------------------------------
(* Two processes are the fewest that contend for the lease and can end     *)
(* each other's session.                                                   *)
EXTENDS CliRun, TLC

CONSTANTS r1, r2

MCSymmetry == Permutations(Runs)

=============================================================================
