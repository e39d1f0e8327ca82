------------------------------ MODULE MCWatch -------------------------------
(* Two services, so that one is armed in place of another; two threads     *)
(* that sample, each a worker or a connection; one request at a time.      *)
EXTENDS Watch, TLC

CONSTANT h1

(* Guarded excuses what comes after a crossed apply: the search ends there. *)
NotCrossedYet == ~crossed

=============================================================================
