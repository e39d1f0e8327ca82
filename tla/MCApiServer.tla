---------------------------- MODULE MCApiServer -----------------------------
(* One experiment has both kinds of thread, which contend for the lease,   *)
(* next to one cancel or restore request.                                  *)
EXTENDS ApiServer, TLC

CONSTANTS e1, h1, h2

(* Bound: the search ends at the first failing call or refused write, which *)
(* QuietIsStock excuses.                                                    *)
NoFailureYet == ~broken /\ ~lost

(* Bound: a client asks for a validation when it has the answer to its     *)
(* creation, or of an experiment that does not exist.                      *)
ValidatesKnown ==
  \A e \in Experiments : pc[<<e, "validate">>] # "none" => create[e] \in {"new", "done"}

=============================================================================
