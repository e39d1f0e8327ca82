--------------------------- MODULE MCCalibration ----------------------------
(* Two classes, the second a part of the first as on a machine with fast   *)
(* and efficient cores, stock and two caps; two sweeps, one stop at a time. *)
EXTENDS Calibration, TLC

CONSTANTS fast, eco, r1

MCLayout == <<{fast, eco}, {eco}>>

(* Bound: the search ends at the first call that throws or write that is   *)
(* refused, which QuietIsStock excuses.                                    *)
NoFailureYet == ~broken /\ ~lost

(* Bound: a second sweep that is not stopped before is followed to the     *)
(* first point of its second class.                                        *)
SecondIsBrief ==
  thread = 2 /\ at[2].class > 1 =>
    pc[2] \in {"class", "point", "restore", "end", "close", "over"}

(* Bound: the other client comes during the first sweep, before or after it. *)
OthersFirst == other => thread < 2

=============================================================================
