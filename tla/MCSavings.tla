----------------------------- MODULE MCSavings ------------------------------
(* Savings for TLC: 4 W idle, 16 W busy, a counter that wraps after 64 J.  *)
EXTENDS Savings

(* On a counter that fails, and on one that does not, with requests. *)
Faulty(counters, primed, range, control, objective, curve) ==
  [backend |-> Backend(counters, TRUE), primed |-> primed, range |-> range, control |-> control, once |-> FALSE,
   objective |-> objective, curve |-> curve, missing |-> 1, resets |-> 1, requests |-> 0]

Asked(scripted, once, objective, curve) ==
  [backend |-> Backend(<<>>, ~scripted), primed |-> IF scripted THEN {{}} ELSE {{4}}, range |-> {},
   control |-> TRUE, once |-> once, objective |-> objective, curve |-> curve, missing |-> 0,
   resets |-> 0, requests |-> 2]

Thrifty == [stock |-> 4, config |-> 2, stock_s |-> 1, config_s |-> 2]

Dear == [stock |-> 2, config |-> 4, stock_s |-> 1, config_s |-> 1]

MCSetups ==
  { Faulty(<<>>, {{4}, {}}, {}, TRUE, "efficiency", {}),
    Faulty(<<{}>>, {{4}, {16}}, Wrap, FALSE, "balanced", {}),
    Asked(TRUE, FALSE, "efficiency", {}),
    Asked(TRUE, FALSE, "deadline", {}),
    Asked(FALSE, TRUE, "performance", {}),
    Asked(FALSE, TRUE, "balanced", {Thrifty}),
    Asked(FALSE, TRUE, "efficiency", {Dear}) }

Symmetry == Permutations(Handlers)

=============================================================================
