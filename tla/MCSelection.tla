---------------------------- MODULE MCSelection -----------------------------
(* Selection for TLC: a machine with one core of each class, each with two  *)
(* threads, whose sweep is narrowed to three points of one layout: stock,   *)
(* the base clock and a cap half-way.                                       *)
EXTENDS Selection

MCCandidates(passive) == CandidateConfigs(<<0, 2>>, <<1, 3>>, {0, 1}, 400000, 2000000, passive)

Narrow(passive, caps) ==
  SelectSeq(MCCandidates(passive), LAMBDA k : k.cpus = <<0, 1>> /\ k.cap \in caps)

Active == Narrow(FALSE, {0, 2000000, 1200000})

Passive == SelectSeq(Narrow(TRUE, {0, 4500000}), LAMBDA k : k.boost)

MCIds == {MakeConfigId(k) : k \in ToSet(Active) \cup ToSet(Passive)}

(* cfg_2w_base_cap1200m < cfg_2w_base_cap2000m < cfg_2w_stock *)
MCRank == [i \in MCIds |-> IF i.boost THEN 9999 ELSE i.cap]

Deadline(d) == 
  [mode |-> "deadline", margin |-> 0, deadline |-> d, task |-> 0, target |-> 0, floor |-> 0]

Preference(t, f) == 
  [mode |-> "preference", margin |-> 5, deadline |-> 0, task |-> 0, target |-> t, floor |-> f]

MCGoals == {[Deadline(6) EXCEPT !.task = 4], Preference(60, 50)}

Fixture(k, runtime, energy) == [key |-> k, scale |-> 2, runtime |-> runtime, energy |-> energy]

Calibration == <<Fixture(Active[1], 1, 4), Fixture(Active[2], 2, 3)>>

Setup(plan, cal, own, reps, instant, goal) ==
  [plan |-> plan, cal |-> cal, own |-> own, reps |-> reps, instant |-> instant, goal |-> goal]

MCSetups ==
  { Setup(Active, <<>>, TRUE, 1, FALSE, Deadline(4)),
    Setup(SubSeq(Active, 1, 1), <<>>, FALSE, 2, FALSE, Preference(60, 50)),
    Setup(Passive, <<>>, TRUE, 1, FALSE, Deadline(6)),
    Setup(Active, Calibration, TRUE, 1, FALSE, Deadline(4)),
    Setup(Active, Calibration, TRUE, 1, TRUE, Preference(60, 50)),
    Setup(SubSeq(Active, 1, 1), Calibration, TRUE, 2, FALSE, Deadline(4)),
    Setup(Active, Calibration, FALSE, 1, FALSE, Deadline(4)) }

Outcome(ok, runtime, energy) == [ok |-> ok, runtime |-> runtime, energy |-> energy]

MCOutcomes ==
  { Outcome(TRUE, 2, 4), Outcome(TRUE, 4, 2), Outcome(TRUE, 2, NoEnergy),
    Outcome(FALSE, 0, NoEnergy) }

=============================================================================
