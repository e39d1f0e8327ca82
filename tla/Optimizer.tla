----------------------------- MODULE Optimizer ------------------------------
(***************************************************************************)
(* core/optimizer.py: which measured configuration answers a deadline, a   *)
(* preference or a savings target.  Pure functions of a set of summaries.  *)
(*                                                                         *)
(* Energies and runtimes are whole numbers of some unit, percentages whole *)
(* percent, and comparisons with a percentage are multiplied out.  A       *)
(* summary keeps of its runtime samples the greatest, 0 when there is none.*)
(***************************************************************************)
EXTENDS Integers

CONSTANTS
  Ids,  \* configuration ids
  Rank  \* their order as strings

ASSUME RankAssumption ==
  /\ Rank \in [Ids -> Nat]
  /\ \A i, j \in Ids : Rank[i] = Rank[j] => i = j

NoEnergy == -1

(* A ConfigSummary; pos is its place in the list or the dictionary, worst  *)
(* its greatest runtime sample.                                            *)
IsSummary(c) ==
  /\ DOMAIN c = {"id", "key", "pos", "boost", "base", "usable", "worst", "median", "energy"}
  /\ c.id \in Ids /\ c.pos \in Nat
  /\ {c.boost, c.base, c.usable} \subseteq BOOLEAN
  /\ c.worst \in Nat /\ c.median \in Nat /\ c.energy \in Nat \cup {NoEnergy}

Known(c) == c.energy # NoEnergy

FirstOf(S) == CHOOSE c \in S : \A d \in S : c.pos <= d.pos

Named(C, id) == {c \in C : c.id = id}

(* The guarded runtime, in hundredths. *)
Guarded(c, margin) == c.worst * (100 + margin)

(* min() by energy, by guarded runtime and by id; by runtime first. *)
Cheaper(c, d) ==
  \/ c.energy < d.energy
  \/ c.energy = d.energy /\ c.worst < d.worst
  \/ c.energy = d.energy /\ c.worst = d.worst /\ Rank[c.id] < Rank[d.id]
  \/ c.energy = d.energy /\ c.worst = d.worst /\ c.id = d.id /\ c.pos <= d.pos

Faster(c, d) ==
  \/ c.worst < d.worst
  \/ c.worst = d.worst /\ Cheaper(c, d)

IsCheapest(c, S) == c \in S /\ \A d \in S : Cheaper(c, d)

(* Mutant of Cheapest: the first in the list wins.                         *)
FirstListed(S) == FirstOf(S)

Cheapest(S) == CHOOSE c \in S : IsCheapest(c, S)

Fastest(S) == CHOOSE c \in S : \A d \in S : Faster(c, d)

-----------------------------------------------------------------------------
(* Mutant of Dominates: an equal point dominates.                          *)
DominatesEqual(c, d) == c.energy <= d.energy /\ c.median <= d.median

Dominates(c, d) ==
  /\ c.energy <= d.energy /\ c.median <= d.median
  /\ c.energy < d.energy \/ c.median < d.median

Plotted(C) == {c \in C : c.usable /\ Known(c) /\ c.median > 0}

Frontier(C) ==
  LET plotted == Plotted(C)
  IN  {c \in plotted : \A d \in plotted : d.id # c.id => ~Dominates(d, c)}

Measured(C) == {c \in C : c.usable /\ Known(c) /\ c.worst > 0}

-----------------------------------------------------------------------------
(* What an optimizer answers: {} or {summary}, and the id of the baseline  *)
(* it was given, {} for None.                                              *)
Answer(mode, status, outcome, winner, base, C) ==
  [mode |-> mode, status |-> status, outcome |-> outcome, winner |-> winner,
   base |-> base, cands |-> C]

(* select_deadline's baseline: the one that is named, that is flagged, the first. *)
Baseline(C, baseId) ==
  LET flagged == {c \in C : c.base}
  IN  FirstOf(IF Named(C, baseId) # {} THEN Named(C, baseId)
              ELSE IF flagged # {} THEN flagged ELSE C)

(* task is the duration the runtimes are scaled to, 0 for None. *)
Fits(c, deadline, base, margin, task) ==
  IF task > 0 /\ base.median > 0
  THEN task * Guarded(c, margin) <= 100 * deadline * base.median
  ELSE Guarded(c, margin) <= 100 * deadline

Feasible(C, deadline, baseId, margin, task) ==
  {c \in Measured(C) : Fits(c, deadline, Baseline(C, baseId), margin, task)}

SelectDeadline(C, deadline, baseId, margin, task) ==
  LET feasible == Feasible(C, deadline, baseId, margin, task)
      base == Baseline(C, baseId)
      winner == Cheapest(feasible)
      status == IF feasible = {} THEN "no_feasible_point"
                ELSE IF winner.id = base.id THEN "baseline_already_optimal"
                ELSE IF winner.energy = base.energy THEN "within_noise"
                ELSE "selected"
  IN  Answer("deadline", status, "none", IF feasible = {} THEN {} ELSE {winner},
            {baseId}, C)

-----------------------------------------------------------------------------
KeepsTarget(c, base, target) == 100 * c.energy <= target * base.energy

(* Mutant of KeepsFloor: the floor is compared with the bare runtime.      *)
KeepsFloorBare(c, base, floor, margin) == floor * Guarded(c, 0) <= 10000 * base.median

KeepsFloor(c, base, floor, margin) == floor * Guarded(c, margin) <= 10000 * base.median

SelectPreference(C, target, floor, baseId, margin) ==
  LET base == FirstOf(Named(C, baseId))
      perf == {c \in Measured(C) : KeepsFloor(c, base, floor, margin)}
      energy == {c \in Measured(C) : KeepsTarget(c, base, target)}
      Selected(outcome, c) == Answer("preference", "selected", outcome, {c}, {baseId}, C)
      None(status, ids) == Answer("preference", status, "none_feasible", {}, ids, C)
  IN  IF Named(C, baseId) = {} \/ ~Known(base) \/ base.median = 0
      THEN None("profile_unusable", {})
      ELSE IF perf \cap energy # {} THEN Selected("both_met", Cheapest(perf \cap energy))
      ELSE IF perf # {} THEN Selected("closest_perf_floor", Cheapest(perf))
      ELSE IF energy # {} THEN Selected("closest_energy_target", Fastest(energy))
      ELSE None("no_feasible_point", {baseId})

-----------------------------------------------------------------------------
(* round(x, 2) of a percentage, in hundredths of a percent. *)
Hundredths(part, whole) == (20000 * part + whole) \div (2 * whole)

Saved(c, base) == Hundredths(base.energy - c.energy, base.energy)

Penalty(c, base) == Hundredths(c.median - base.median, base.median)

(* match_frontier_by_savings_target: the baseline's id and the ceiling are *)
(* sets, {} for None.                                                      *)
MatchBase(C, ids) ==
  LET named == {c \in C : c.id \in ids}
      stock == {c \in C : c.base \/ c.boost}
  IN  FirstOf(IF named # {} THEN named ELSE IF stock # {} THEN stock ELSE C)

Match(C, target, ids, ceiling) ==
  LET base == MatchBase(C, ids)
      points == IF Frontier(C) # {} THEN Frontier(C) ELSE Plotted(C)
      meeting == {c \in points : Saved(c, base) >= 100 * target}
      within == {c \in meeting : \A limit \in ceiling : Penalty(c, base) <= 100 * limit}
      pick == IF within # {} THEN within ELSE meeting
      Quicker(c, d) == \/ Penalty(c, base) < Penalty(d, base)
                       \/ Penalty(c, base) = Penalty(d, base) /\ Saved(c, base) >= Saved(d, base)
      Thriftier(c, d) == \/ Saved(c, base) > Saved(d, base)
                         \/ Saved(c, base) = Saved(d, base) /\ Penalty(c, base) <= Penalty(d, base)
  IN  IF C = {} \/ base.energy <= 0 \/ base.median = 0 \/ points = {}
      THEN [ok |-> FALSE, achieved |-> FALSE, winner |-> {}]
      ELSE [ok |-> TRUE, achieved |-> meeting # {},
            winner |-> {IF meeting # {} THEN CHOOSE c \in pick : \A d \in pick : Quicker(c, d)
                        ELSE CHOOSE c \in points : \A d \in points : Thriftier(c, d)}]

=============================================================================
