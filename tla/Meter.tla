------------------------------- MODULE Meter --------------------------------
(***************************************************************************)
(* The package energy counter and the places of the code that take the     *)
(* difference of two of its readings: energy/base.py, core/runner.py,      *)
(* core/watch.py and api/live.py.                                          *)
(*                                                                         *)
(* A reading, a range and a result are sets of at most one number: empty   *)
(* for None.  Missing energy is never zero.                                *)
(***************************************************************************)
EXTENDS Integers

CONSTANTS
  MaxRange,  \* the counter wraps here
  Ceiling,   \* the greatest plausible power, 200 W
  Starts     \* where the counter may be at first

ASSUME MeterAssumption == MaxRange \in Nat \ {0} /\ Ceiling \in Nat \ {0}

ASSUME StartsAssumption == Starts \subseteq 0..(MaxRange - 1)

VARIABLE count  \* the package counter

Wrap == {MaxRange}

(* Mutant of Advance: the counter does not wrap.                           *)
Climb(uj, energy) == uj + energy

Advance(uj, energy) == (uj + energy) % MaxRange

(* Mutant of Delta: the range is forgotten.                                *)
PlainDelta(from, to, range) == {d \in {to - from} : d >= 0}

(* The difference, modulo the range if it is known: else a counter that    *)
(* went backwards has none.                                                *)
Delta(from, to, range) ==
  IF range # {} THEN {(to - from) % r : r \in range}
  ELSE {d \in {to - from} : d >= 0}

(* A greater difference means that the counter was reset, or wrapped twice. *)
Plausible(d, elapsed) == d <= Ceiling * elapsed

(* WatchSegment.energy_j, EnergyAccumulator.delta (its EnergyResetError is *)
(* the empty set), and the runner's use of it.                             *)
Energy(from, to, range, elapsed) ==
  UNION {{d \in Delta(a, b, range) : Plausible(d, elapsed)} : a \in from, b \in to}

(* _power_from_energy, in watts, rounded down. *)
Power(from, to, range, elapsed) ==
  {d \div elapsed : d \in UNION {Delta(a, b, range) : a \in from, b \in to}}

=============================================================================
