-------------------------- MODULE SelectionProofs ---------------------------
(***************************************************************************)
(* Proofs about the optimizer, for any set of summaries, finite or not,    *)
(* and about Selection: whatever is measured and asked for, in whatever    *)
(* order, every profile is well-formed, what the server makes of it is     *)
(* true of every well-formed profile, and what it holds in two places      *)
(* agrees.                                                                 *)
(***************************************************************************)
EXTENDS Selection, FiniteSetTheorems, SequenceTheorems, WellFoundedInduction, TLAPS

-----------------------------------------------------------------------------
(* A non-empty set of natural numbers has a least element.                 *)
LEMMA LeastNat ==
  ASSUME NEW S \in SUBSET Nat, S # {}
  PROVE  \E n \in S : \A m \in S : n <= m
<1>1. PICK n \in S : \A m \in S : <<m, n>> \notin OpToRel(<, Nat)
  BY WFMin, NatLessThanWellFounded
<1>2. \A m \in S : ~(m < n)
  BY <1>1, Zenon DEF OpToRel
<1>3. n \in Nat /\ \A m \in S : m \in Nat
  OBVIOUS
<1> QED
  BY <1>2, <1>3

(* The cheapest exists: of the least energy, of those the quickest, of     *)
(* those the first by id, and of those the first in the list.              *)
LEMMA CheapestExists ==
  ASSUME NEW S, S # {}, \A c \in S : IsSummary(c) /\ Known(c)
  PROVE  IsCheapest(Cheapest(S), S)
<1> USE RankAssumption
<1>1. \A c \in S : c.energy \in Nat /\ c.worst \in Nat /\ c.id \in Ids /\ Rank[c.id] \in Nat /\ c.pos \in Nat
  BY DEF IsSummary, Known
<1>2. PICK e \in {c.energy : c \in S} : \A m \in {c.energy : c \in S} : e <= m
  <2>1. {c.energy : c \in S} \in SUBSET Nat /\ {c.energy : c \in S} # {}
    BY <1>1
  <2> QED
    BY <2>1, LeastNat
<1> DEFINE A == {c \in S : c.energy = e}
<1>3. PICK w \in {c.worst : c \in A} : \A m \in {c.worst : c \in A} : w <= m
  <2>1. {c.worst : c \in A} \in SUBSET Nat /\ {c.worst : c \in A} # {}
    BY <1>1, <1>2
  <2> QED
    BY <2>1, LeastNat
<1> DEFINE B == {c \in A : c.worst = w}
<1>4. PICK r \in {Rank[c.id] : c \in B} : \A m \in {Rank[c.id] : c \in B} : r <= m
  <2>1. {Rank[c.id] : c \in B} \in SUBSET Nat /\ {Rank[c.id] : c \in B} # {}
    BY <1>1, <1>3
  <2> QED
    BY <2>1, LeastNat
<1> DEFINE D == {c \in B : Rank[c.id] = r}
<1>5. PICK p \in {c.pos : c \in D} : \A m \in {c.pos : c \in D} : p <= m
  <2>1. {c.pos : c \in D} \in SUBSET Nat /\ {c.pos : c \in D} # {}
    BY <1>1, <1>4
  <2> QED
    BY <2>1, LeastNat
<1>6. PICK c \in D : c.pos = p
  BY <1>5
<1>7. ASSUME NEW d \in S PROVE Cheaper(c, d)
  <2>1. c \in S /\ c.energy <= d.energy
    BY <1>2, <1>6
  <2>2. d.energy = c.energy => c.worst <= d.worst
    BY <1>3, <1>6
  <2>3. (d.energy = c.energy /\ d.worst = c.worst) => Rank[c.id] <= Rank[d.id]
    BY <1>4, <1>6
  <2>4. (d.energy = c.energy /\ d.worst = c.worst /\ Rank[d.id] = Rank[c.id]) => c.pos <= d.pos
    BY <1>5, <1>6
  <2>5. Rank[d.id] = Rank[c.id] => c.id = d.id
    BY <1>1, <2>1
  <2> QED
    BY <1>1, <2>1, <2>2, <2>3, <2>4, <2>5 DEF Cheaper
<1>8. IsCheapest(c, S)
  BY <1>6, <1>7 DEF IsCheapest
<1> QED
  BY <1>8 DEF Cheapest

(* It is the only one where no two share an id.                            *)
LEMMA CheapestUnique ==
  ASSUME NEW S, \A c \in S : IsSummary(c) /\ Known(c), \A c, d \in S : c.id = d.id => c = d,
         NEW c, IsCheapest(c, S)
  PROVE  Cheapest(S) = c
<1>1. IsCheapest(Cheapest(S), S)
  <2>1. \E x \in S : IsCheapest(x, S)
    BY DEF IsCheapest
  <2> QED
    BY <2>1, Zenon DEF Cheapest
<1> DEFINE d == Cheapest(S)
<1>2. c \in S /\ d \in S /\ Cheaper(c, d) /\ Cheaper(d, c)
  BY <1>1 DEF IsCheapest
<1>3. /\ {c.energy, d.energy, c.worst, d.worst} \subseteq Nat
      /\ c.id \in Ids /\ d.id \in Ids /\ Rank[c.id] \in Nat /\ Rank[d.id] \in Nat
  BY <1>2, RankAssumption DEF IsSummary, Known
<1> HIDE DEF d
<1>4. c.id = d.id
  BY <1>2, <1>3 DEF Cheaper
<1> QED
  BY <1>2, <1>4 DEF d

(* The first in the list exists.                                           *)
LEMMA FirstExists ==
  ASSUME NEW S, S # {}, \A c \in S : IsSummary(c)
  PROVE  FirstOf(S) \in S
<1>1. {c.pos : c \in S} \in SUBSET Nat /\ {c.pos : c \in S} # {}
  BY DEF IsSummary
<1>2. PICK p \in {c.pos : c \in S} : \A m \in {c.pos : c \in S} : p <= m
  BY <1>1, LeastNat
<1>3. \E c \in S : \A d \in S : c.pos <= d.pos
  BY <1>2
<1> QED
  BY <1>3 DEF FirstOf

(* Whatever the deadline, its baseline is one of the summaries.            *)
LEMMA BaselineExists ==
  ASSUME NEW C, C # {}, \A c \in C : IsSummary(c), NEW baseId
  PROVE  Baseline(C, baseId) \in C
<1> DEFINE named == Named(C, baseId)
           flagged == {c \in C : c.base}
           from == IF named # {} THEN named ELSE IF flagged # {} THEN flagged ELSE C
<1>1. from # {} /\ from \subseteq C
  BY DEF Named
<1>2. Baseline(C, baseId) = FirstOf(from)
  BY DEF Baseline
<1> HIDE DEF from
<1> QED
  BY <1>1, <1>2, FirstExists

(* Everything measured has an energy.                                      *)
LEMMA FeasibleKnown ==
  ASSUME NEW C, \A c \in C : IsSummary(c), NEW deadline, NEW baseId, NEW margin, NEW task
  PROVE  \A c \in Feasible(C, deadline, baseId, margin, task) : c \in C /\ IsSummary(c) /\ Known(c)
BY DEF Feasible, Measured

(* What is in time for a deadline is in time for a looser one.             *)
LEMMA FeasibleGrows ==
  ASSUME NEW C, \A c \in C : IsSummary(c), NEW baseId, NEW margin \in Nat, NEW task \in Nat,
         NEW tight \in Nat, NEW loose \in Nat, tight <= loose
  PROVE  Feasible(C, tight, baseId, margin, task) \subseteq Feasible(C, loose, baseId, margin, task)
<1> SUFFICES ASSUME NEW c \in Feasible(C, tight, baseId, margin, task)
             PROVE  c \in Feasible(C, loose, baseId, margin, task)
  OBVIOUS
<1>1. c \in C /\ c \in Measured(C)
  BY DEF Feasible, Measured
<1> DEFINE base == Baseline(C, baseId)
<1>2. base \in C
  BY <1>1, BaselineExists
<1>3. base.median \in Nat /\ c.worst \in Nat
  BY <1>1, <1>2 DEF IsSummary
<1>4. Fits(c, tight, base, margin, task)
  BY DEF Feasible
<1> HIDE DEF base
<1> DEFINE g == Guarded(c, margin)
<1>5. g \in Nat
  BY <1>3 DEF Guarded
<1> HIDE DEF g
<1>6. 100 * tight <= 100 * loose /\ 100 * tight \in Nat /\ 100 * loose \in Nat
  OBVIOUS
<1>7. 100 * tight * base.median <= 100 * loose * base.median
  <2>1. \A a, b, m \in Nat : a <= b => a * m <= b * m
    OBVIOUS
  <2> QED
    BY <1>3, <1>6, <2>1
<1>8. Fits(c, loose, base, margin, task)
  <2>1. CASE task > 0 /\ base.median > 0
    <3>1. task * g <= 100 * tight * base.median
      BY <1>4, <2>1 DEF Fits, g
    <3>2. task * g \in Int /\ 100 * tight * base.median \in Int /\ 100 * loose * base.median \in Int
      BY <1>3, <1>5
    <3>3. task * g <= 100 * loose * base.median
      BY <1>7, <3>1, <3>2
    <3> QED
      BY <2>1, <3>3 DEF Fits, g
  <2>2. CASE ~(task > 0 /\ base.median > 0)
    <3>1. g <= 100 * tight
      BY <1>4, <2>2 DEF Fits, g
    <3>2. g <= 100 * loose
      BY <1>5, <1>6, <3>1
    <3> QED
      BY <2>2, <3>2 DEF Fits, g
  <2> QED
    BY <2>1, <2>2
<1> QED
  BY <1>1, <1>8 DEF Feasible, base

-----------------------------------------------------------------------------
(* select_deadline is monotone: if a tighter deadline has an answer, so    *)
(* has a looser one, and one that spends no more energy.                   *)
THEOREM LooserDeadline ==
  ASSUME NEW C, \A c \in C : IsSummary(c), NEW baseId, NEW margin \in Nat, NEW task \in Nat,
         NEW tight \in Nat, NEW loose \in Nat, tight <= loose,
         NEW c \in SelectDeadline(C, tight, baseId, margin, task).winner
  PROVE  \E d \in SelectDeadline(C, loose, baseId, margin, task).winner : d.energy <= c.energy
<1> DEFINE F(deadline) == Feasible(C, deadline, baseId, margin, task)
<1>1. F(tight) # {} /\ c = Cheapest(F(tight))
  BY DEF SelectDeadline, Answer
<1>2. F(tight) \subseteq F(loose)
  BY FeasibleGrows
<1>3. F(loose) # {}
  BY <1>1, <1>2
<1>4. \A e \in F(tight) \cup F(loose) : IsSummary(e) /\ Known(e)
  BY FeasibleKnown
<1>5. IsCheapest(c, F(tight)) /\ IsCheapest(Cheapest(F(loose)), F(loose))
  BY <1>1, <1>3, <1>4, CheapestExists
<1>6. SelectDeadline(C, loose, baseId, margin, task).winner = {Cheapest(F(loose))}
  BY <1>3 DEF SelectDeadline, Answer
<1> HIDE DEF F
<1> DEFINE d == Cheapest(F(loose))
<1>7. d \in F(loose) /\ c \in F(loose) /\ Cheaper(d, c)
  BY <1>2, <1>5 DEF IsCheapest
<1>8. d.energy \in Nat /\ c.energy \in Nat
  BY <1>4, <1>7 DEF IsSummary, Known
<1>9. d.energy <= c.energy
  BY <1>7, <1>8 DEF Cheaper
<1> QED
  BY <1>6, <1>9

(* A factor can be cancelled.                                              *)
LEMMA CancelCommon ==
  ASSUME NEW f \in Nat, f > 0, NEW g \in Nat, NEW h \in Nat
  PROVE  f * g <= f * h <=> g <= h
<1>1. ASSUME g <= h PROVE f * g <= f * h
  <2>1. PICK k \in Nat : h = g + k
    <3>1. h - g \in Nat /\ h = g + (h - g)
      BY <1>1
    <3> QED
      BY <3>1
  <2>2. f * h = f * g + f * k /\ f * k \in Nat /\ f * g \in Nat
    BY <2>1
  <2> QED
    BY <2>2
<1>2. ASSUME g > h PROVE f * g > f * h
  <2>1. PICK k \in Nat : g = h + 1 + k
    <3>1. g - h - 1 \in Nat /\ g = h + 1 + (g - h - 1)
      BY <1>2
    <3> QED
      BY <3>1
  <2>2. f * g = f * h + f + f * k /\ f * k \in Nat /\ f * h \in Nat
    BY <2>1
  <2> QED
    BY <2>2
<1>3. g <= h \/ g > h
  OBVIOUS
<1>4. f * g \in Int /\ f * h \in Int
  OBVIOUS
<1> QED
  BY <1>1, <1>2, <1>3, <1>4

(* A floor is the deadline it stands for: both are kept by the same.       *)
LEMMA FloorFits ==
  ASSUME NEW c, IsSummary(c), NEW base, IsSummary(base), base.median # 0, NEW margin \in Nat,
         NEW floor \in Nat, NEW deadline \in Nat, floor * deadline = 100 * base.median,
         NEW from
  PROVE  KeepsFloor(c, base, floor, margin) <=> Fits(c, deadline, from, margin, 0)
<1> DEFINE g == Guarded(c, margin)
<1>1. g \in Nat
  BY DEF Guarded, IsSummary
<1>2. base.median \in Nat /\ base.median > 0
  BY DEF IsSummary
<1>3. floor > 0
  <2>1. floor = 0 => floor * deadline = 0
    OBVIOUS
  <2> QED
    BY <1>2, <2>1
<1> HIDE DEF g
<1>4. 10000 * base.median = 100 * (floor * deadline)
  BY <1>2
<1>5. 100 * (floor * deadline) = floor * (100 * deadline)
  OBVIOUS
<1>6. floor * g <= floor * (100 * deadline) <=> g <= 100 * deadline
  <2>1. 100 * deadline \in Nat
    OBVIOUS
  <2> QED
    BY <1>1, <1>3, <2>1, CancelCommon
<1>7. KeepsFloor(c, base, floor, margin) <=> floor * g <= 10000 * base.median
  BY DEF KeepsFloor, g
<1>8. Fits(c, deadline, from, margin, 0) <=> g <= 100 * deadline
  BY DEF Fits, g
<1> QED
  BY <1>4, <1>5, <1>6, <1>7, <1>8

(* select_preference: as long as the performance floor can be kept, the    *)
(* energy target does not change the answer, which is select_deadline's to *)
(* the runtime that the floor stands for.                                  *)
THEOREM FloorIsDeadline ==
  ASSUME NEW C, \A c \in C : IsSummary(c), \A c, d \in C : c.id = d.id => c = d,
         NEW baseId, NEW target \in Nat, NEW floor \in Nat, NEW deadline \in Nat, NEW margin \in Nat,
         \A b \in Named(C, baseId) : floor * deadline = 100 * b.median,
         SelectPreference(C, target, floor, baseId, margin).outcome
           \in {"both_met", "closest_perf_floor"}
  PROVE  SelectPreference(C, target, floor, baseId, margin).winner
           = SelectDeadline(C, deadline, baseId, margin, 0).winner
<1> DEFINE base == FirstOf(Named(C, baseId))
           perf == {c \in Measured(C) : KeepsFloor(c, base, floor, margin)}
           energy == {c \in Measured(C) : KeepsTarget(c, base, target)}
           answer == SelectPreference(C, target, floor, baseId, margin)
<1>1. Named(C, baseId) # {} /\ Known(base) /\ base.median # 0
  BY DEF SelectPreference, Answer
<1>2. perf # {} /\ answer.winner = {Cheapest(IF perf \cap energy # {} THEN perf \cap energy ELSE perf)}
  BY <1>1 DEF SelectPreference, Answer
<1>3. IsSummary(base) /\ base \in Named(C, baseId)
  <2>1. \A c \in Named(C, baseId) : IsSummary(c)
    BY DEF Named
  <2> QED
    BY <1>1, <2>1, FirstExists
<1>4. base.energy \in Nat /\ floor * deadline = 100 * base.median
  BY <1>1, <1>3 DEF IsSummary, Known
<1> HIDE DEF base
<1>5. perf = Feasible(C, deadline, baseId, margin, 0)
  <2>1. \A c \in Measured(C) : IsSummary(c)
    BY DEF Measured
  <2>2. \A c \in Measured(C) : KeepsFloor(c, base, floor, margin)
                               <=> Fits(c, deadline, Baseline(C, baseId), margin, 0)
    BY <1>1, <1>3, <1>4, <2>1, FloorFits
  <2> QED
    BY <2>2 DEF Feasible
<1>6. SelectDeadline(C, deadline, baseId, margin, 0).winner = {Cheapest(perf)}
  BY <1>2, <1>5 DEF SelectDeadline, Answer
<1>7. \A c \in perf : c \in C /\ IsSummary(c) /\ Known(c)
  BY DEF Measured
<1>8. IsCheapest(Cheapest(perf), perf)
  BY <1>2, <1>7, CheapestExists
<1>9. ASSUME perf \cap energy # {} PROVE Cheapest(perf \cap energy) = Cheapest(perf)
  <2> DEFINE c == Cheapest(perf)
  <2>1. PICK d \in perf : d \in energy
    BY <1>9
  <2>2. c \in perf /\ Cheaper(c, d)
    BY <1>8 DEF IsCheapest
  <2>3. c.energy \in Nat /\ d.energy \in Nat
    BY <1>7, <2>2 DEF IsSummary, Known
  <2> HIDE DEF c
  <2>4. c.energy <= d.energy
    BY <2>2, <2>3 DEF Cheaper
  <2>5. target * base.energy \in Int
    BY <1>4
  <2>6. c \in energy
    BY <2>1, <2>2, <2>3, <2>4, <2>5 DEF KeepsTarget
  <2>7. IsCheapest(c, perf \cap energy)
    BY <1>8, <2>2, <2>6 DEF IsCheapest, c
  <2> HIDE DEF perf, energy
  <2>8. \A e, f \in perf \cap energy : e.id = f.id => e = f
    BY <1>7
  <2> QED
    BY <1>7, <2>7, <2>8, CheapestUnique DEF c
<1> HIDE DEF perf, energy
<1> QED
  BY <1>2, <1>6, <1>9

-----------------------------------------------------------------------------
(* Sets of integers with a bound.                                          *)
LEMMA LeastInt ==
  ASSUME NEW S \in SUBSET Int, S # {}, NEW k \in Int, \A n \in S : k <= n
  PROVE  \E n \in S : \A m \in S : n <= m
<1>1. {n - k : n \in S} \in SUBSET Nat /\ {n - k : n \in S} # {}
  <2>1. \A n \in S : n - k \in Nat
    OBVIOUS
  <2> QED
    BY <2>1
<1>2. PICK i \in {n - k : n \in S} : \A j \in {n - k : n \in S} : i <= j
  BY <1>1, LeastNat
<1>3. PICK n \in S : i = n - k
  BY <1>2
<1>4. \A m \in S : n - k <= m - k
  BY <1>2, <1>3
<1>5. \A m \in S : m \in Int
  OBVIOUS
<1> QED
  BY <1>4, <1>5

(* A set of integers with a bound above has a greatest.                    *)
LEMMA GreatestInt ==
  ASSUME NEW S \in SUBSET Int, S # {}, NEW k \in Int, \A n \in S : n <= k
  PROVE  \E n \in S : \A m \in S : m <= n
<1>1. {k - n : n \in S} \in SUBSET Nat /\ {k - n : n \in S} # {}
  <2>1. \A n \in S : k - n \in Nat
    OBVIOUS
  <2> QED
    BY <2>1
<1>2. PICK i \in {k - n : n \in S} : \A j \in {k - n : n \in S} : i <= j
  BY <1>1, LeastNat
<1>3. PICK n \in S : i = k - n
  BY <1>2
<1>4. \A m \in S : k - n <= k - m
  BY <1>2, <1>3
<1>5. \A m \in S : m \in Int
  OBVIOUS
<1> QED
  BY <1>4, <1>5

(* A rounded percentage is an integer, and grows with its part.            *)
LEMMA HundredthsGrow ==
  ASSUME NEW whole \in Nat, whole > 0, NEW p \in Int, NEW q \in Int, p <= q
  PROVE  /\ Hundredths(p, whole) \in Int /\ Hundredths(q, whole) \in Int
         /\ Hundredths(p, whole) <= Hundredths(q, whole)
<1>1. \A a, b \in Int, n \in Nat : (n > 0 /\ a <= b) => a \div n \in Int /\ a \div n <= b \div n
  OBVIOUS
<1>2. 20000 * p + whole \in Int /\ 20000 * q + whole \in Int /\ 2 * whole \in Nat /\ 2 * whole > 0
      /\ 20000 * p + whole <= 20000 * q + whole
  OBVIOUS
<1> QED
  BY <1>1, <1>2 DEF Hundredths

(* Nothing is lost on the frontier: it has a point that is as good.        *)
LEMMA FrontierCovers ==
  ASSUME NEW C, \A c \in C : IsSummary(c), NEW c \in Plotted(C)
  PROVE  \E d \in Frontier(C) : d.energy <= c.energy /\ d.median <= c.median
<1> DEFINE better == {d \in Plotted(C) : d.energy <= c.energy /\ d.median <= c.median}
           sums == {d.energy + d.median : d \in better}
<1>1. \A d \in Plotted(C) : d.energy \in Nat /\ d.median \in Nat
  BY DEF Plotted, IsSummary, Known
<1>2. c \in better
  BY <1>1
<1>3. sums \in SUBSET Nat /\ sums # {}
  <2>1. \A d \in better : d.energy + d.median \in Nat
    BY <1>1
  <2> QED
    BY <1>2, <2>1
<1>4. PICK d \in better : \A n \in sums : d.energy + d.median <= n
  <2>1. PICK s \in sums : \A n \in sums : s <= n
    BY <1>3, LeastNat
  <2> QED
    BY <2>1
<1>5. ASSUME NEW e \in Plotted(C) PROVE ~Dominates(e, d)
  <2> SUFFICES ASSUME Dominates(e, d) PROVE FALSE
    OBVIOUS
  <2>1. d.energy \in Nat /\ d.median \in Nat /\ e.energy \in Nat /\ e.median \in Nat
        /\ c.energy \in Nat /\ c.median \in Nat
    BY <1>1
  <2>2. d.energy <= c.energy /\ d.median <= c.median
    OBVIOUS
  <2>3. e.energy <= d.energy /\ e.median <= d.median /\ e.energy + e.median < d.energy + d.median
    BY <2>1 DEF Dominates
  <2>4. e \in better
    BY <2>1, <2>2, <2>3
  <2>5. e.energy + e.median \in sums
    BY <2>4
  <2> QED
    BY <1>4, <2>1, <2>3, <2>5
<1> QED
  BY <1>4, <1>5 DEF Frontier

(* The savings and the penalty of a summary are integers, and bounded.     *)
LEMMA Percentages ==
  ASSUME NEW base, IsSummary(base), base.energy > 0, base.median > 0,
         NEW c, IsSummary(c), Known(c)
  PROVE  /\ Saved(c, base) \in Int /\ Penalty(c, base) \in Int
         /\ Saved(c, base) <= Hundredths(base.energy, base.energy)
         /\ Hundredths(0 - base.median, base.median) <= Penalty(c, base)
<1>1. base.energy \in Nat /\ base.median \in Nat /\ c.energy \in Nat /\ c.median \in Nat
  BY DEF IsSummary, Known, NoEnergy
<1>2. base.energy - c.energy \in Int /\ base.energy - c.energy <= base.energy
      /\ c.median - base.median \in Int /\ 0 - base.median <= c.median - base.median
      /\ 0 - base.median \in Int /\ base.energy \in Int
  BY <1>1
<1>3. /\ Hundredths(base.energy - c.energy, base.energy) \in Int
      /\ Hundredths(base.energy - c.energy, base.energy) <= Hundredths(base.energy, base.energy)
  BY <1>1, <1>2, HundredthsGrow
<1>4. /\ Hundredths(c.median - base.median, base.median) \in Int
      /\ Hundredths(0 - base.median, base.median) <= Hundredths(c.median - base.median, base.median)
  BY <1>1, <1>2, HundredthsGrow
<1> QED
  BY <1>3, <1>4 DEF Saved, Penalty

(* A configuration that is no worse saves as much and costs as little.     *)
LEMMA PercentagesGrow ==
  ASSUME NEW base, IsSummary(base), base.energy > 0, base.median > 0,
         NEW c, IsSummary(c), Known(c), NEW d, IsSummary(d), Known(d),
         d.energy <= c.energy, d.median <= c.median
  PROVE  Saved(c, base) <= Saved(d, base) /\ Penalty(d, base) <= Penalty(c, base)
<1>1. /\ base.energy \in Nat /\ base.median \in Nat /\ c.energy \in Nat /\ c.median \in Nat
      /\ d.energy \in Nat /\ d.median \in Nat
  BY DEF IsSummary, Known, NoEnergy
<1>2. /\ base.energy - c.energy \in Int /\ base.energy - d.energy \in Int
      /\ base.energy - c.energy <= base.energy - d.energy
      /\ d.median - base.median \in Int /\ c.median - base.median \in Int
      /\ d.median - base.median <= c.median - base.median
  BY <1>1
<1>3. Hundredths(base.energy - c.energy, base.energy) <= Hundredths(base.energy - d.energy, base.energy)
  BY <1>1, <1>2, HundredthsGrow
<1>4. Hundredths(d.median - base.median, base.median) <= Hundredths(c.median - base.median, base.median)
  BY <1>1, <1>2, HundredthsGrow
<1> QED
  BY <1>3, <1>4 DEF Saved, Penalty

(* The bounds are integers.                                                *)
LEMMA PercentageBounds ==
  ASSUME NEW base, IsSummary(base), base.energy > 0, base.median > 0
  PROVE  /\ Hundredths(0 - base.median, base.median) \in Int
         /\ Hundredths(base.energy, base.energy) \in Int
<1>1. base.energy \in Nat /\ base.median \in Nat
  BY DEF IsSummary, NoEnergy
<1>2. \A whole \in Nat, p \in Int : whole > 0 => Hundredths(p, whole) \in Int
  <2>1. \A p \in Int : p <= p
    OBVIOUS
  <2> QED
    BY <2>1, HundredthsGrow
<1>3. 0 - base.median \in Int /\ base.energy \in Int
  BY <1>1
<1> QED
  BY <1>1, <1>2, <1>3

(* There is a quickest point of any that save enough, and a thriftiest.    *)
LEMMA QuickestExists ==
  ASSUME NEW base, IsSummary(base), base.energy > 0, base.median > 0,
         NEW S, S # {}, \A c \in S : IsSummary(c) /\ Known(c)
  PROVE  \E c \in S : \A d \in S :
           \/ Penalty(c, base) < Penalty(d, base)
           \/ Penalty(c, base) = Penalty(d, base) /\ Saved(c, base) >= Saved(d, base)
<1> DEFINE penalties == {Penalty(c, base) : c \in S}
           low == Hundredths(0 - base.median, base.median)
           high == Hundredths(base.energy, base.energy)
<1>1. \A c \in S : /\ Penalty(c, base) \in Int /\ low <= Penalty(c, base)
                   /\ Saved(c, base) \in Int /\ Saved(c, base) <= high
  BY Percentages
<1>2. low \in Int /\ high \in Int
  BY PercentageBounds
<1> HIDE DEF low, high
<1>3. PICK p \in penalties : \A q \in penalties : p <= q
  <2>1. penalties \in SUBSET Int /\ penalties # {} /\ \A n \in penalties : low <= n
    BY <1>1
  <2> QED
    BY <1>2, <2>1, LeastInt
<1> DEFINE quick == {c \in S : Penalty(c, base) = p}
           savings == {Saved(c, base) : c \in quick}
<1>4. PICK g \in savings : \A q \in savings : q <= g
  <2>1. savings \in SUBSET Int /\ savings # {} /\ \A n \in savings : n <= high
    BY <1>1, <1>3
  <2> QED
    BY <1>2, <2>1, GreatestInt
<1>5. PICK c \in quick : Saved(c, base) = g
  BY <1>4
<1>6. ASSUME NEW d \in S
      PROVE  \/ Penalty(c, base) < Penalty(d, base)
             \/ Penalty(c, base) = Penalty(d, base) /\ Saved(c, base) >= Saved(d, base)
  <2>1. Penalty(c, base) <= Penalty(d, base)
    BY <1>3, <1>5
  <2>2. Penalty(d, base) = Penalty(c, base) => Saved(d, base) <= Saved(c, base)
    BY <1>4, <1>5
  <2>3. c \in S
    BY <1>5
  <2> QED
    BY <1>1, <2>1, <2>2, <2>3
<1> QED
  BY <1>5, <1>6

(* And one saves most, of any that there are.                              *)
LEMMA ThriftiestExists ==
  ASSUME NEW base, IsSummary(base), base.energy > 0, base.median > 0,
         NEW S, S # {}, \A c \in S : IsSummary(c) /\ Known(c)
  PROVE  \E c \in S : \A d \in S :
           \/ Saved(c, base) > Saved(d, base)
           \/ Saved(c, base) = Saved(d, base) /\ Penalty(c, base) <= Penalty(d, base)
<1> DEFINE savings == {Saved(c, base) : c \in S}
           low == Hundredths(0 - base.median, base.median)
           high == Hundredths(base.energy, base.energy)
<1>1. \A c \in S : /\ Penalty(c, base) \in Int /\ low <= Penalty(c, base)
                   /\ Saved(c, base) \in Int /\ Saved(c, base) <= high
  BY Percentages
<1>2. low \in Int /\ high \in Int
  BY PercentageBounds
<1> HIDE DEF low, high
<1>3. PICK g \in savings : \A q \in savings : q <= g
  <2>1. savings \in SUBSET Int /\ savings # {} /\ \A n \in savings : n <= high
    BY <1>1
  <2> QED
    BY <1>2, <2>1, GreatestInt
<1> DEFINE thrifty == {c \in S : Saved(c, base) = g}
           penalties == {Penalty(c, base) : c \in thrifty}
<1>4. PICK p \in penalties : \A q \in penalties : p <= q
  <2>1. penalties \in SUBSET Int /\ penalties # {} /\ \A n \in penalties : low <= n
    BY <1>1, <1>3
  <2> QED
    BY <1>2, <2>1, LeastInt
<1>5. PICK c \in thrifty : Penalty(c, base) = p
  BY <1>4
<1>6. ASSUME NEW d \in S
      PROVE  \/ Saved(c, base) > Saved(d, base)
             \/ Saved(c, base) = Saved(d, base) /\ Penalty(c, base) <= Penalty(d, base)
  <2>1. Saved(d, base) <= Saved(c, base)
    BY <1>3, <1>5
  <2>2. Saved(d, base) = Saved(c, base) => Penalty(c, base) <= Penalty(d, base)
    BY <1>4, <1>5
  <2>3. c \in S
    BY <1>5
  <2> QED
    BY <1>1, <2>1, <2>2, <2>3
<1> QED
  BY <1>5, <1>6

(* What Match answers without a ceiling, when there is a curve and a       *)
(* baseline: a point of the frontier, and if any meets the target, one     *)
(* that does and is as quick as any that does.                             *)
LEMMA MatchAnswers ==
  ASSUME NEW C, \A c \in C : IsSummary(c), Plotted(C) # {}, NEW target \in Nat, NEW ids,
         IsSummary(MatchBase(C, ids)), MatchBase(C, ids).energy > 0, MatchBase(C, ids).median > 0
  PROVE  \E w \in Frontier(C) :
           /\ Match(C, target, ids, {}).winner = {w}
           /\ \A c \in Frontier(C) : Saved(c, MatchBase(C, ids)) >= 100 * target =>
                /\ Match(C, target, ids, {}).achieved
                /\ Penalty(w, MatchBase(C, ids)) <= Penalty(c, MatchBase(C, ids))
<1> DEFINE base == MatchBase(C, ids)
           points == IF Frontier(C) # {} THEN Frontier(C) ELSE Plotted(C)
           meeting == {c \in points : Saved(c, base) >= 100 * target}
           within == {c \in meeting : \A limit \in {} : Penalty(c, base) <= 100 * limit}
           pick == IF within # {} THEN within ELSE meeting
           Quicker(c, d) == \/ Penalty(c, base) < Penalty(d, base)
                            \/ Penalty(c, base) = Penalty(d, base) /\ Saved(c, base) >= Saved(d, base)
           Thriftier(c, d) == \/ Saved(c, base) > Saved(d, base)
                              \/ Saved(c, base) = Saved(d, base) /\ Penalty(c, base) <= Penalty(d, base)
           quick == CHOOSE c \in pick : \A d \in pick : Quicker(c, d)
           thrifty == CHOOSE c \in points : \A d \in points : Thriftier(c, d)
           answer == Match(C, target, ids, {})
<1>1. points # {} /\ C # {} /\ points = Frontier(C) /\ pick = meeting
  BY FrontierCovers DEF Plotted
<1>2. \A c \in points : IsSummary(c) /\ Known(c)
  BY <1>1 DEF Frontier, Plotted
<1>3. ~(base.energy <= 0) /\ base.median # 0
  BY DEF IsSummary, NoEnergy
<1>4. answer = [ok |-> TRUE, achieved |-> meeting # {},
                winner |-> {IF meeting # {} THEN quick ELSE thrifty}]
  BY <1>1, <1>3, Zenon DEF Match
<1> HIDE DEF base, points, pick, answer
<1>5. (answer.achieved <=> meeting # {}) /\ answer.winner = {IF meeting # {} THEN quick ELSE thrifty}
  <2> HIDE DEF quick, thrifty, meeting
  <2> QED
    BY <1>4
<1>6. CASE meeting # {}
  <2>1. \E c \in pick : \A d \in pick : Quicker(c, d)
    BY <1>1, <1>2, <1>6, QuickestExists DEF base
  <2>2. quick \in pick /\ \A d \in pick : Quicker(quick, d)
    BY <2>1
  <2> HIDE DEF quick
  <2>3. \A d \in meeting : Penalty(quick, base) \in Int /\ Penalty(d, base) \in Int
    BY <1>1, <1>2, <2>2, Percentages DEF base
  <2>4. \A d \in meeting : Penalty(quick, base) <= Penalty(d, base)
    BY <1>1, <2>2, <2>3
  <2>5. answer.winner = {quick} /\ answer.achieved
    BY <1>5, <1>6
  <2>6. /\ quick \in points
        /\ \A c \in points : Saved(c, base) >= 100 * target =>
             answer.achieved /\ Penalty(quick, base) <= Penalty(c, base)
    BY <1>1, <2>2, <2>4, <2>5
  <2> QED
    BY <1>1, <2>5, <2>6 DEF answer, base
<1>7. CASE meeting = {}
  <2>1. \E c \in points : \A d \in points : Thriftier(c, d)
    BY <1>1, <1>2, ThriftiestExists DEF base
  <2>2. thrifty \in points
    BY <2>1
  <2> HIDE DEF thrifty
  <2>3. answer.winner = {thrifty}
    BY <1>5, <1>7
  <2>4. \A c \in points : ~(Saved(c, base) >= 100 * target)
    BY <1>7
  <2> QED
    BY <1>1, <2>2, <2>3, <2>4 DEF answer, base
<1> QED
  BY <1>6, <1>7

(* match_frontier_by_savings_target: if any configuration saves as much as *)
(* is asked for, so does the answer, and it is no slower.                  *)
THEOREM MatchFinds ==
  ASSUME NEW C, \A c \in C : IsSummary(c), NEW target \in Nat, NEW ids,
         NEW base, base = MatchBase(C, ids), IsSummary(base), base.energy > 0, base.median > 0,
         NEW c \in Plotted(C), Saved(c, base) >= 100 * target
  PROVE  /\ Match(C, target, ids, {}).achieved
         /\ \A w \in Match(C, target, ids, {}).winner : Penalty(w, base) <= Penalty(c, base)
<1>1. PICK d \in Frontier(C) : d.energy <= c.energy /\ d.median <= c.median
  BY FrontierCovers
<1>2. /\ c \in C /\ IsSummary(c) /\ Known(c) /\ IsSummary(d) /\ Known(d)
  BY DEF Plotted, Frontier
<1>3. Saved(c, base) <= Saved(d, base) /\ Penalty(d, base) <= Penalty(c, base)
  BY <1>1, <1>2, PercentagesGrow
<1>4. PICK w \in Frontier(C) :
        /\ Match(C, target, ids, {}).winner = {w}
        /\ \A e \in Frontier(C) : Saved(e, base) >= 100 * target =>
             Match(C, target, ids, {}).achieved /\ Penalty(w, base) <= Penalty(e, base)
  <2>1. Plotted(C) # {}
    OBVIOUS
  <2> QED
    BY <2>1, MatchAnswers
<1>5. IsSummary(w) /\ Known(w)
  BY DEF Plotted, Frontier
<1>6. /\ Saved(c, base) \in Int /\ Saved(d, base) \in Int
      /\ Penalty(c, base) \in Int /\ Penalty(d, base) \in Int /\ Penalty(w, base) \in Int
  BY <1>2, <1>5, Percentages
<1>7. Saved(d, base) >= 100 * target
  BY <1>3, <1>6
<1>8. Penalty(w, base) <= Penalty(d, base) /\ Match(C, target, ids, {}).achieved
  BY <1>4, <1>7
<1>9. Penalty(w, base) <= Penalty(c, base)
  BY <1>3, <1>6, <1>8
<1> QED
  BY <1>4, <1>8, <1>9

-----------------------------------------------------------------------------
(* What TypeOK says of a profile that is shown.                            *)
LEMMA ShownProfile ==
  ASSUME TypeOK, NEW x \in shown
  PROVE  (\A c \in x.configs : IsSummary(c)) /\ (\A c, d \in x.configs : c.id = d.id => c = d)
BY DEF TypeOK

(* On every well-formed profile a looser deadline has an answer when a     *)
(* tighter one has, and one that spends no more.                           *)
LEMMA TypedTighter == TypeOK => TighterCostsMore
<1> SUFFICES ASSUME TypeOK, NEW x \in shown, NEW margin \in Margins, NEW tight \in Deadlines,
                    NEW loose \in Deadlines, tight < loose,
                    NEW c \in SelectDeadline(x.configs, tight, AskedBaseline(x), margin, 0).winner
             PROVE  \E d \in SelectDeadline(x.configs, loose, AskedBaseline(x), margin, 0).winner :
                      d.energy <= c.energy
  BY DEF TighterCostsMore
<1>1. margin \in Nat /\ tight \in Nat /\ loose \in Nat /\ tight <= loose
  BY GoalsAssumption
<1>2. \A e \in x.configs : IsSummary(e)
  BY ShownProfile
<1> QED
  BY <1>1, <1>2, LooserDeadline

(* On every well-formed profile the energy target does not change which    *)
(* configuration is selected as long as the floor can be kept.             *)
LEMMA TypedFloor == TypeOK => FloorDecides
<1> SUFFICES ASSUME TypeOK, NEW x \in shown, NEW margin \in Margins, NEW goal \in Goals,
                    NEW deadline \in Deadlines,
                    \A b \in Named(x.configs, AskedBaseline(x)) : goal.floor * deadline = 100 * b.median,
                    SelectPreference(x.configs, goal.target, goal.floor, AskedBaseline(x), margin).outcome
                      \in {"both_met", "closest_perf_floor"}
             PROVE  SelectPreference(x.configs, goal.target, goal.floor, AskedBaseline(x), margin).winner
                      = SelectDeadline(x.configs, deadline, AskedBaseline(x), margin, 0).winner
  BY DEF FloorDecides
<1>1. margin \in Nat /\ deadline \in Nat /\ goal.target \in Nat /\ goal.floor \in Nat
  BY GoalsAssumption
<1> QED
  BY <1>1, ShownProfile, FloorIsDeadline

-----------------------------------------------------------------------------
(* What the autopilot extracts of a shown profile can all be plotted.      *)
LEMMA ExtractedProfile ==
  ASSUME TypeOK, NEW x \in shown
  PROVE  \A c \in Extracted(x) : IsSummary(c) /\ c \in Plotted(Extracted(x)) /\ c.energy > 0
<1> SUFFICES ASSUME NEW c \in Extracted(x)
             PROVE  IsSummary(c) /\ c \in Plotted(Extracted(x)) /\ c.energy > 0
  OBVIOUS
<1>1. PICK e \in x.configs : /\ e.median > 0 /\ e.energy > 0
                            /\ c = [e EXCEPT !.usable = TRUE, !.base = e.base \/ e.id \in x.base]
  BY DEF Extracted
<1>2. IsSummary(e)
  BY ShownProfile
<1>3. /\ DOMAIN c = DOMAIN e /\ c.id = e.id /\ c.pos = e.pos /\ c.boost = e.boost
      /\ c.worst = e.worst /\ c.median = e.median /\ c.energy = e.energy
      /\ c.usable = TRUE /\ c.base = (e.base \/ e.id \in x.base)
  BY <1>1, <1>2 DEF IsSummary
<1>4. c.base \in BOOLEAN
  BY <1>2, <1>3 DEF IsSummary
<1>5. IsSummary(c)
  BY <1>2, <1>3, <1>4 DEF IsSummary
<1>6. Known(c) /\ c.usable /\ c.median > 0
  BY <1>1, <1>3 DEF Known, NoEnergy
<1> QED
  BY <1>1, <1>3, <1>5, <1>6 DEF Plotted

(* The offered curve and the match take the savings over one baseline.     *)
LEMMA OneBaseline ==
  ASSUME NEW C, \A c \in C : IsSummary(c), NEW ids, \E c \in C : c.base \/ c.boost
  PROVE  CurveBase(C, ids) = MatchBase(C, ids) /\ MatchBase(C, ids) \in C
<1> DEFINE named == {c \in C : c.id \in ids}
           stock == {c \in C : c.base \/ c.boost}
           from == IF named # {} THEN named ELSE stock
<1>1. stock # {}
  OBVIOUS
<1>2. CurveBase(C, ids) = FirstOf(from) /\ MatchBase(C, ids) = FirstOf(from)
  BY <1>1 DEF CurveBase, MatchBase
<1>3. from # {} /\ \A c \in from : IsSummary(c) /\ c \in C
  BY <1>1
<1> HIDE DEF from
<1> QED
  BY <1>2, <1>3, FirstExists

(* On every well-formed profile with a stock configuration: if anything    *)
(* saves as much as is asked for, the autopilot is armed with something    *)
(* that does and is no slower, which curve-options offers with the saving  *)
(* that the receipts are taken from.                                       *)
LEMMA TypedMatch == TypeOK => MatchLosesNothing
<1> SUFFICES ASSUME TypeOK, NEW x \in shown, NEW target \in Targets, NEW named \in BOOLEAN,
                    \E c \in Extracted(x) : c.base \/ c.boost, named \/ Curve(x) # {}
             PROVE  LET C == Extracted(x)
                        base == CurveBase(C, x.base)
                        armed == Arm(x, [target |-> {target}, limit |-> {}, named |-> named])
                    IN  /\ \A c \in C : Saved(c, base) >= 100 * target =>
                             armed.achieved /\ \A w \in armed.config : Penalty(w, base) <= Penalty(c, base)
                        /\ \A offer \in Curve(x), w \in armed.config, of \in armed.curve :
                             \E p \in offer.points :
                               p.id = w.id /\ p.saved = Tenths(of.stock - of.config, of.stock)
  BY DEF MatchLosesNothing
<1> DEFINE C == Extracted(x)
           base == MatchBase(C, x.base)
           request == [target |-> {target}, limit |-> {}, named |-> named]
           armed == Arm(x, request)
           match == Match(C, target, x.base, {})
<1>1. \A c \in C : IsSummary(c) /\ c \in Plotted(C) /\ c.energy > 0
  BY ExtractedProfile
<1>2. CurveBase(C, x.base) = base /\ base \in C
  BY <1>1, OneBaseline
<1>3. IsSummary(base) /\ base.energy > 0 /\ base.median > 0 /\ Plotted(C) # {}
  BY <1>1, <1>2 DEF Plotted
<1>4. target \in Nat
  BY GoalsAssumption
<1>5. /\ armed.config = match.winner /\ armed.achieved = match.achieved
      /\ armed.curve = {[stock |-> base.energy, config |-> w.energy,
                         stock_s |-> base.median, config_s |-> w.median] : w \in match.winner}
  <2>1. Only({target}) = target
    BY DEF Only
  <2> QED
    BY <2>1 DEF Arm
<1> HIDE DEF C, armed
<1>6. ASSUME NEW c \in C, Saved(c, base) >= 100 * target
      PROVE  armed.achieved /\ \A w \in armed.config : Penalty(w, base) <= Penalty(c, base)
  <2>1. match.achieved /\ \A w \in match.winner : Penalty(w, base) <= Penalty(c, base)
    BY <1>1, <1>3, <1>4, <1>6, MatchFinds
  <2> QED
    BY <1>5, <2>1
<1>7. PICK w \in Frontier(C) : match.winner = {w}
  BY <1>1, <1>3, <1>4, MatchAnswers
<1>8. ASSUME NEW offer \in Curve(x)
      PROVE  \E p \in offer.points : p.id = w.id /\ p.saved = Tenths(base.energy - w.energy, base.energy)
  <2> DEFINE Point(b, c) == [id |-> c.id, saved |-> Tenths(b.energy - c.energy, b.energy),
                             slower |-> Tenths(c.median - b.median, b.median)]
             b == CurveBase(C, x.base)
  <2>1. offer = [base |-> b, points |-> {Point(b, c) : c \in Frontier(C)}]
    BY DEF Curve, C
  <2>2. offer.points = {Point(b, c) : c \in Frontier(C)}
    BY <2>1
  <2>3. b = base
    BY <1>2
  <2> HIDE DEF b, base
  <2>4. Point(base, w) \in offer.points
    BY <1>7, <2>2, <2>3
  <2> QED
    BY <2>4
<1>9. \A of \in armed.curve : of.stock = base.energy /\ of.config = w.energy
  BY <1>5, <1>7
<1> QED
  BY <1>2, <1>5, <1>6, <1>7, <1>8, <1>9 DEF C, armed

-----------------------------------------------------------------------------
(* What the overlay and the row hold of an experiment.                     *)
IsEntry(x) == DOMAIN x = {"configs", "base", "sel"} /\ x = [f \in DOMAIN x |-> x[f]]

(* The entries the actions make.                                           *)
LEMMA MadeEntries ==
  /\ IsEntry(Blank)
  /\ \A c, b, s : LET x == [configs |-> c, base |-> b, sel |-> s]
                  IN  IsEntry(x) /\ x.configs = c /\ x.base = b /\ x.sel = s
BY DEF IsEntry, Blank

(* Two of them are equal when their fields are.                            *)
LEMMA EqualEntries ==
  ASSUME NEW x, NEW y, IsEntry(x), IsEntry(y),
         x.configs = y.configs, x.base = y.base, x.sel = y.sel
  PROVE  x = y
BY DEF IsEntry

(* What an UPDATE of the selection leaves.                                 *)
LEMMA SelectionUpdated ==
  ASSUME NEW y, IsEntry(y), NEW s, NEW u, u = [y EXCEPT !.sel = s]
  PROVE  IsEntry(u) /\ u.configs = y.configs /\ u.base = y.base /\ u.sel = s
BY DEF IsEntry

(* The content of a slot that has one.                                     *)
LEMMA Contents ==
  ASSUME NEW x
  PROVE  Content({x}) = x /\ \A entry : Keep({x}, entry) = {entry} /\ Keep({}, entry) = {}
BY DEF Content, Only, Keep

(* A request, and what its first write makes of it.                        *)
IsRequest(r) == DOMAIN r = {"n", "saved", "sel"} /\ r = [f \in DOMAIN r |-> r[f]]

LEMMA Requests ==
  /\ \A n, b, a : LET r == [n |-> n, saved |-> b, sel |-> a]
                  IN  IsRequest(r) /\ r.n = n /\ r.saved = b /\ r.sel = a
  /\ \A r, u : (IsRequest(r) /\ u = [r EXCEPT !.saved = TRUE]) =>
                 IsRequest(u) /\ u.n = r.n /\ u.saved /\ u.sel = r.sel
BY DEF IsRequest

-----------------------------------------------------------------------------
(* Of finitely many natural numbers one is the greatest: the one with the  *)
(* fewest above it.                                                        *)
LEMMA GreatestPlace ==
  ASSUME NEW D, IsFiniteSet(D), D # {}, NEW f \in [D -> Nat]
  PROVE  \E i \in D : \A j \in D : f[j] <= f[i]
<1> DEFINE Above(i) == {j \in D : f[j] > f[i]}
           N == {Cardinality(Above(i)) : i \in D}
<1>1. \A i \in D : f[i] \in Nat
  OBVIOUS
<1>2. ASSUME NEW i \in D PROVE IsFiniteSet(Above(i)) /\ Cardinality(Above(i)) \in Nat
  <2>1. IsFiniteSet(Above(i))
    BY FS_Subset
  <2> QED
    BY <2>1, FS_CardinalityType
<1>3. N \in SUBSET Nat /\ N # {}
  BY <1>2
<1>4. PICK n \in N : \A m \in N : n <= m
  <2> HIDE DEF N
  <2> QED
    BY <1>3, LeastNat
<1>5. PICK i \in D : n = Cardinality(Above(i))
  BY <1>4
<1>6. ASSUME NEW j \in D, f[j] > f[i] PROVE FALSE
  <2>1. Above(j) \in SUBSET Above(i) /\ j \in Above(i) /\ j \notin Above(j)
    BY <1>1, <1>6
  <2>2. Cardinality(Above(j)) <= Cardinality(Above(i))
        /\ Cardinality(Above(j)) # Cardinality(Above(i))
    <3> HIDE DEF Above
    <3> QED
      BY <1>2, <2>1, FS_Subset
  <2>3. n <= Cardinality(Above(j))
    BY <1>4
  <2>4. Cardinality(Above(i)) \in Nat /\ Cardinality(Above(j)) \in Nat
    BY <1>2
  <2> HIDE DEF Above, N
  <2> QED
    BY <1>5, <2>2, <2>3, <2>4
<1>7. \A j \in D : f[i] \in Nat /\ f[j] \in Nat /\ ~(f[j] > f[i])
  BY <1>1, <1>6
<1>8. \A j \in D : f[j] <= f[i]
  BY <1>7
<1> HIDE DEF N, Above
<1> QED
  BY <1>8

(* The k-th of them in ascending order is one of them.                     *)
LEMMA KthTyped ==
  ASSUME NEW D, IsFiniteSet(D), NEW f \in [D -> Nat], NEW k \in 1..Cardinality(D)
  PROVE  Kth(f, k) \in Nat
<1> DEFINE UpTo(v) == {i \in D : f[i] <= v}
           Below(v) == {i \in D : f[i] < v}
           V == {v \in Nat : k <= Cardinality(UpTo(v))}
<1>1. Cardinality(D) \in Nat /\ DOMAIN f = D /\ k \in Nat /\ k <= Cardinality(D) /\ k >= 1
      /\ \A i \in D : f[i] \in Nat
  <2>1. Cardinality(D) \in Nat
    BY FS_CardinalityType
  <2> QED
    BY <2>1
<1>2. ASSUME NEW v \in Nat
      PROVE  /\ IsFiniteSet(UpTo(v)) /\ Cardinality(UpTo(v)) \in Nat
             /\ IsFiniteSet(Below(v)) /\ Cardinality(Below(v)) \in Nat
  <2>1. IsFiniteSet(UpTo(v)) /\ IsFiniteSet(Below(v))
    BY FS_Subset
  <2> QED
    BY <2>1, FS_CardinalityType
<1>3. V # {}
  <2>1. D # {}
    BY <1>1, FS_EmptySet
  <2>2. PICK i \in D : \A j \in D : f[j] <= f[i]
    BY <2>1, GreatestPlace
  <2>3. UpTo(f[i]) = D
    BY <2>2
  <2> QED
    BY <1>1, <2>3
<1>4. PICK v \in V : \A w \in V : v <= w
  <2> HIDE DEF V
  <2>1. V \in SUBSET Nat
    BY DEF V
  <2> QED
    BY <1>3, <2>1, LeastNat
<1>5. v \in Nat /\ k <= Cardinality(UpTo(v))
  BY <1>4
<1>6. Cardinality(Below(v)) < k
  <2>1. CASE v = 0
    <3>1. Below(v) = {}
      <4>1. \A i \in D : ~(f[i] < 0)
        BY <1>1
      <4> QED
        BY <2>1, <4>1
    <3>2. Cardinality(Below(v)) = 0
      BY <3>1, FS_EmptySet
    <3> HIDE DEF Below
    <3> QED
      BY <1>1, <3>2
  <2>2. CASE v # 0
    <3>1. v - 1 \in Nat /\ ~(v <= v - 1)
      BY <1>5, <2>2
    <3>2. Below(v) = UpTo(v - 1)
      <4>1. \A i \in D : f[i] < v <=> f[i] <= v - 1
        BY <1>1, <1>5
      <4> QED
        BY <4>1
    <3>3. ~(k <= Cardinality(UpTo(v - 1)))
      BY <1>4, <3>1
    <3>4. Cardinality(UpTo(v - 1)) \in Nat
      BY <1>2, <3>1
    <3> HIDE DEF Below, UpTo
    <3> QED
      BY <1>1, <3>2, <3>3, <3>4
  <2> QED
    BY <2>1, <2>2
<1>7. \E i \in D : f[i] = v
  <2> SUFFICES ASSUME \A i \in D : f[i] # v PROVE FALSE
    OBVIOUS
  <2>1. UpTo(v) = Below(v)
    <3>1. \A i \in D : f[i] <= v <=> f[i] < v
      BY <1>1, <1>5
    <3> QED
      BY <3>1
  <2>2. Cardinality(UpTo(v)) \in Nat
    BY <1>2, <1>5
  <2>3. Cardinality(UpTo(v)) = Cardinality(Below(v))
    BY <2>1
  <2> HIDE DEF UpTo, Below, V
  <2> QED
    BY <1>1, <1>5, <1>6, <2>2, <2>3
<1>8. v \in Range(f)
  BY <1>1, <1>7 DEF Range
<1>9. \E w \in Range(f) : /\ Cardinality({i \in DOMAIN f : f[i] < w}) < k
                          /\ k <= Cardinality({i \in DOMAIN f : f[i] <= w})
  BY <1>1, <1>5, <1>6, <1>8
<1>10. Kth(f, k) \in Range(f)
  BY <1>9, Zenon DEF Kth
<1>11. Range(f) \subseteq Nat
  BY <1>1 DEF Range
<1> QED
  BY <1>10, <1>11

(* A median of natural numbers is one.                                     *)
LEMMA MedianTyped ==
  ASSUME NEW D, IsFiniteSet(D), D # {}, NEW f \in [D -> Nat]
  PROVE  Median(f) \in Nat
<1>1. PICK n \in Nat : n = Cardinality(D) /\ n # 0
  BY FS_CardinalityType, FS_EmptySet
<1>2. PICK a \in 1..n, b \in 1..n : a = (n + 1) \div 2 /\ b = n \div 2 + 1
  <2>1. (n + 1) \div 2 \in 1..n /\ n \div 2 + 1 \in 1..n
    BY <1>1
  <2> QED
    BY <2>1
<1>3. Kth(f, a) \in Nat /\ Kth(f, b) \in Nat
  BY <1>1, <1>2, KthTyped
<1>4. Median(f) = (Kth(f, a) + Kth(f, b)) \div 2
  <2>1. DOMAIN f = D
    OBVIOUS
  <2> QED
    BY <1>1, <1>2, <2>1 DEF Median
<1> QED
  BY <1>3, <1>4

(* A least of natural numbers is one of them, ...                          *)
LEMMA MinTyped ==
  ASSUME NEW S \in SUBSET Nat, S # {}
  PROVE  Min(S) \in S
<1>1. \E n \in S : \A m \in S : n <= m
  BY LeastNat
<1> QED
  BY <1>1, Zenon DEF Min

(* ... and so is the greatest, of finitely many.                           *)
LEMMA MaxTyped ==
  ASSUME NEW D, IsFiniteSet(D), D # {}, NEW f \in [D -> Nat]
  PROVE  Max(Range(f)) \in Nat
<1>1. PICK i \in D : \A j \in D : f[j] <= f[i]
  BY GreatestPlace
<1>2. Range(f) \subseteq Nat /\ f[i] \in Range(f)
  BY DEF Range
<1>3. \A y \in Range(f) : f[i] >= y
  <2> SUFFICES ASSUME NEW j \in D PROVE f[i] >= f[j]
    BY DEF Range
  <2>1. f[j] <= f[i] /\ f[i] \in Nat /\ f[j] \in Nat
    BY <1>1
  <2> QED
    BY <2>1
<1>4. \E x \in Range(f) : \A y \in Range(f) : x >= y
  BY <1>2, <1>3
<1>5. Max(Range(f)) \in Range(f)
  BY <1>4, Zenon DEF Max
<1> QED
  BY <1>2, <1>5

-----------------------------------------------------------------------------
(* What was measured before and what the sweep has measured.               *)
IsCalibration(cal) ==
  /\ Len(cal) \in Nat /\ DOMAIN cal = 1..Len(cal)
  /\ \A i \in 1..Len(cal) : IsMeasurement(cal[i]) /\ cal[i].scale \in Nat

IsRuns(rs) ==
  /\ Len(rs) \in Nat /\ DOMAIN rs = 1..Len(rs) /\ rs \in Seq({rs[i] : i \in 1..Len(rs)})
  /\ \A i \in 1..Len(rs) : IsMeasurement(rs[i])

(* A row of a profile.                                                     *)
IsRow(r) ==
  /\ r = [key |-> r.key, pos |-> r.pos, median |-> r.median, worst |-> r.worst, energy |-> r.energy]
  /\ r.pos \in Nat /\ r.median \in Nat /\ r.worst \in Nat /\ r.energy \in Nat \cup {NoEnergy}

(* A calibration in the chunks of a run.                                   *)
LEMMA ScaledTyped ==
  ASSUME NEW cal, IsCalibration(cal)
  PROVE  /\ Len(Scaled(cal)) = Len(cal)
         /\ Scaled(cal) \in Seq({Scaled(cal)[i] : i \in 1..Len(cal)})
         /\ \A i \in 1..Len(cal) : Scaled(cal)[i].key = cal[i].key /\ IsMeasurement(Scaled(cal)[i])
<1> DEFINE s == Scaled(cal)
           E(i) == [key |-> cal[i].key, runtime |-> cal[i].runtime * cal[i].scale,
                    energy |-> IF cal[i].energy = NoEnergy THEN NoEnergy
                               ELSE cal[i].energy * cal[i].scale]
<1>1. s = [i \in 1..Len(cal) |-> E(i)] /\ Len(cal) \in Nat
  BY DEF Scaled, IsCalibration
<1>2. ASSUME NEW i \in 1..Len(cal)
      PROVE  s[i].key = cal[i].key /\ IsMeasurement(s[i])
  <2>1. cal[i].runtime \in Nat /\ cal[i].scale \in Nat /\ cal[i].energy \in Nat \cup {NoEnergy}
    BY DEF IsCalibration, IsMeasurement
  <2>2. PICK a \in Nat, b \in Nat, e \in Nat \cup {NoEnergy} :
          a = cal[i].runtime /\ b = cal[i].scale /\ e = cal[i].energy
    BY <2>1
  <2>3. PICK x \in Nat : x = a * b
    OBVIOUS
  <2>4. PICK y \in Nat \cup {NoEnergy} : y = IF e = NoEnergy THEN NoEnergy ELSE e * b
    <3>1. CASE e = NoEnergy
      BY <3>1
    <3>2. CASE e \in Nat /\ e # NoEnergy
      <4>1. e * b \in Nat
        BY <3>2
      <4> QED
        BY <3>2, <4>1
    <3> QED
      BY <3>1, <3>2
  <2>5. s[i] = [key |-> cal[i].key, runtime |-> x, energy |-> y]
    BY <1>1, <2>2, <2>3, <2>4
  <2> HIDE DEF s, E
  <2> QED
    BY <2>5 DEF IsMeasurement
<1>3. s \in Seq({s[i] : i \in 1..Len(cal)}) /\ Len(s) = Len(cal)
  <2> HIDE DEF E
  <2>1. \A i \in 1..Len(cal) : s[i] \in {s[j] : j \in 1..Len(cal)}
    OBVIOUS
  <2>2. DOMAIN s = 1..Len(cal) /\ s = [i \in 1..Len(cal) |-> s[i]]
    BY <1>1
  <2> HIDE DEF s
  <2>3. s \in [1..Len(cal) -> {s[j] : j \in 1..Len(cal)}]
    BY <2>1, <2>2
  <2> QED
    BY <1>1, <2>3
<1> QED
  BY <1>2, <1>3

(* What is relied on of the samples that count.                            *)
Sampled(cal, rs, all) ==
  /\ IsFiniteSet(Counted(cal, rs)) /\ Counted(cal, rs) \subseteq 1..(Len(cal) + Len(rs))
  /\ \A i \in Counted(cal, rs) :
       /\ IsMeasurement(all[i])
       /\ \/ i \in 1..Len(cal) /\ all[i].key = cal[i].key
          \/ \E j \in 1..Len(rs) : all[i].key = rs[j].key
  /\ rs = <<>> => \A i \in 1..Len(cal) : i \in Counted(cal, rs) /\ all[i].key = cal[i].key

(* They are finitely many, and each is a measurement of a run that         *)
(* succeeded or of a point of the calibration.                             *)
LEMMA SamplesTyped ==
  ASSUME NEW cal, NEW rs, IsCalibration(cal), IsRuns(rs), NEW all, all = Scaled(cal) \o rs
  PROVE  Sampled(cal, rs, all)
<1> DEFINE s == Scaled(cal)
           S == {s[i] : i \in 1..Len(cal)} \cup {rs[i] : i \in 1..Len(rs)}
<1>1. Len(cal) \in Nat /\ Len(rs) \in Nat /\ DOMAIN cal = 1..Len(cal) /\ DOMAIN rs = 1..Len(rs)
  BY DEF IsCalibration, IsRuns
<1>2. s \in Seq(S) /\ rs \in Seq(S) /\ Len(s) = Len(cal)
  <2>1. s \in Seq({s[i] : i \in 1..Len(cal)}) /\ Len(s) = Len(cal) /\ rs \in Seq({rs[i] : i \in 1..Len(rs)})
    BY ScaledTyped DEF IsRuns
  <2> HIDE DEF s
  <2> QED
    BY <2>1
<1>3. /\ \A i \in 1..Len(cal) : all[i] = s[i]
      /\ \A j \in 1..Len(rs) : all[Len(cal) + j] = rs[j]
  <2>1. \A i \in 1..(Len(s) + Len(rs)) : all[i] = IF i <= Len(s) THEN s[i] ELSE rs[i - Len(s)]
    <3> HIDE DEF s, S
    <3> QED
      BY <1>2, ConcatProperties DEF s
  <2>2. ASSUME NEW j \in 1..Len(rs) PROVE all[Len(cal) + j] = rs[j]
    <3>1. Len(cal) + j \in 1..(Len(s) + Len(rs)) /\ ~(Len(cal) + j <= Len(s)) /\ (Len(cal) + j) - Len(s) = j
      BY <1>1, <1>2
    <3> HIDE DEF s
    <3> QED
      BY <1>2, <2>1, <3>1
  <2>3. ASSUME NEW i \in 1..Len(cal) PROVE all[i] = s[i]
    <3>1. i \in 1..(Len(s) + Len(rs)) /\ i <= Len(s)
      BY <1>1, <1>2
    <3> HIDE DEF s
    <3> QED
      BY <2>1, <3>1
  <2> QED
    BY <2>2, <2>3
<1>4. \A i \in Counted(cal, rs) : i \in 1..Len(cal) \/ \E j \in 1..Len(rs) : i = Len(cal) + j
  BY <1>1 DEF Counted, Fresh
<1>5. Counted(cal, rs) \subseteq 1..(Len(cal) + Len(rs))
  BY <1>1, <1>4
<1>6. IsFiniteSet(Counted(cal, rs))
  <2>1. IsFiniteSet(1..(Len(cal) + Len(rs)))
    BY <1>1, FS_Interval
  <2> QED
    BY <1>5, <2>1, FS_Subset
<1>7. ASSUME NEW i \in Counted(cal, rs)
      PROVE  /\ IsMeasurement(all[i])
             /\ \/ i \in 1..Len(cal) /\ all[i].key = cal[i].key
                \/ \E j \in 1..Len(rs) : all[i].key = rs[j].key
  <2>1. CASE i \in 1..Len(cal)
    <3>1. all[i] = s[i] /\ s[i].key = cal[i].key /\ IsMeasurement(s[i])
      BY <1>3, <2>1, ScaledTyped
    <3> HIDE DEF s
    <3> QED
      BY <2>1, <3>1
  <2>2. CASE \E j \in 1..Len(rs) : i = Len(cal) + j
    <3>1. PICK j \in 1..Len(rs) : i = Len(cal) + j
      BY <2>2
    <3>2. all[i] = rs[j] /\ IsMeasurement(rs[j])
      BY <1>3, <3>1 DEF IsRuns
    <3> QED
      BY <3>2
  <2> QED
    BY <1>4, <2>1, <2>2
<1>8. ASSUME rs = <<>>, NEW i \in 1..Len(cal) PROVE i \in Counted(cal, rs) /\ all[i].key = cal[i].key
  <2>1. i \in Counted(cal, rs)
    BY <1>1, <1>8 DEF Counted
  <2>2. all[i] = s[i] /\ s[i].key = cal[i].key
    BY <1>3, ScaledTyped
  <2> HIDE DEF s
  <2> QED
    BY <2>1, <2>2
<1> QED
  BY <1>5, <1>6, <1>7, <1>8 DEF Sampled

(* The row of some samples.                                                *)
LEMMA RowTyped ==
  ASSUME NEW key, NEW all, NEW places \in SUBSET Nat, IsFiniteSet(places), places # {},
         \A i \in places : IsMeasurement(all[i]), NEW r, r = Row(key, all, places)
  PROVE  IsRow(r) /\ r.key = key /\ r.pos \in places
<1> DEFINE known == {i \in places : all[i].energy # NoEnergy}
           runtimes == [i \in places |-> all[i].runtime]
           energies == [i \in known |-> all[i].energy]
<1>1. runtimes \in [places -> Nat]
  BY DEF IsMeasurement
<1>2. energies \in [known -> Nat] /\ IsFiniteSet(known)
  <2>1. \A i \in known : all[i].energy \in Nat
    BY DEF IsMeasurement
  <2>2. IsFiniteSet(known)
    BY FS_Subset
  <2> QED
    BY <2>1, <2>2
<1>3. Median(runtimes) \in Nat /\ Max(Range(runtimes)) \in Nat /\ Min(places) \in places
  <2> HIDE DEF runtimes
  <2> QED
    BY <1>1, MedianTyped, MaxTyped, MinTyped
<1>4. known # {} => Median(energies) \in Nat
  <2> HIDE DEF known, energies
  <2> QED
    BY <1>2, MedianTyped
<1>5. r = [key |-> key, pos |-> Min(places), median |-> Median(runtimes), worst |-> Max(Range(runtimes)),
           energy |-> IF known = {} THEN NoEnergy ELSE Median(energies)]
  BY Zenon DEF Row
<1> HIDE DEF known, runtimes, energies
<1>6. PICK m \in Nat, w \in Nat, p \in places : m = Median(runtimes) /\ w = Max(Range(runtimes)) /\ p = Min(places)
  BY <1>3
<1>7. PICK e \in Nat \cup {NoEnergy} : e = IF known = {} THEN NoEnergy ELSE Median(energies)
  BY <1>4
<1>8. r = [key |-> key, pos |-> p, median |-> m, worst |-> w, energy |-> e] /\ p \in Nat
  BY <1>5, <1>6, <1>7
<1> QED
  BY <1>8 DEF IsRow

(* The rows of a profile: their places are bounded, and their keys are     *)
(* those of the calibration and of the runs.                               *)
LEMMA RowsTyped ==
  ASSUME NEW cal, NEW rs, IsCalibration(cal), IsRuns(rs)
  PROVE  /\ \A r \in ProfileRows(cal, rs) :
              /\ IsRow(r) /\ r.pos <= Len(cal) + Len(rs)
              /\ \/ \E i \in 1..Len(cal) : r.key = cal[i].key
                 \/ \E j \in 1..Len(rs) : r.key = rs[j].key
         /\ rs = <<>> => \A i \in 1..Len(cal) : \E r \in ProfileRows(cal, rs) : r.key = cal[i].key
<1> DEFINE I == Counted(cal, rs)
<1>1. PICK all : all = Scaled(cal) \o rs
  OBVIOUS
<1> DEFINE Of(k) == {i \in I : all[i].key = k}
<1>2. Len(cal) \in Nat /\ Len(rs) \in Nat
  BY DEF IsCalibration, IsRuns
<1>3. /\ IsFiniteSet(I) /\ I \subseteq 1..(Len(cal) + Len(rs)) /\ I \in SUBSET Nat
      /\ \A i \in I : /\ IsMeasurement(all[i])
                      /\ \/ i \in 1..Len(cal) /\ all[i].key = cal[i].key
                         \/ \E j \in 1..Len(rs) : all[i].key = rs[j].key
      /\ rs = <<>> => \A i \in 1..Len(cal) : i \in I /\ all[i].key = cal[i].key
  <2>1. Sampled(cal, rs, all)
    BY <1>1, SamplesTyped
  <2>2. Counted(cal, rs) \in SUBSET Nat
    BY <1>2, <2>1 DEF Sampled
  <2> QED
    BY <2>1, <2>2, Zenon DEF Sampled
<1>4. ProfileRows(cal, rs) = {Row(k, all, Of(k)) : k \in {all[i].key : i \in I}}
  BY <1>1, Zenon DEF ProfileRows
<1> HIDE DEF I
<1>5. ASSUME NEW k \in {all[i].key : i \in I}, NEW r, r = Row(k, all, Of(k))
      PROVE  /\ IsRow(r) /\ r.pos <= Len(cal) + Len(rs) /\ r.key = k
             /\ \/ \E i \in 1..Len(cal) : r.key = cal[i].key
                \/ \E j \in 1..Len(rs) : r.key = rs[j].key
  <2>1. Of(k) \in SUBSET Nat /\ IsFiniteSet(Of(k)) /\ Of(k) # {} /\ \A i \in Of(k) : i \in I
    <3>1. Of(k) \in SUBSET I
      OBVIOUS
    <3>2. IsFiniteSet(Of(k))
      <4> HIDE DEF Of
      <4> QED
        BY <1>3, <3>1, FS_Subset
    <3> QED
      BY <1>3, <3>1, <3>2
  <2>2. IsRow(r) /\ r.key = k /\ r.pos \in Of(k)
    <3> HIDE DEF Of
    <3> QED
      BY <1>3, <1>5, <2>1, RowTyped
  <2>3. r.pos \in I /\ all[r.pos].key = k
    BY <2>2
  <2>4. r.pos \in 1..(Len(cal) + Len(rs))
    BY <1>3, <2>3
  <2> QED
    BY <1>2, <1>3, <2>2, <2>3, <2>4
<1>6. ASSUME rs = <<>>, NEW i \in 1..Len(cal) PROVE \E r \in ProfileRows(cal, rs) : r.key = cal[i].key
  <2>1. cal[i].key \in {all[j].key : j \in I}
    BY <1>3, <1>6
  <2>2. PICK r : r = Row(cal[i].key, all, Of(cal[i].key))
    OBVIOUS
  <2>3. r \in ProfileRows(cal, rs)
    BY <1>4, <2>1, <2>2
  <2>4. r.key = cal[i].key
    BY <1>5, <2>1, <2>2
  <2> QED
    BY <2>3, <2>4
<1>7. ASSUME NEW r \in ProfileRows(cal, rs)
      PROVE  /\ IsRow(r) /\ r.pos <= Len(cal) + Len(rs)
             /\ \/ \E i \in 1..Len(cal) : r.key = cal[i].key
                \/ \E j \in 1..Len(rs) : r.key = rs[j].key
  <2>1. PICK k \in {all[i].key : i \in I} : r = Row(k, all, Of(k))
    BY <1>4
  <2> HIDE DEF Of
  <2> QED
    BY <1>5, <2>1
<1> QED
  BY <1>6, <1>7

-----------------------------------------------------------------------------
(* The quickest exists, and is one of them.                                *)
LEMMA FastestExists ==
  ASSUME NEW S, S # {}, \A c \in S : IsSummary(c) /\ Known(c)
  PROVE  Fastest(S) \in S
<1>1. \A c \in S : c.worst \in Nat
  BY DEF IsSummary
<1>2. PICK w \in {c.worst : c \in S} : \A m \in {c.worst : c \in S} : w <= m
  <2>1. {c.worst : c \in S} \in SUBSET Nat /\ {c.worst : c \in S} # {}
    BY <1>1
  <2> QED
    BY <2>1, LeastNat
<1> DEFINE Q == {c \in S : c.worst = w}
<1>3. Q # {} /\ \A c \in Q : IsSummary(c) /\ Known(c) /\ c \in S /\ c.worst = w
  BY <1>2
<1>4. PICK c \in Q : \A d \in Q : Cheaper(c, d)
  <2> HIDE DEF Q
  <2>1. IsCheapest(Cheapest(Q), Q)
    BY <1>3, CheapestExists
  <2> QED
    BY <2>1 DEF IsCheapest
<1>5. ASSUME NEW d \in S PROVE Faster(c, d)
  <2>1. w <= d.worst /\ c.worst = w /\ d.worst \in Nat /\ w \in Nat
    BY <1>1, <1>2, <1>3, <1>4
  <2>2. CASE d.worst = w
    BY <1>4, <2>1, <2>2 DEF Faster
  <2>3. CASE d.worst # w
    BY <2>1, <2>3 DEF Faster
  <2> QED
    BY <2>2, <2>3
<1>6. c \in S
  BY <1>3, <1>4
<1>7. \E x \in S : \A d \in S : Faster(x, d)
  BY <1>5, <1>6
<1> QED
  BY <1>7, Zenon DEF Fastest

(* An answer that is one of the summaries, or none.                        *)
OneOf(a, C) == a.cands = C /\ (a.winner = {} \/ \E w \in C : a.winner = {w})

(* select_deadline's, ...                                                 *)
LEMMA DeadlineAnswers ==
  ASSUME NEW C, \A c \in C : IsSummary(c), NEW deadline, NEW baseId, NEW margin, NEW task,
         NEW a, a = SelectDeadline(C, deadline, baseId, margin, task)
  PROVE  OneOf(a, C) /\ a.base \subseteq {baseId}
<1> DEFINE F == Feasible(C, deadline, baseId, margin, task)
<1>1. /\ a.cands = C /\ a.winner = (IF F = {} THEN {} ELSE {Cheapest(F)})
      /\ a.base = {baseId}
  BY DEF SelectDeadline, Answer
<1>2. \A c \in F : c \in C /\ IsSummary(c) /\ Known(c)
  BY FeasibleKnown
<1> HIDE DEF F
<1>3. CASE F = {}
  BY <1>1, <1>3 DEF OneOf
<1>4. CASE F # {}
  <2>1. Cheapest(F) \in C
    BY <1>2, <1>4, CheapestExists DEF IsCheapest
  <2> QED
    BY <1>1, <1>4, <2>1 DEF OneOf
<1> QED
  BY <1>3, <1>4

(* ... and select_preference's.                                            *)
LEMMA PreferenceAnswers ==
  ASSUME NEW C, \A c \in C : IsSummary(c), NEW target, NEW floor, NEW baseId, NEW margin,
         NEW a, a = SelectPreference(C, target, floor, baseId, margin)
  PROVE  OneOf(a, C) /\ a.base \subseteq {baseId}
<1> DEFINE base == FirstOf(Named(C, baseId))
           perf == {c \in Measured(C) : KeepsFloor(c, base, floor, margin)}
           energy == {c \in Measured(C) : KeepsTarget(c, base, target)}
           both == perf \cap energy
           Made(outcome, c) == Answer("preference", "selected", outcome, {c}, {baseId}, C)
           None(status, ids) == Answer("preference", status, "none_feasible", {}, ids, C)
<1>1. \/ a = None("profile_unusable", {}) \/ a = None("no_feasible_point", {baseId})
      \/ both # {} /\ a = Made("both_met", Cheapest(both))
      \/ perf # {} /\ a = Made("closest_perf_floor", Cheapest(perf))
      \/ energy # {} /\ a = Made("closest_energy_target", Fastest(energy))
  BY Zenon DEF SelectPreference
<1>2. \A c \in perf \cup energy : c \in C /\ IsSummary(c) /\ Known(c)
  BY DEF Measured
<1>3. both \subseteq perf
  OBVIOUS
<1> HIDE DEF perf, energy, both
<1>4. \A S : (S # {} /\ S \subseteq perf \cup energy) => Cheapest(S) \in C /\ Fastest(S) \in C
  <2> SUFFICES ASSUME NEW S, S # {}, S \subseteq perf \cup energy
               PROVE  Cheapest(S) \in C /\ Fastest(S) \in C
    OBVIOUS
  <2>1. \A c \in S : IsSummary(c) /\ Known(c) /\ c \in C
    BY <1>2
  <2>2. Cheapest(S) \in S /\ Fastest(S) \in S
    BY <2>1, CheapestExists, FastestExists DEF IsCheapest
  <2> QED
    BY <2>1, <2>2
<1>5. CASE a = None("profile_unusable", {}) \/ a = None("no_feasible_point", {baseId})
  BY <1>5 DEF Answer, OneOf
<1>6. ASSUME NEW c \in C, NEW outcome, a = Made(outcome, c) PROVE OneOf(a, C) /\ a.base \subseteq {baseId}
  BY <1>6 DEF Answer, OneOf
<1> HIDE DEF Made
<1> QED
  BY <1>1, <1>3, <1>4, <1>5, <1>6

-----------------------------------------------------------------------------
(* What _select makes of a row.                                            *)
LEMMA SummaryMade ==
  ASSUME NEW r, IsRow(r), IsPoint(r.key), NEW base \in BOOLEAN, NEW c, c = Summary(r, base)
  PROVE  /\ IsSummary(c) /\ c.id = MakeConfigId(r.key) /\ c.key = r.key /\ c.boost = r.key.boost
         /\ c.base = base
<1>1. (r.energy # NoEnergy) \in BOOLEAN /\ r.key.boost \in BOOLEAN
  BY DEF IsPoint
<1>2. PICK u \in BOOLEAN, b \in BOOLEAN : u = (r.energy # NoEnergy) /\ b = r.key.boost
  BY <1>1
<1>3. c = [id |-> MakeConfigId(r.key), key |-> r.key, pos |-> r.pos, boost |-> b, base |-> base,
           usable |-> u, worst |-> r.median, median |-> r.median, energy |-> r.energy]
  BY <1>2 DEF Summary
<1>4. MakeConfigId(r.key) \in Ids /\ r.pos \in Nat /\ r.median \in Nat /\ r.energy \in Nat \cup {NoEnergy}
  BY DEF IsRow, IsPoint
<1> QED
  BY <1>2, <1>3, <1>4 DEF IsSummary

(* The engine's baseline is a row, and one with boost if there is any.     *)
LEMMA EngineBaselineIs ==
  ASSUME NEW rows, rows # {}, \A r \in rows : IsRow(r)
  PROVE  /\ EngineBaseline(rows) \in rows
         /\ (\E r \in rows : r.key.boost) => EngineBaseline(rows).key.boost
<1> DEFINE stock == {r \in rows : r.key.boost}
           from == IF stock # {} THEN stock ELSE rows
           quick == {r \in from : \A s \in from : r.median <= s.median}
<1>1. from # {} /\ \A r \in from : r \in rows /\ r.median \in Nat /\ r.pos \in Nat
  BY DEF IsRow
<1>2. from = stock \/ ~\E r \in rows : r.key.boost
  OBVIOUS
<1>3. EngineBaseline(rows) = FirstOf(quick)
  BY Zenon DEF EngineBaseline
<1> HIDE DEF from
<1>4. quick # {}
  <2>1. {r.median : r \in from} \in SUBSET Nat /\ {r.median : r \in from} # {}
    BY <1>1
  <2>2. PICK m \in {r.median : r \in from} : \A n \in {r.median : r \in from} : m <= n
    BY <2>1, LeastNat
  <2> QED
    BY <2>2
<1>5. \A r \in quick : r \in from /\ r.pos \in Nat
  BY <1>1
<1> HIDE DEF quick
<1>6. FirstOf(quick) \in quick
  <2>1. {r.pos : r \in quick} \in SUBSET Nat /\ {r.pos : r \in quick} # {}
    BY <1>4, <1>5
  <2>2. PICK p \in {r.pos : r \in quick} : \A m \in {r.pos : r \in quick} : p <= m
    BY <2>1, LeastNat
  <2>3. \E r \in quick : \A s \in quick : r.pos <= s.pos
    BY <2>2
  <2> QED
    BY <2>3, Zenon DEF FirstOf
<1>7. EngineBaseline(rows) \in from
  BY <1>3, <1>5, <1>6
<1>8. EngineBaseline(rows) \in rows
  BY <1>1, <1>7
<1>9. (\E r \in rows : r.key.boost) => EngineBaseline(rows).key.boost
  BY <1>2, <1>7
<1> QED
  BY <1>8, <1>9

-----------------------------------------------------------------------------
(* Rows that a profile can be made of: finitely many places, points.       *)
AreRows(rows) ==
  /\ \A r \in rows : IsRow(r) /\ IsPoint(r.key)
  /\ \E n \in Nat : \A r \in rows : r.pos <= n

(* A configuration of a row.                                               *)
MadeOf(c, rows) ==
  IsSummary(c) /\ \E r \in rows : /\ c.id = MakeConfigId(r.key) /\ c.key = r.key
                                  /\ c.boost = r.key.boost

(* The profile has one configuration for each id, with the flag the id has.*)
LEMMA ConfigurationsMade ==
  ASSUME NEW rows, AreRows(rows), NEW ids
  PROVE  /\ \A c \in Configurations(rows, ids) : MadeOf(c, rows) /\ (c.base <=> c.id \in ids)
         /\ \A c, d \in Configurations(rows, ids) : c.id = d.id => c = d
<1> DEFINE Of(id) == {r \in rows : MakeConfigId(r.key) = id}
           Later(id) == CHOOSE r \in Of(id) : \A s \in Of(id) : s.pos <= r.pos
           Entry(id) == [Summary(Later(id), id \in ids)
                           EXCEPT !.worst = Later(id).worst, !.pos = Min({r.pos : r \in Of(id)})]
           known == {MakeConfigId(r.key) : r \in rows}
<1>1. Configurations(rows, ids) = {Entry(id) : id \in known}
  BY Zenon DEF Configurations
<1>2. ASSUME NEW id \in known, NEW c, c = Entry(id)
      PROVE  MadeOf(c, rows) /\ c.id = id /\ (c.base <=> id \in ids)
  <2>1. Of(id) # {} /\ \A r \in Of(id) : r \in rows /\ IsRow(r) /\ IsPoint(r.key) /\ MakeConfigId(r.key) = id
    BY DEF AreRows
  <2>2. PICK n \in Nat : \A r \in rows : r.pos <= n
    BY DEF AreRows
  <2>3. {r.pos : r \in Of(id)} \in SUBSET Nat /\ {r.pos : r \in Of(id)} # {}
    BY <2>1 DEF IsRow
  <2>4. Later(id) \in Of(id)
    <3>1. \A p \in {r.pos : r \in Of(id)} : p <= n
      BY <2>1, <2>2
    <3>2. PICK p \in {r.pos : r \in Of(id)} : \A m \in {r.pos : r \in Of(id)} : m <= p
      <4>1. PICK S : S = {r.pos : r \in Of(id)}
        OBVIOUS
      <4>2. S \in SUBSET Int /\ S # {} /\ n \in Int /\ \A p \in S : p <= n
        BY <2>2, <2>3, <3>1, <4>1
      <4>3. \E p \in S : \A m \in S : m <= p
        BY <4>2, GreatestInt
      <4> QED
        BY <4>1, <4>3, Zenon
    <3>3. PICK r \in Of(id) : p = r.pos
      BY <3>2
    <3>4. \A s \in Of(id) : s.pos <= r.pos
      BY <3>2, <3>3
    <3>5. \E t \in Of(id) : \A s \in Of(id) : s.pos <= t.pos
      BY <3>4
    <3> HIDE DEF Of
    <3> QED
      BY <3>5, Zenon
  <2>5. PICK p \in Nat : p = Min({r.pos : r \in Of(id)})
    <3>1. Min({r.pos : r \in Of(id)}) \in {r.pos : r \in Of(id)}
      BY <2>3, MinTyped
    <3> QED
      BY <2>3, <3>1
  <2>6. PICK r : r = Later(id)
    OBVIOUS
  <2>7. r \in rows /\ IsRow(r) /\ IsPoint(r.key) /\ MakeConfigId(r.key) = id /\ r.worst \in Nat
    BY <2>1, <2>4, <2>6 DEF IsRow
  <2>8. PICK b \in BOOLEAN : b <=> id \in ids
    OBVIOUS
  <2>9. PICK s : s = Summary(r, b)
    OBVIOUS
  <2>10. c = [s EXCEPT !.worst = r.worst, !.pos = p]
    <3>1. (id \in ids) = b
      BY <2>8
    <3> HIDE DEF Later, Of
    <3> QED
      BY <1>2, <2>5, <2>6, <2>9, <3>1
  <2>11. IsSummary(s) /\ s.id = id /\ s.key = r.key /\ s.boost = r.key.boost /\ s.base = b
    BY <2>7, <2>9, SummaryMade
  <2>12. /\ DOMAIN c = DOMAIN s /\ c.id = s.id /\ c.key = s.key /\ c.pos = p /\ c.boost = s.boost
         /\ c.base = s.base /\ c.usable = s.usable /\ c.worst = r.worst /\ c.median = s.median
         /\ c.energy = s.energy
    BY <2>10, <2>11 DEF IsSummary
  <2>13. IsSummary(c)
    BY <2>5, <2>7, <2>11, <2>12 DEF IsSummary
  <2> QED
    BY <2>7, <2>8, <2>11, <2>12, <2>13 DEF MadeOf
<1> HIDE DEF Entry
<1>3. \A c \in Configurations(rows, ids) : MadeOf(c, rows) /\ (c.base <=> c.id \in ids)
  BY <1>1, <1>2
<1>4. ASSUME NEW c \in Configurations(rows, ids), NEW d \in Configurations(rows, ids), c.id = d.id
      PROVE  c = d
  <2>1. PICK i \in known : c = Entry(i)
    BY <1>1
  <2>2. PICK j \in known : d = Entry(j)
    BY <1>1
  <2>3. c.id = i /\ d.id = j
    BY <1>2, <2>1, <2>2
  <2> QED
    BY <1>4, <2>1, <2>2, <2>3
<1> QED
  BY <1>3, <1>4

(* The baseline of a profile is the id of one of its configurations.       *)
LEMMA ProfileBaseMade ==
  ASSUME NEW configs, \A c \in configs : IsSummary(c), NEW sel
  PROVE  ProfileBase(configs, sel) \subseteq Ids
<1> DEFINE flagged == {c \in configs : c.base \/ c.boost}
           named == {id \in sel.base : Named(configs, id) # {}}
<1>1. ProfileBase(configs, sel) = IF named # {} THEN named
                                  ELSE IF flagged # {} THEN {FirstOf(flagged).id}
                                  ELSE IF configs # {} THEN {FirstOf(configs).id} ELSE {}
  BY DEF ProfileBase
<1>2. named \subseteq Ids
  BY DEF Named, IsSummary
<1>3. \A c \in flagged : c \in configs /\ IsSummary(c)
  OBVIOUS
<1> HIDE DEF flagged, named
<1>4. flagged # {} => FirstOf(flagged).id \in Ids
  BY <1>3, FirstExists DEF IsSummary
<1>5. configs # {} => FirstOf(configs).id \in Ids
  BY FirstExists DEF IsSummary
<1> QED
  BY <1>1, <1>2, <1>4, <1>5

(* The engine's selection is of the summaries of its rows; what it flags,  *)
(* and the id of its baseline, have boost if any row has.                  *)
LEMMA DraftMade ==
  ASSUME NEW rows, AreRows(rows), NEW goal, NEW a, a = EngineSelect(rows, goal)
  PROVE  /\ OneOf(a, a.cands) /\ \A c \in a.cands : MadeOf(c, rows)
         /\ (\E r \in rows : r.key.boost) =>
              (\A c \in a.cands : c.base => c.boost) /\ (\A id \in a.base : id.boost)
<1>1. PICK base : base = EngineBaseline(rows)
  OBVIOUS
<1> DEFINE C == {Summary(r, r = base) : r \in rows}
           baseId == MakeConfigId(base.key)
<1>2. a = IF goal.mode = "preference"
          THEN SelectPreference(C, goal.target, goal.floor, baseId, 5)
          ELSE SelectDeadline(C, goal.deadline, baseId, 5, goal.task)
  BY <1>1, Zenon DEF EngineSelect
<1>3. ASSUME NEW c \in C
      PROVE  /\ MadeOf(c, rows)
             /\ c.base => base \in rows /\ c.boost = base.key.boost
  <2>1. PICK r \in rows : c = Summary(r, r = base)
    OBVIOUS
  <2>2. PICK b \in BOOLEAN : b <=> r = base
    OBVIOUS
  <2>3. c = Summary(r, b)
    <3>1. (r = base) = b
      BY <2>2
    <3> QED
      BY <2>1, <3>1
  <2>4. IsRow(r) /\ IsPoint(r.key)
    BY DEF AreRows
  <2>5. /\ IsSummary(c) /\ c.id = MakeConfigId(r.key) /\ c.key = r.key /\ c.boost = r.key.boost
        /\ c.base = b
    BY <2>3, <2>4, SummaryMade
  <2>6. MadeOf(c, rows)
    BY <2>5 DEF MadeOf
  <2> QED
    BY <2>2, <2>5, <2>6
<1>4. \A c \in C : IsSummary(c)
  BY <1>3 DEF MadeOf
<1> HIDE DEF C
<1>5. OneOf(a, C) /\ a.base \subseteq {baseId}
  <2> HIDE DEF baseId
  <2>1. CASE goal.mode = "preference"
    BY <1>2, <1>4, <2>1, PreferenceAnswers
  <2>2. CASE goal.mode # "preference"
    BY <1>2, <1>4, <2>2, DeadlineAnswers
  <2> QED
    BY <2>1, <2>2
<1>6. a.cands = C
  BY <1>5 DEF OneOf
<1>7. ASSUME \E r \in rows : r.key.boost
      PROVE  (\A c \in a.cands : c.base => c.boost) /\ (\A id \in a.base : id.boost)
  <2>1. \A r \in rows : IsRow(r)
    BY DEF AreRows
  <2>2. base.key.boost
    BY <1>1, <1>7, <2>1, EngineBaselineIs
  <2>3. baseId.boost = base.key.boost
    BY DEF MakeConfigId
  <2> HIDE DEF baseId
  <2> QED
    BY <1>3, <1>5, <1>6, <2>2, <2>3
<1> QED
  BY <1>3, <1>5, <1>6, <1>7

-----------------------------------------------------------------------------
(* The points of a set-up.                                                 *)
KeysOf(s) == ToSet(s.plan) \cup {r.key : r \in ToSet(s.cal)}

(* A configuration of one of them; an answer, an entry and a slot that     *)
(* hold only such.                                                         *)
Made(c, keys) ==
  IsSummary(c) /\ c.id = MakeConfigId(c.key) /\ c.boost = c.key.boost /\ c.key \in keys

WellAnswered(a, keys) ==
  /\ \A c \in a.cands : Made(c, keys)
  /\ a.winner = {} \/ \E w : a.winner = {w} /\ Made(w, keys)

SelMade(sel, keys) == sel = {} \/ \E a : sel = {a} /\ WellAnswered(a, keys)

WellMade(x, keys) ==
  /\ IsEntry(x) /\ \A c \in x.configs : Made(c, keys)
  /\ \A c, d \in x.configs : c.id = d.id => c = d
  /\ x.base \subseteq Ids /\ SelMade(x.sel, keys)

Filled(slot, keys) == slot = {} \/ \E x : slot = {x} /\ WellMade(x, keys)

(* The inductive form of TypeOK: everything that was made of measurements  *)
(* is made of points of the set-up.                                        *)
RunsMade ==
  /\ IsRuns(runs) /\ Len(runs) <= MaxRuns
  /\ \A i \in 1..Len(runs) :
       /\ runs[i].key \in KeysOf(setup)
       /\ [ok |-> runs[i].ok, runtime |-> runs[i].runtime, energy |-> runs[i].energy] \in Outcomes

SlotsMade ==
  /\ Filled(shown, KeysOf(setup)) /\ Filled(row, KeysOf(setup)) /\ Filled(held, KeysOf(setup))
  /\ \A r \in asked : IsRequest(r) /\ WellAnswered(r.sel, KeysOf(setup))

PlacesTyped ==
  /\ setup \in Setups /\ reg \in {"thread", "row", "done"}
  /\ pc \in {"start", "loop", "show", "save", "keep", "done"} /\ final \in BOOLEAN
  /\ asks \in 0..MaxAsks /\ (\A p \in pair : pair = {p})
  /\ \A r \in asked : r.n \in 1..asks /\ r.saved \in BOOLEAN
  /\ hurt \subseteq {"profile", "select"}

SelectionInv == PlacesTyped /\ RunsMade /\ SlotsMade

-----------------------------------------------------------------------------
(* The places of a finite sequence.                                        *)
LEMMA SetOf == \A s : ToSet(s) = {s[i] : i \in DOMAIN s}
BY DEF ToSet

(* The points of a set-up are points, and what it was calibrated with are  *)
(* measurements.                                                           *)
LEMMA SetupMade ==
  ASSUME NEW s \in Setups
  PROVE  /\ \A k \in KeysOf(s) : IsPoint(k)
         /\ IsCalibration(s.cal) /\ IsCalibration(<<>>)
         /\ \A i \in 1..Len(s.cal) : s.cal[i].key \in KeysOf(s)
         /\ Len(s.plan) \in Nat /\ DOMAIN s.plan = 1..Len(s.plan)
         /\ \A i \in 1..Len(s.plan) : s.plan[i] \in KeysOf(s)
<1> DEFINE P == {k \in ToSet(s.plan) : IsPoint(k)}
           R == {r \in ToSet(s.cal) : IsPoint(r.key) /\ IsMeasurement(r) /\ r.scale \in Nat}
<1>1. s.plan \in Seq(P) /\ s.cal \in Seq(R)
  BY SetupsAssumption
<1>2. /\ \A k \in P : IsPoint(k)
      /\ \A r \in R : IsPoint(r.key) /\ IsMeasurement(r) /\ r.scale \in Nat
  OBVIOUS
<1> HIDE DEF P, R
<1>3. /\ Len(s.plan) \in Nat /\ DOMAIN s.plan = 1..Len(s.plan)
      /\ \A i \in 1..Len(s.plan) : s.plan[i] \in P
  BY <1>1
<1>4. /\ Len(s.cal) \in Nat /\ DOMAIN s.cal = 1..Len(s.cal)
      /\ \A i \in 1..Len(s.cal) : s.cal[i] \in R
  BY <1>1
<1>5. \A i \in 1..Len(s.plan) : s.plan[i] \in ToSet(s.plan) /\ IsPoint(s.plan[i])
  BY <1>2, <1>3, SetOf
<1>6. \A i \in 1..Len(s.cal) : s.cal[i] \in ToSet(s.cal) /\ IsPoint(s.cal[i].key)
  BY <1>2, <1>4, SetOf
<1>7. IsCalibration(s.cal)
  BY <1>2, <1>4 DEF IsCalibration
<1>8. IsCalibration(<<>>)
  BY DEF IsCalibration
<1>9. ASSUME NEW k \in KeysOf(s) PROVE IsPoint(k)
  <2>1. CASE k \in ToSet(s.plan)
    <3>1. PICK i \in DOMAIN s.plan : k = s.plan[i]
      BY <2>1, SetOf
    <3> QED
      BY <1>3, <1>5, <3>1
  <2>2. CASE k \in {r.key : r \in ToSet(s.cal)}
    <3>1. PICK r \in ToSet(s.cal) : k = r.key
      BY <2>2
    <3>2. PICK i \in DOMAIN s.cal : r = s.cal[i]
      BY SetOf
    <3> QED
      BY <1>4, <1>6, <3>1, <3>2
  <2> QED
    BY <2>1, <2>2 DEF KeysOf
<1>10. /\ \A i \in 1..Len(s.cal) : s.cal[i].key \in KeysOf(s)
       /\ \A i \in 1..Len(s.plan) : s.plan[i] \in KeysOf(s)
  BY <1>5, <1>6 DEF KeysOf
<1> QED
  BY <1>3, <1>7, <1>8, <1>9, <1>10

(* So the rows that the sweep selects from are rows of points of it, and   *)
(* before the first run they are the calibration's.                        *)
LEMMA RowsMade ==
  ASSUME setup \in Setups, RunsMade, NEW last
  PROVE  /\ AreRows(RowsOf(last, runs)) /\ \A r \in RowsOf(last, runs) : r.key \in KeysOf(setup)
         /\ (runs = <<>> /\ RowsOf(last, runs) # {}) =>
              /\ setup.cal # <<>>
              /\ \A i \in 1..Len(setup.cal) : \E r \in RowsOf(last, runs) : r.key = setup.cal[i].key
<1> DEFINE cal == IF setup.own /\ (last \/ Seeded) THEN setup.cal ELSE <<>>
<1>1. RowsOf(last, runs) = ProfileRows(cal, runs)
  BY DEF RowsOf
<1>2. cal = setup.cal \/ cal = <<>>
  OBVIOUS
<1> HIDE DEF cal
<1>3. IsCalibration(cal) /\ (\A i \in 1..Len(cal) : cal[i].key \in KeysOf(setup))
  BY <1>2, SetupMade
<1>4. IsRuns(runs) /\ \A i \in 1..Len(runs) : runs[i].key \in KeysOf(setup)
  BY DEF RunsMade
<1>5. Len(cal) \in Nat /\ Len(runs) \in Nat
  BY <1>3, <1>4 DEF IsCalibration, IsRuns
<1>6. \A r \in ProfileRows(cal, runs) :
        /\ IsRow(r) /\ r.pos <= Len(cal) + Len(runs)
        /\ \/ \E i \in 1..Len(cal) : r.key = cal[i].key
           \/ \E j \in 1..Len(runs) : r.key = runs[j].key
  BY <1>3, <1>4, RowsTyped
<1>7. \A r \in ProfileRows(cal, runs) : IsRow(r) /\ r.pos <= Len(cal) + Len(runs) /\ r.key \in KeysOf(setup)
  BY <1>3, <1>4, <1>6
<1>8. AreRows(ProfileRows(cal, runs))
  <2>1. \A r \in ProfileRows(cal, runs) : IsRow(r) /\ IsPoint(r.key)
    BY <1>7, SetupMade
  <2>2. Len(cal) + Len(runs) \in Nat /\ \A r \in ProfileRows(cal, runs) : r.pos <= Len(cal) + Len(runs)
    BY <1>5, <1>7
  <2> QED
    BY <2>1, <2>2 DEF AreRows
<1>9. ASSUME runs = <<>>, ProfileRows(cal, runs) # {}
      PROVE  /\ setup.cal # <<>>
             /\ \A i \in 1..Len(setup.cal) : \E r \in ProfileRows(cal, runs) : r.key = setup.cal[i].key
  <2>1. PICK r \in ProfileRows(cal, runs) : TRUE
    BY <1>9
  <2>2. Len(runs) = 0
    BY <1>9
  <2>3. \E i \in 1..Len(cal) : r.key = cal[i].key
    BY <1>6, <2>1, <2>2
  <2>4. cal # <<>>
    BY <2>3
  <2>5. cal = setup.cal
    BY <1>2, <2>4
  <2>6. \A i \in 1..Len(cal) : \E s \in ProfileRows(cal, runs) : s.key = cal[i].key
    BY <1>3, <1>4, <1>9, RowsTyped
  <2> QED
    BY <2>4, <2>5, <2>6
<1> QED
  BY <1>1, <1>7, <1>8, <1>9

(* A configuration of such rows is one of the set-up's.                    *)
LEMMA MadeOfKeys ==
  ASSUME NEW rows, NEW keys, \A r \in rows : r.key \in keys, NEW c, MadeOf(c, rows)
  PROVE  Made(c, keys)
BY DEF MadeOf, Made

(* So is everything that the engine writes.                                *)
LEMMA WritesMade ==
  ASSUME setup \in Setups, RunsMade, NEW keys, keys = KeysOf(setup)
  PROVE  /\ SelMade({Draft}, keys)
         /\ \A c \in DraftProfile : Made(c, keys)
         /\ \A c, d \in DraftProfile : c.id = d.id => c = d
         /\ ProfileBase(DraftProfile, Draft) \subseteq Ids
<1>1. AreRows(Rows) /\ \A r \in Rows : r.key \in keys
  BY RowsMade DEF Rows
<1>2. PICK rows, a : rows = Rows /\ a = Draft
  OBVIOUS
<1>3. a = EngineSelect(rows, setup.goal) /\ DraftProfile = Configurations(rows, a.base)
  BY <1>2 DEF Draft, DraftProfile
<1>4. OneOf(a, a.cands) /\ \A c \in a.cands : Made(c, keys)
  BY <1>1, <1>2, <1>3, DraftMade, MadeOfKeys
<1>5. WellAnswered(a, keys)
  BY <1>4 DEF OneOf, WellAnswered
<1>6. /\ \A c \in DraftProfile : Made(c, keys)
      /\ \A c, d \in DraftProfile : c.id = d.id => c = d
  BY <1>1, <1>2, <1>3, ConfigurationsMade, MadeOfKeys
<1>7. ProfileBase(DraftProfile, Draft) \subseteq Ids
  BY <1>6, ProfileBaseMade DEF Made
<1> QED
  BY <1>2, <1>5, <1>6, <1>7 DEF SelMade

-----------------------------------------------------------------------------
(* What a slot holds, or the blank entry.                                  *)
LEMMA ContentMade ==
  ASSUME NEW keys, NEW slot, Filled(slot, keys)
  PROVE  WellMade(Blank, keys) /\ WellMade(Content(slot), keys)
<1>1. WellMade(Blank, keys)
  <2>1. IsEntry(Blank) /\ Blank.configs = {} /\ Blank.base = {} /\ Blank.sel = {}
    BY DEF IsEntry, Blank
  <2> QED
    BY <2>1 DEF WellMade, SelMade
<1>2. CASE slot = {}
  BY <1>1, <1>2 DEF Content
<1>3. CASE \E x : slot = {x} /\ WellMade(x, keys)
  <2>1. PICK x : slot = {x} /\ WellMade(x, keys)
    BY <1>3
  <2> QED
    BY <1>1, <2>1, Contents
<1> QED
  BY <1>1, <1>2, <1>3 DEF Filled

(* An entry that takes the place of another.                               *)
LEMMA KeepMade ==
  ASSUME NEW keys, NEW slot, NEW x, WellMade(x, keys)
  PROVE  Filled({x}, keys) /\ Filled({}, keys) /\ Filled(Keep(slot, x), keys)
BY DEF Keep, Filled

(* The baseline of the profile that is kept is an id.                      *)
LEMMA KeptBaseMade ==
  ASSUME \A c \in DraftProfile : IsSummary(c), Content(shown).base \subseteq Ids
  PROVE  KeptBase \subseteq Ids
<1>1. ASSUME DraftProfile # {} PROVE FirstOf(DraftProfile).id \in Ids
  BY <1>1, FirstExists DEF IsSummary
<1> QED
  BY <1>1 DEF KeptBase

(* An UPDATE of the selection.                                             *)
LEMMA AnsweredMade ==
  ASSUME NEW keys, NEW x, WellMade(x, keys), NEW sel, SelMade(sel, keys)
  PROVE  WellMade([x EXCEPT !.sel = sel], keys)
<1>1. PICK u : u = [x EXCEPT !.sel = sel]
  OBVIOUS
<1>2. IsEntry(x)
  BY DEF WellMade
<1>3. IsEntry(u) /\ u.configs = x.configs /\ u.base = x.base /\ u.sel = sel
  BY <1>1, <1>2, SelectionUpdated
<1>4. WellMade(u, keys)
  BY <1>3 DEF WellMade
<1> QED
  BY <1>1, <1>4

(* What a request finds, and its answer.                                   *)
LEMMA AskedMade ==
  ASSUME NEW keys, Filled(shown, keys), Filled(row, keys), NEW id, NEW goal, NEW margin
  PROVE  WellAnswered(Select(Resolved.configs, id, goal, margin), keys)
<1>1. PICK x : x = Content(IF shown # {} THEN shown ELSE row)
  OBVIOUS
<1>2. WellMade(x, keys)
  BY <1>1, ContentMade
<1> DEFINE C == IF x.configs # {} THEN x.configs ELSE UNION {s.cands : s \in x.sel}
<1>3. Resolved.configs = C
  <2>1. Resolved = [x EXCEPT !.configs = C]
    BY <1>1, Zenon DEF Resolved
  <2>2. IsEntry(x)
    BY <1>2 DEF WellMade
  <2> HIDE DEF C
  <2> QED
    BY <2>1, <2>2 DEF IsEntry
<1>4. \A c \in C : Made(c, keys)
  <2>1. ASSUME NEW s \in x.sel, NEW c \in s.cands PROVE Made(c, keys)
    BY <1>2 DEF WellMade, SelMade, WellAnswered
  <2>2. \A c \in x.configs : Made(c, keys)
    BY <1>2 DEF WellMade
  <2> QED
    BY <2>1, <2>2
<1> HIDE DEF C
<1>5. \A c \in C : IsSummary(c)
  BY <1>4 DEF Made
<1>6. PICK a : a = Select(C, id, goal, margin)
  OBVIOUS
<1>7. OneOf(a, C)
  <2>1. CASE goal.mode = "preference"
    BY <1>5, <1>6, <2>1, PreferenceAnswers DEF Select
  <2>2. CASE goal.mode # "preference"
    BY <1>5, <1>6, <2>2, DeadlineAnswers DEF Select
  <2> QED
    BY <2>1, <2>2
<1>8. WellAnswered(a, keys)
  BY <1>4, <1>7 DEF OneOf, WellAnswered
<1> QED
  BY <1>3, <1>6, <1>8

-----------------------------------------------------------------------------
(* A run is appended for a point of the plan.                              *)
LEMMA RunAppended ==
  ASSUME SelectionInv, Measure
  PROVE  RunsMade'
<1>1. setup \in Setups /\ RunsMade /\ setup' = setup
  BY DEF SelectionInv, PlacesTyped, Measure
<1>2. PICK k : k = setup.plan[Min(Left)]
  OBVIOUS
<1>3. PICK o \in Outcomes :
         runs' = Append(runs, [key |-> k, ok |-> o.ok, runtime |-> o.runtime, energy |-> o.energy])
  BY <1>2 DEF Measure
<1>4. PICK r : r = [key |-> k, ok |-> o.ok, runtime |-> o.runtime, energy |-> o.energy]
  OBVIOUS
<1>5. k \in KeysOf(setup)
  <2>1. Len(setup.plan) \in Nat /\ DOMAIN setup.plan = 1..Len(setup.plan)
        /\ \A i \in 1..Len(setup.plan) : setup.plan[i] \in KeysOf(setup)
    BY <1>1, SetupMade
  <2>2. Left \subseteq 1..Len(setup.plan) /\ Left # {}
    BY <2>1 DEF Left, Measure
  <2>3. Left \in SUBSET Nat
    BY <2>1, <2>2
  <2>4. Min(Left) \in Left
    BY <2>2, <2>3, MinTyped
  <2> QED
    BY <1>2, <2>1, <2>2, <2>4
<1>6. IsMeasurement(r) /\ r.key = k /\ [ok |-> r.ok, runtime |-> r.runtime, energy |-> r.energy] \in Outcomes
  <2>1. o \in [ok : BOOLEAN, runtime : Nat, energy : Nat \cup {NoEnergy}]
    BY SetupsAssumption
  <2>2. r.key = k /\ r.ok = o.ok /\ r.runtime = o.runtime /\ r.energy = o.energy
    BY <1>4
  <2>3. [ok |-> r.ok, runtime |-> r.runtime, energy |-> r.energy] = o
    BY <2>1, <2>2
  <2> QED
    BY <2>1, <2>2, <2>3 DEF IsMeasurement
<1>7. PICK n \in Nat : n = Len(runs) /\ DOMAIN runs = 1..n /\ runs \in Seq({runs[i] : i \in 1..n})
  BY <1>1 DEF RunsMade, IsRuns
<1>8. /\ Len(runs') = n + 1 /\ DOMAIN runs' = 1..(n + 1) /\ runs'[n + 1] = r
      /\ \A i \in 1..n : runs'[i] = runs[i]
  <2>1. runs' = Append(runs, r)
    BY <1>3, <1>4
  <2>2. PICK S : S = {runs[i] : i \in 1..n} \cup {r}
    OBVIOUS
  <2>3. runs \in Seq(S) /\ r \in S
    BY <1>7, <2>2
  <2> QED
    BY <1>7, <2>1, <2>3
<1>9. runs' \in Seq({runs'[i] : i \in 1..(n + 1)})
  <2>1. PICK S : S = {runs'[i] : i \in 1..(n + 1)}
    OBVIOUS
  <2>2. runs \in Seq(S) /\ r \in S
    <3>1. \A i \in 1..n : runs[i] \in S
      <4>1. \A i \in 1..n : i \in 1..(n + 1) /\ runs[i] = runs'[i]
        BY <1>8
      <4> QED
        BY <2>1, <4>1
    <3>2. r \in S
      <4>1. n + 1 \in 1..(n + 1)
        OBVIOUS
      <4> QED
        BY <1>8, <2>1, <4>1
    <3>3. {runs[i] : i \in 1..n} \subseteq S
      BY <3>1
    <3> QED
      BY <1>7, <3>2, <3>3
  <2>3. runs' = Append(runs, r)
    BY <1>3, <1>4
  <2>4. runs' \in Seq(S)
    BY <2>2, <2>3
  <2> QED
    BY <2>1, <2>4
<1>10. ASSUME NEW i \in 1..(n + 1)
      PROVE  /\ IsMeasurement(runs'[i]) /\ runs'[i].key \in KeysOf(setup)
             /\ [ok |-> runs'[i].ok, runtime |-> runs'[i].runtime, energy |-> runs'[i].energy] \in Outcomes
  <2>1. CASE i = n + 1
    BY <1>5, <1>6, <1>8, <2>1
  <2>2. CASE i \in 1..n
    <3>1. runs'[i] = runs[i]
      BY <1>8, <2>2
    <3>2. /\ IsMeasurement(runs[i]) /\ runs[i].key \in KeysOf(setup)
          /\ [ok |-> runs[i].ok, runtime |-> runs[i].runtime, energy |-> runs[i].energy] \in Outcomes
      BY <1>1, <1>7, <2>2 DEF RunsMade, IsRuns
    <3> QED
      BY <3>1, <3>2
  <2> QED
    BY <2>1, <2>2
<1>11. n + 1 <= MaxRuns
  BY <1>7, BoundsAssumption DEF Measure
<1>12. IsRuns(runs')
  <2>1. PICK m \in Nat : m = n + 1
    OBVIOUS
  <2>2. Len(runs') = m /\ DOMAIN runs' = 1..m /\ runs' \in Seq({runs'[i] : i \in 1..m})
    BY <1>8, <1>9, <2>1
  <2>3. \A i \in 1..m : IsMeasurement(runs'[i])
    BY <1>10, <2>1
  <2> QED
    BY <2>1, <2>2, <2>3 DEF IsRuns
<1> QED
  BY <1>1, <1>8, <1>10, <1>11, <1>12 DEF RunsMade

(* The runs, and what is made of them, stay the set-up's.                  *)
LEMMA SelectionInvKept == SelectionInv /\ [Next]_vars => SelectionInv'
<1> SUFFICES ASSUME SelectionInv, [Next]_vars PROVE SelectionInv'
  OBVIOUS
<1>1. PICK keys : keys = KeysOf(setup)
  OBVIOUS
<1>2. setup' = setup /\ setup \in Setups
  BY DEF SelectionInv, PlacesTyped, Next, Register, Sweeping, Start, Measure, Finish, Cancel, Show, Save,
     KeepProfile, Replies, Ask, ReplyRow, ReplyOverlay, Restart, Load, Validate, vars
<1>3. KeysOf(setup') = keys
  BY <1>1, <1>2
<1>4. Filled(shown, keys) /\ Filled(row, keys) /\ RunsMade
  BY <1>1 DEF SelectionInv, SlotsMade
<1> DEFINE Answered == \A r \in asked : IsRequest(r) /\ WellAnswered(r.sel, keys)
<1>0. Filled(held, keys) /\ Answered
  BY <1>1 DEF SelectionInv, SlotsMade
<1>5. SUFFICES ASSUME TRUE PROVE PlacesTyped' /\ RunsMade' /\ Filled(shown', keys) /\ Filled(row', keys)
                                  /\ Filled(held', keys)
                                  /\ \A r \in asked' : IsRequest(r) /\ WellAnswered(r.sel, keys)
  BY <1>3 DEF SelectionInv, SlotsMade
<1>6. PlacesTyped'
  <2>1. /\ reg \in {"thread", "row", "done"} /\ final \in BOOLEAN
        /\ pc \in {"start", "loop", "show", "save", "keep", "done"}
        /\ hurt \subseteq {"profile", "select"}
    BY DEF SelectionInv, PlacesTyped
  <2>2. asks \in 0..MaxAsks /\ MaxAsks \in Nat /\ \A p \in pair : pair = {p}
    BY BoundsAssumption DEF SelectionInv, PlacesTyped
  <2>3. reg' \in {"thread", "row", "done"}
    BY <2>1 DEF Next, Register, Sweeping, Start, Measure, Finish,
       Cancel, Show, Save, KeepProfile, Replies, Ask, ReplyRow, ReplyOverlay, Restart, Load, Validate, vars
  <2>4. pc' \in {"start", "loop", "show", "save", "keep", "done"}
    BY <2>1 DEF Next, Register, Sweeping, Start, Measure, Finish,
       Cancel, Show, Save, KeepProfile, Replies, Ask, ReplyRow, ReplyOverlay, Restart, Load, Validate, vars
  <2>5. final' \in BOOLEAN
    <3>1. ASSUME Start PROVE final' = final \/ final' = setup.instant
      BY <3>1 DEF Start
    <3>2. ASSUME ~Start PROVE final' = final \/ final' \in BOOLEAN
      BY <3>2 DEF Next, Register, Sweeping, Measure, Finish, Cancel, Show, Save, KeepProfile, Replies, Ask,
         ReplyRow, ReplyOverlay, Restart, Load, Validate, vars
    <3>3. setup.instant \in BOOLEAN
      BY <1>2, SetupsAssumption
    <3> QED
      BY <2>1, <3>1, <3>2, <3>3
  <2>6. hurt' \subseteq {"profile", "select"}
    BY <2>1 DEF Next, Register, Sweeping, Start, Measure, Finish,
       Cancel, Show, Save, KeepProfile, Replies, Ask, ReplyRow, ReplyOverlay, Restart, Load, Validate, vars
  <2>7. asks' \in 0..MaxAsks
    <3>1. ASSUME Ask PROVE asks < MaxAsks /\ asks' = asks + 1
      BY <3>1 DEF Ask
    <3>2. ASSUME ~Ask PROVE asks' = asks
      BY <3>2 DEF Next, Register, Sweeping, Start, Measure, Finish, Cancel, Show, Save, KeepProfile, Replies,
         ReplyRow, ReplyOverlay, Restart, Load, Validate, vars
    <3> QED
      BY <2>2, <3>1, <3>2
  <2>8. \A p \in pair' : pair' = {p}
    <3>1. ASSUME Validate PROVE pair' = {} \/ \E p : pair' = {p}
      BY <3>1, Zenon DEF Validate
    <3>2. ASSUME ~Validate PROVE pair' = pair \/ pair' = {}
      BY <3>2 DEF Next, Register, Sweeping, Start, Measure, Finish, Cancel, Show, Save, KeepProfile,
         Replies, Ask, ReplyRow, ReplyOverlay, Restart, Load, vars
    <3> QED
      BY <2>2, <3>1, <3>2
  <2>9. \A r \in asked' : r.n \in 1..asks' /\ r.saved \in BOOLEAN
    <3>1. \A r \in asked : IsRequest(r) /\ r.n \in 1..asks /\ r.saved \in BOOLEAN
      BY <1>0 DEF SelectionInv, PlacesTyped
    <3>2. CASE Ask
      <4>1. asks' = asks + 1 /\ asks \in Nat
        BY <2>2, <3>2 DEF Ask
      <4>2. PICK a : asked' = asked \cup {[n |-> asks + 1, saved |-> FALSE, sel |-> a]}
        BY <3>2 DEF Ask
      <4>3. PICK r : r = [n |-> asks + 1, saved |-> FALSE, sel |-> a]
        OBVIOUS
      <4>4. r.n = asks + 1 /\ r.saved = FALSE
        BY <4>3
      <4>5. \A q \in asked : q.n \in 1..(asks + 1) /\ q.saved \in BOOLEAN
        BY <3>1, <4>1
      <4>6. asks + 1 \in 1..(asks + 1) /\ asked' = asked \cup {r}
        BY <4>1, <4>2, <4>3
      <4> HIDE <3>1
      <4> QED
        BY <4>1, <4>4, <4>5, <4>6
    <3>3. CASE ReplyRow
      <4>1. PICK r \in asked : asked' = (asked \ {r}) \cup {[r EXCEPT !.saved = TRUE]}
        BY <3>3 DEF ReplyRow
      <4>2. PICK u : u = [r EXCEPT !.saved = TRUE]
        OBVIOUS
      <4>3. u.n = r.n /\ u.saved = TRUE
        BY <3>1, <4>2 DEF IsRequest
      <4>4. asks' = asks
        BY <3>3 DEF ReplyRow
      <4> QED
        BY <3>1, <4>1, <4>2, <4>3, <4>4
    <3>4. ASSUME ~Ask, ~ReplyRow PROVE asked' \subseteq asked /\ asks' = asks
      BY <3>4 DEF Next, Register, Sweeping, Start, Measure, Finish, Cancel, Show, Save, KeepProfile,
         Replies, ReplyOverlay, Restart, Load, Validate, vars
    <3> QED
      BY <3>1, <3>2, <3>3, <3>4
  <2> QED
    BY <1>2, <2>3, <2>4, <2>5, <2>6, <2>7, <2>8, <2>9 DEF PlacesTyped
<1>7. RunsMade'
  <2>1. CASE Measure
    BY <2>1, RunAppended
  <2>2. CASE ~Measure
    <3>1. runs' = runs
      BY <2>2 DEF Next, Register, Sweeping, Start, Finish, Cancel, Show, Save, KeepProfile, Replies, Ask,
         ReplyRow, ReplyOverlay, Restart, Load, Validate, vars
    <3> QED
      BY <1>2, <1>4, <3>1 DEF RunsMade
  <2> QED
    BY <2>1, <2>2
<1>8. WellMade(Blank, keys) /\ Filled({}, keys)
  BY <1>4, ContentMade DEF Filled
<1> HIDE DEF Answered
<1> USE <1>0 DEF Answered
<1>9. CASE Register
  <2>1. Filled({Blank}, keys)
    BY <1>8, KeepMade
  <2> QED
    BY <1>4, <1>6, <1>7, <1>9, <2>1 DEF Register
<1>10. CASE Start
  <2>1. Filled(Keep(shown, Blank), keys)
    BY <1>8, KeepMade
  <2> QED
    BY <1>4, <1>6, <1>7, <1>10, <2>1 DEF Start
<1>11. CASE Measure \/ Finish \/ Cancel
  BY <1>4, <1>6, <1>7, <1>11 DEF Measure, Finish, Cancel
<1>12. CASE Show
  <2>1. PICK u : u = [configs |-> DraftProfile, base |-> ProfileBase(DraftProfile, Draft), sel |-> {Draft}]
    OBVIOUS
  <2>2. IsEntry(u) /\ u.configs = DraftProfile /\ u.base = ProfileBase(DraftProfile, Draft) /\ u.sel = {Draft}
    BY <2>1, MadeEntries
  <2>3. WellMade(u, keys)
    BY <1>1, <1>2, <1>4, <2>2, WritesMade DEF WellMade
  <2>4. shown' = {u} /\ row' = row /\ asked' = asked /\ held' = held
    BY <1>12, <2>1 DEF Show
  <2> QED
    BY <1>4, <1>6, <1>7, <2>3, <2>4, KeepMade
<1>13. CASE Save
  <2>1. SelMade({Draft}, keys)
    BY <1>1, <1>2, <1>4, WritesMade
  <2>2. WellMade([Content(row) EXCEPT !.sel = {Draft}], keys)
    BY <1>4, <2>1, ContentMade, AnsweredMade
  <2>3. /\ shown' = shown /\ row' = Keep(row, [Content(row) EXCEPT !.sel = {Draft}])
        /\ asked' = asked /\ held' = held
    BY <1>13 DEF Save
  <2> QED
    BY <1>4, <1>6, <1>7, <2>2, <2>3, KeepMade
<1>14. CASE KeepProfile
  <2>0. PICK y : y = Content(row)
    OBVIOUS
  <2>1. PICK u : y = Content(row) /\ u = [y EXCEPT !.configs = DraftProfile, !.base = KeptBase]
    BY <2>0, Zenon
  <2>2. WellMade(y, keys) /\ WellMade(Content(shown), keys)
    BY <1>4, <2>1, ContentMade
  <2>3. IsEntry(u) /\ u.configs = DraftProfile /\ u.base = KeptBase /\ u.sel = y.sel
    <3>1. IsEntry(y)
      BY <2>2 DEF WellMade
    <3> QED
      BY <2>1, <3>1 DEF IsEntry
  <2>4. \A c \in DraftProfile : Made(c, keys)
    BY <1>1, <1>2, <1>4, WritesMade
  <2>5. KeptBase \subseteq Ids
    BY <2>2, <2>4, KeptBaseMade DEF WellMade, Made
  <2>6. WellMade(u, keys)
    BY <1>1, <1>2, <1>4, <2>2, <2>3, <2>5, WritesMade DEF WellMade
  <2>7. shown' = shown /\ row' = Keep(row, u) /\ asked' = asked /\ held' = held
    BY <1>14, <2>1 DEF KeepProfile
  <2> QED
    BY <1>4, <1>6, <1>7, <2>6, <2>7, KeepMade
<1>15. CASE Ask
  <2>0. PICK goal \in Goals :
          asked' = asked \cup {[n |-> asks + 1, saved |-> FALSE,
                     sel |-> Select(Resolved.configs, AskedBaseline(Resolved), goal, goal.margin)]}
    BY <1>15 DEF Ask
  <2>1. PICK r : /\ asked' = asked \cup {r}
                 /\ r = [n |-> asks + 1, saved |-> FALSE,
                         sel |-> Select(Resolved.configs, AskedBaseline(Resolved), goal, goal.margin)]
    BY <2>0
  <2>2. IsRequest(r) /\ r.sel = Select(Resolved.configs, AskedBaseline(Resolved), goal, goal.margin)
    BY <2>1, Requests
  <2>3. WellAnswered(r.sel, keys)
    BY <1>4, <2>2, AskedMade
  <2> QED
    BY <1>4, <1>6, <1>7, <1>15, <2>1, <2>2, <2>3 DEF Ask
<1>16. CASE ReplyRow
  <2>1. PICK r \in asked : /\ asked' = (asked \ {r}) \cup {[r EXCEPT !.saved = TRUE]}
                           /\ row' = Keep(row, [Content(row) EXCEPT !.sel = {r.sel}])
    BY <1>16 DEF ReplyRow
  <2>2. PICK u : u = [r EXCEPT !.saved = TRUE]
    OBVIOUS
  <2>3. IsRequest(u) /\ u.sel = r.sel
    BY <2>2, Requests
  <2>4. SelMade({r.sel}, keys)
    BY DEF SelMade
  <2>5. WellMade([Content(row) EXCEPT !.sel = {r.sel}], keys)
    BY <1>4, <2>4, ContentMade, AnsweredMade
  <2>6. shown' = shown /\ held' = held
    BY <1>16 DEF ReplyRow
  <2> QED
    BY <1>4, <1>6, <1>7, <2>1, <2>2, <2>3, <2>5, <2>6, KeepMade
<1>17. CASE ReplyOverlay
  <2>1. PICK r \in asked : /\ asked' = asked \ {r}
                           /\ shown' = Keep(shown, [Content(shown) EXCEPT !.sel = {r.sel}])
    BY <1>17 DEF ReplyOverlay
  <2>2. SelMade({r.sel}, keys)
    BY DEF SelMade
  <2>3. WellMade([Content(shown) EXCEPT !.sel = {r.sel}], keys)
    BY <1>4, <2>2, ContentMade, AnsweredMade
  <2>4. row' = row /\ held' = held
    BY <1>17 DEF ReplyOverlay
  <2> QED
    BY <1>4, <1>6, <1>7, <2>1, <2>3, <2>4, KeepMade
<1>18. CASE Restart \/ Load \/ Validate
  <2>1. /\ shown' \in {{}, shown, held} /\ held' \in {{}, row} /\ row' = row
        /\ asked' \subseteq asked
    BY <1>18, Zenon DEF Restart, Load, Validate
  <2> QED
    BY <1>4, <1>6, <1>7, <1>8, <2>1
<1>19. CASE UNCHANGED vars
  BY <1>4, <1>6, <1>7, <1>19 DEF vars
<1> QED
  BY <1>9, <1>10, <1>11, <1>12, <1>13, <1>14, <1>15, <1>16, <1>17, <1>18, <1>19 DEF Next, Sweeping, Replies

(* It holds at first ...                                                   *)
LEMMA SelectionInvInit == Init => SelectionInv
<1> SUFFICES ASSUME Init PROVE SelectionInv
  OBVIOUS
<1>1. PlacesTyped
  <2>1. asks \in 0..MaxAsks
    BY BoundsAssumption DEF Init
  <2>2. pair = {} /\ hurt = {} /\ asked = {}
    BY DEF Init
  <2> QED
    BY <2>1, <2>2 DEF Init, PlacesTyped
<1>2. RunsMade
  <2>1. runs = <<>> /\ Len(runs) = 0 /\ DOMAIN runs = {} /\ MaxRuns \in Nat
    BY BoundsAssumption DEF Init
  <2> QED
    BY <2>1 DEF RunsMade, IsRuns
<1>3. SlotsMade
  BY DEF Init, SlotsMade, Filled
<1> QED
  BY <1>1, <1>2, <1>3 DEF SelectionInv

(* ... and gives TypeOK.                                                   *)
LEMMA SelectionInvTyped == SelectionInv => TypeOK
<1> SUFFICES ASSUME SelectionInv PROVE TypeOK
  OBVIOUS
<1>1. \A r \in ToSet(runs) : [ok |-> r.ok, runtime |-> r.runtime, energy |-> r.energy] \in Outcomes
  <2>1. DOMAIN runs = 1..Len(runs)
    BY DEF SelectionInv, RunsMade, IsRuns
  <2> QED
    BY <2>1, SetOf DEF SelectionInv, RunsMade
<1>2. ASSUME NEW slot \in {shown, row, held}, NEW x \in slot
      PROVE  /\ slot = {x} /\ \A c \in x.configs : IsSummary(c)
             /\ \A c, d \in x.configs : c.id = d.id => c = d
             /\ x.base \subseteq Ids /\ \A y \in x.sel : x.sel = {y}
  <2>1. slot = {x} /\ WellMade(x, KeysOf(setup))
    BY DEF SelectionInv, SlotsMade, Filled
  <2> QED
    BY <2>1 DEF WellMade, SelMade, Made
<1>3. Len(runs) <= MaxRuns
  BY DEF SelectionInv, RunsMade
<1> QED
  BY <1>1, <1>2, <1>3 DEF SelectionInv, PlacesTyped, TypeOK

(* Every profile that the server shows or keeps is well-formed: its        *)
(* configurations are summaries of measured points with one entry for each *)
(* id, and its baseline is an id.                                          *)
THEOREM SelectionTyped == Spec => []TypeOK
<1>1. Init => SelectionInv
  BY SelectionInvInit
<1>2. SelectionInv /\ [Next]_vars => SelectionInv'
  BY SelectionInvKept
<1>3. SelectionInv => TypeOK
  BY SelectionInvTyped
<1> QED
  BY <1>1, <1>2, <1>3, PTL DEF Spec

-----------------------------------------------------------------------------
(* Nothing is asked for before the sweep starts, and a validation reads    *)
(* the row only after it; a registered experiment has a row.               *)
Unstarted ==
  /\ pc = "start" =>
       /\ asked = {}
       /\ reg = "thread" => row = {} /\ shown = {}
       /\ reg = "row" => row = {Blank} /\ shown = {}
       /\ reg = "done" => row = {Blank} /\ shown = {Blank}
  /\ pc # "done" => held = {}
  /\ reg = "row" => row # {}
  /\ reg = "done" => row # {} \/ (pc = "done" /\ shown = {} /\ held = {})

(* Where two entries have the same profile.                                *)
SameProfile(x, y) == x.configs = y.configs /\ x.base = y.base

(* Profiles that came apart only in the engine's own writes: the overlay   *)
(* has what the engine has still to write to the row, and a validation     *)
(* holds what the row has.                                                 *)
OneProfile ==
  (reg = "done" /\ "profile" \notin hurt) =>
    /\ pc \notin {"save", "keep"} => \A x \in shown, y \in row : SameProfile(x, y)
    /\ pc \in {"save", "keep"} =>
         \A x \in shown : x.configs = DraftProfile /\ x.base = ProfileBase(DraftProfile, Draft)
    /\ \A h \in held, y \in row : SameProfile(h, y)

(* And selections that came apart only between the two writes of one       *)
(* writer: it has written the one, and nobody has written since.           *)
OneSelection ==
  (reg = "done" /\ "select" \notin hurt) =>
    /\ (pc # "save" /\ ~Replying) => \A x \in shown, y \in row : x.sel = y.sel
    /\ pc = "save" => ~Replying /\ \A x \in shown : x.sel = {Draft}
    /\ \A r \in asked, y \in row : r.saved => y.sel = {r.sel}
    /\ \A h \in held, y \in row : h.sel = y.sel

AnswerInv == SelectionInv /\ Unstarted /\ OneProfile /\ OneSelection

(* What is in the slots.                                                   *)
LEMMA Slots ==
  ASSUME SelectionInv
  PROVE  /\ \A slot \in {shown, row, held} : slot = {} \/ \E x : slot = {x} /\ IsEntry(x)
         /\ \A r \in asked : IsRequest(r)
BY DEF SelectionInv, SlotsMade, Filled, WellMade

(* The draft depends on the runs and on whether they are all.              *)
LEMMA SameDraft ==
  UNCHANGED <<setup, runs, final>> =>
    /\ Draft' = Draft /\ DraftProfile' = DraftProfile
    /\ ProfileBase(DraftProfile, Draft)' = ProfileBase(DraftProfile, Draft)
BY DEF Draft, DraftProfile, Rows, RowsOf, Seeded

(* The baseline that is kept is the one that is shown.                     *)
LEMMA KeptIsShown ==
  ASSUME NEW x, shown = {x}, x.base = ProfileBase(DraftProfile, Draft)
  PROVE  KeptBase = x.base
<1>1. ProfileBase(DraftProfile, Draft) # {} \/ DraftProfile = {}
  BY DEF ProfileBase
<1>2. Content(shown) = x
  BY Contents
<1> QED
  BY <1>1, <1>2 DEF KeptBase

(* A write of one field leaves the others.                                 *)
WithSelection(x, s) == [x EXCEPT !.sel = s]

WithProfile(x, c, b) == [x EXCEPT !.configs = c, !.base = b]

(* An entry after the one write ...                                        *)
LEMMA SelectionWritten ==
  ASSUME NEW slot, slot = {} \/ \E x : slot = {x} /\ IsEntry(x), NEW s,
         NEW after, after = Keep(slot, WithSelection(Content(slot), s))
  PROVE  /\ \A u \in after : u.sel = s /\ \A x \in slot : SameProfile(u, x)
         /\ after # {} => slot # {}
<1>1. CASE slot = {}
  BY <1>1 DEF Keep
<1>2. CASE \E x : slot = {x} /\ IsEntry(x)
  <2>1. PICK x : slot = {x} /\ IsEntry(x)
    BY <1>2
  <2>2. PICK u : u = WithSelection(x, s)
    OBVIOUS
  <2>3. after = {u}
    BY <2>1, <2>2, Contents
  <2> QED
    BY <2>1, <2>2, <2>3, SelectionUpdated DEF SameProfile, WithSelection
<1> QED
  BY <1>1, <1>2

(* ... and after the other.                                                *)
LEMMA ProfileWritten ==
  ASSUME NEW slot, slot = {} \/ \E x : slot = {x} /\ IsEntry(x), NEW c, NEW b,
         NEW after, after = Keep(slot, WithProfile(Content(slot), c, b))
  PROVE  /\ \A u \in after : u.configs = c /\ u.base = b /\ \A x \in slot : u.sel = x.sel
         /\ after # {} => slot # {}
<1>1. CASE slot = {}
  BY <1>1 DEF Keep
<1>2. CASE \E x : slot = {x} /\ IsEntry(x)
  <2>1. PICK x : slot = {x} /\ IsEntry(x)
    BY <1>2
  <2>2. PICK u : u = WithProfile(x, c, b)
    OBVIOUS
  <2>3. u.configs = c /\ u.base = b /\ u.sel = x.sel
    BY <2>1, <2>2 DEF IsEntry, WithProfile
  <2>4. after = {u}
    BY <2>1, <2>2, Contents
  <2> QED
    BY <2>1, <2>3, <2>4
<1> QED
  BY <1>1, <1>2

(* The places of the writers and the row's existence.                      *)
LEMMA UnstartedKept == SelectionInv /\ Unstarted /\ [Next]_vars => Unstarted'
<1> SUFFICES ASSUME SelectionInv, Unstarted, [Next]_vars PROVE Unstarted'
  OBVIOUS
<1> USE DEF Unstarted
<1>0. \A slot, e : Keep(slot, e) = {} <=> slot = {}
  BY DEF Keep
<1>1. CASE Register
  BY <1>1 DEF Register
<1>2. CASE Start
  BY <1>0, <1>2 DEF Start
<1>3. CASE Measure \/ Finish \/ Cancel
  BY <1>3 DEF Measure, Finish, Cancel
<1>4. CASE Show
  BY <1>4 DEF Show
<1>5. CASE Save
  BY <1>0, <1>5 DEF Save
<1>6. CASE KeepProfile
  BY <1>0, <1>6 DEF KeepProfile
<1>7. CASE Ask
  <2>1. pc # "start"
    <3>1. SUFFICES ASSUME pc = "start" PROVE FALSE
      OBVIOUS
    <3>2. PICK slot : slot = (IF shown # {} THEN shown ELSE row) /\ slot # {}
      BY <1>7 DEF Ask
    <3>3. reg \in {"row", "done"}
      BY <1>7, <3>1, <3>2 DEF SelectionInv, PlacesTyped
    <3>4. Content(slot) = Blank
      BY <3>1, <3>2, <3>3, Contents
    <3>5. Blank.configs = {} /\ Blank.sel = {}
      BY DEF Blank
    <3>6. Resolved = [Blank EXCEPT !.configs = UNION {s.cands : s \in {}}]
      BY <3>2, <3>4, <3>5 DEF Resolved
    <3>7. Resolved.configs = {}
      BY <3>6 DEF Blank
    <3> QED
      BY <1>7, <3>7 DEF Ask
  <2> QED
    BY <1>7, <2>1 DEF Ask
<1>8. CASE ReplyRow
  BY <1>0, <1>8 DEF ReplyRow
<1>9. CASE ReplyOverlay
  <2>1. pc # "start"
    BY <1>9 DEF ReplyOverlay
  <2> QED
    BY <1>0, <1>9, <2>1 DEF ReplyOverlay
<1>10. CASE Restart \/ Load \/ Validate
  BY <1>10, Zenon DEF Restart, Load, Validate
<1>11. CASE UNCHANGED vars
  BY <1>11 DEF vars
<1> QED
  BY <1>1, <1>2, <1>3, <1>4, <1>5, <1>6, <1>7, <1>8, <1>9, <1>10, <1>11 DEF Next, Sweeping, Replies

(* The profiles stay one.                                                  *)
LEMMA OneProfileKept == AnswerInv /\ [Next]_vars => OneProfile'
<1> SUFFICES ASSUME AnswerInv, [Next]_vars, reg' = "done", "profile" \notin hurt'
             PROVE  /\ pc' \notin {"save", "keep"} => \A x \in shown', y \in row' : SameProfile(x, y)
                    /\ pc' \in {"save", "keep"} =>
                         \A x \in shown' : /\ x.configs = DraftProfile'
                                           /\ x.base = ProfileBase(DraftProfile, Draft)'
                    /\ \A h \in held', y \in row' : SameProfile(h, y)
  BY DEF OneProfile
<1>1. SelectionInv /\ Unstarted /\ OneProfile
  BY DEF AnswerInv
<1>2. \A slot \in {shown, row, held} : slot = {} \/ \E x : slot = {x} /\ IsEntry(x)
  BY <1>1, Slots
<1>3. CASE Register
  BY <1>1, <1>3 DEF Register, Unstarted, SameProfile, Blank
<1>4. CASE Show
  <2>1. PICK u : u = [configs |-> DraftProfile, base |-> ProfileBase(DraftProfile, Draft), sel |-> {Draft}]
    OBVIOUS
  <2>2. u.configs = DraftProfile /\ u.base = ProfileBase(DraftProfile, Draft)
    BY <2>1
  <2>3. shown' = {u} /\ pc' = "save" /\ held' = {} /\ UNCHANGED <<setup, runs, final>>
    BY <1>1, <1>4, <2>1 DEF Show, Unstarted
  <2> QED
    BY <2>2, <2>3, SameDraft
<1>5. CASE Restart
  BY <1>5 DEF Restart
<1>6. ASSUME ~Register, ~Show, ~Restart
      PROVE  reg = "done" /\ "profile" \notin hurt
  BY <1>6 DEF Next, Sweeping, Start, Measure, Finish, Cancel, Save, KeepProfile, Replies, Ask, ReplyRow,
     ReplyOverlay, Load, Validate, vars
<1>7. SUFFICES ASSUME reg = "done", "profile" \notin hurt, ~Register, ~Show, ~Restart
               PROVE  /\ pc' \notin {"save", "keep"} => \A x \in shown', y \in row' : SameProfile(x, y)
                      /\ pc' \in {"save", "keep"} =>
                           \A x \in shown' : /\ x.configs = DraftProfile'
                                             /\ x.base = ProfileBase(DraftProfile, Draft)'
                      /\ \A h \in held', y \in row' : SameProfile(h, y)
  BY <1>3, <1>4, <1>5, <1>6
<1>8. /\ pc \notin {"save", "keep"} => \A x \in shown, y \in row : SameProfile(x, y)
      /\ pc \in {"save", "keep"} =>
           \A x \in shown : x.configs = DraftProfile /\ x.base = ProfileBase(DraftProfile, Draft)
      /\ \A h \in held, y \in row : SameProfile(h, y)
  BY <1>1, <1>7 DEF OneProfile
<1>9. \A slot, e : slot # {} => Keep(slot, e) = {e}
  BY DEF Keep
<1>10. CASE Start
  <2>1. row = {Blank} /\ shown = {Blank} /\ held = {}
    BY <1>1, <1>7, <1>10 DEF Start, Unstarted
  <2>2. row' = {Blank} /\ shown' = {Blank} /\ held' = {} /\ pc' \in {"show", "loop"}
    BY <1>9, <1>10, <2>1 DEF Start
  <2> QED
    BY <2>2 DEF SameProfile
<1>11. CASE Measure \/ Finish \/ Cancel
  BY <1>8, <1>11 DEF Measure, Finish, Cancel
<1>12. CASE Save
  <2>1. /\ row' = Keep(row, WithSelection(Content(row), {Draft})) /\ shown' = shown
        /\ held' = {} /\ pc = "save" /\ pc' = "keep" /\ UNCHANGED <<setup, runs, final>>
    BY <1>1, <1>12 DEF Save, Unstarted, WithSelection
  <2> QED
    BY <1>8, <2>1, SameDraft
<1>13. CASE KeepProfile
  <2>0. row = {} \/ \E x : row = {x} /\ IsEntry(x)
    BY <1>2
  <2>1. /\ row' = Keep(row, WithProfile(Content(row), DraftProfile, KeptBase))
        /\ shown' = shown /\ held' = {} /\ pc = "keep" /\ pc' \in {"done", "loop"}
    BY <1>1, <1>13 DEF KeepProfile, Unstarted, WithProfile
  <2>2. \A y \in row' : y.configs = DraftProfile /\ y.base = KeptBase
    BY <2>0, <2>1, ProfileWritten
  <2>3. \A x \in shown : x.configs = DraftProfile /\ x.base = KeptBase
    BY <1>2, <1>8, <2>1, KeptIsShown
  <2> QED
    BY <2>1, <2>2, <2>3 DEF SameProfile
<1>14. CASE Ask
  BY <1>8, <1>14, SameDraft DEF Ask
<1>15. CASE ReplyRow
  <2>0. row = {} \/ \E x : row = {x} /\ IsEntry(x)
    BY <1>2
  <2>1. PICK r \in asked : row' = Keep(row, WithSelection(Content(row), {r.sel}))
    BY <1>15 DEF ReplyRow, WithSelection
  <2>2. \A u \in row' : \A y \in row : SameProfile(u, y)
    BY <2>0, <2>1, SelectionWritten
  <2>3. row' # {} => row # {}
    BY <2>0, <2>1, SelectionWritten
  <2>4. UNCHANGED <<shown, held, pc, setup, runs, final>>
    BY <1>15 DEF ReplyRow, WithSelection
  <2> QED
    BY <1>8, <2>2, <2>3, <2>4, SameDraft DEF SameProfile
<1>16. CASE ReplyOverlay
  <2>0. shown = {} \/ \E x : shown = {x} /\ IsEntry(x)
    BY <1>2
  <2>1. PICK r \in asked : shown' = Keep(shown, WithSelection(Content(shown), {r.sel}))
    BY <1>16 DEF ReplyOverlay, WithSelection
  <2>2. \A u \in shown' : \A x \in shown : SameProfile(u, x)
    BY <2>0, <2>1, SelectionWritten
  <2>3. shown' # {} => shown # {}
    BY <2>0, <2>1, SelectionWritten
  <2>4. UNCHANGED <<row, held, pc, setup, runs, final>>
    BY <1>16 DEF ReplyOverlay, WithSelection
  <2> QED
    BY <1>8, <2>2, <2>3, <2>4, SameDraft DEF SameProfile
<1>17. CASE Load
  <2>1. held' = row /\ row' = row /\ shown' = {} /\ pc' = "done"
    BY <1>17 DEF Load
  <2> QED
    BY <1>2, <2>1 DEF SameProfile
<1>18. CASE Validate
  <2>1. /\ shown' = (IF shown # {} THEN shown ELSE held) /\ row' = row /\ held' = {}
        /\ pc = "done" /\ pc' = "done"
    BY <1>18, Zenon DEF Validate
  <2> QED
    BY <1>8, <2>1
<1>19. CASE UNCHANGED vars
  BY <1>8, <1>19, SameDraft DEF vars
<1> QED
  BY <1>7, <1>10, <1>11, <1>12, <1>13, <1>14, <1>15, <1>16, <1>17, <1>18, <1>19 DEF Next, Sweeping, Replies

(* And so do the selections.                                               *)
LEMMA OneSelectionKept == AnswerInv /\ [Next]_vars => OneSelection'
<1> DEFINE Goal == /\ (pc' # "save" /\ ~Replying') => \A x \in shown', y \in row' : x.sel = y.sel
                   /\ pc' = "save" => ~Replying' /\ \A x \in shown' : x.sel = {Draft'}
                   /\ \A r \in asked', y \in row' : r.saved => y.sel = {r.sel}
                   /\ \A h \in held', y \in row' : h.sel = y.sel
<1> SUFFICES ASSUME AnswerInv, [Next]_vars, reg' = "done", "select" \notin hurt'
             PROVE  Goal
  BY DEF OneSelection
<1>1. SelectionInv /\ Unstarted /\ OneSelection
  BY DEF AnswerInv
<1>2. /\ \A slot \in {shown, row, held} : slot = {} \/ \E x : slot = {x} /\ IsEntry(x)
      /\ \A r \in asked : IsRequest(r)
  BY <1>1, Slots
<1>3. CASE Register
  <2>1. row' = {Blank} /\ shown' = {Blank} /\ held' = {} /\ asked' = {} /\ pc' = "start"
    BY <1>1, <1>3 DEF Register, Unstarted
  <2> QED
    BY <2>1 DEF Replying
<1>4. CASE Show
  <2>1. PICK u : u = [configs |-> DraftProfile, base |-> ProfileBase(DraftProfile, Draft), sel |-> {Draft}]
    OBVIOUS
  <2>2. u.sel = {Draft}
    BY <2>1
  <2>3. /\ shown' = {u} /\ pc' = "save" /\ held' = {} /\ asked' = asked /\ reg = "done"
        /\ UNCHANGED <<setup, runs, final>>
    BY <1>1, <1>4, <2>1 DEF Show, Unstarted
  <2>4. ~Replying
    BY <1>4, <2>3 DEF Show
  <2> QED
    BY <2>2, <2>3, <2>4, SameDraft DEF Replying
<1>5. CASE Restart
  BY <1>5 DEF Restart
<1>6. CASE ReplyRow
  <2>0. row = {} \/ \E x : row = {x} /\ IsEntry(x)
    BY <1>2
  <2>1. PICK r \in asked : /\ ~r.saved /\ row' = Keep(row, WithSelection(Content(row), {r.sel}))
                           /\ asked' = (asked \ {r}) \cup {[r EXCEPT !.saved = TRUE]}
    BY <1>6 DEF ReplyRow, WithSelection
  <2>2. PICK u : u = [r EXCEPT !.saved = TRUE]
    OBVIOUS
  <2>3. u.saved /\ u.sel = r.sel
    BY <1>2, <2>2, Requests
  <2>4. pc # "save" /\ ~Replying /\ held = {}
    BY <1>6 DEF ReplyRow, WithSelection
  <2>5. pc' = pc /\ held' = held
    BY <1>6 DEF ReplyRow, WithSelection
  <2>6. asked' = (asked \ {r}) \cup {u}
    BY <2>1, <2>2
  <2>7. Replying' /\ \A q \in asked' : q.saved => q = u
    BY <2>3, <2>4, <2>6 DEF Replying
  <2>8. \A y \in row' : y.sel = {r.sel}
    BY <2>0, <2>1, SelectionWritten
  <2> QED
    BY <2>3, <2>4, <2>5, <2>7, <2>8
<1>7. ASSUME ~Register, ~Show, ~Restart, ~ReplyRow
      PROVE  reg = "done" /\ "select" \notin hurt
  BY <1>7 DEF Next, Sweeping, Start, Measure, Finish, Cancel, Save, KeepProfile, Replies, Ask,
     ReplyOverlay, Load, Validate, vars
<1>8. SUFFICES ASSUME reg = "done", "select" \notin hurt, ~Register, ~Show, ~Restart, ~ReplyRow
               PROVE  Goal
  BY <1>3, <1>4, <1>5, <1>6, <1>7
<1>9. /\ (pc # "save" /\ ~Replying) => \A x \in shown, y \in row : x.sel = y.sel
      /\ pc = "save" => ~Replying /\ \A x \in shown : x.sel = {Draft}
      /\ \A r \in asked, y \in row : r.saved => y.sel = {r.sel}
      /\ \A h \in held, y \in row : h.sel = y.sel
  BY <1>1, <1>8 DEF OneSelection
<1>10. asked' = asked => Replying' = Replying
  BY DEF Replying
<1>11. CASE Start
  <2>1. row = {Blank} /\ shown = {Blank} /\ held = {} /\ asked = {}
    BY <1>1, <1>8, <1>11 DEF Start, Unstarted
  <2>2. /\ row' = {Blank} /\ shown' = {Blank} /\ held' = {} /\ asked' = {}
        /\ pc' \in {"show", "loop"}
    BY <1>11, <2>1 DEF Start, Keep
  <2> QED
    BY <2>2
<1>12. CASE Measure \/ Finish \/ Cancel
  <2>1. /\ pc = "loop" /\ pc' \in {"loop", "show", "done"} /\ asked' = asked
        /\ UNCHANGED <<shown, row, held>>
    BY <1>12 DEF Measure, Finish, Cancel
  <2> QED
    BY <1>9, <1>10, <2>1
<1>13. CASE Save
  <2>0. row = {} \/ \E x : row = {x} /\ IsEntry(x)
    BY <1>2
  <2>1. /\ row' = Keep(row, WithSelection(Content(row), {Draft})) /\ shown' = shown
        /\ held' = {} /\ pc = "save" /\ pc' = "keep" /\ asked' = asked
    BY <1>1, <1>13 DEF Save, Unstarted, WithSelection
  <2>2. \A y \in row' : y.sel = {Draft}
    BY <2>0, <2>1, SelectionWritten
  <2>3. \A r \in asked' : ~r.saved
    BY <1>9, <2>1 DEF Replying
  <2> QED
    BY <1>9, <2>1, <2>2, <2>3
<1>14. CASE KeepProfile
  <2>0. row = {} \/ \E x : row = {x} /\ IsEntry(x)
    BY <1>2
  <2>1. /\ row' = Keep(row, WithProfile(Content(row), DraftProfile, KeptBase))
        /\ shown' = shown /\ held' = {} /\ asked' = asked /\ pc = "keep" /\ pc' \in {"done", "loop"}
    BY <1>1, <1>14 DEF KeepProfile, Unstarted, WithProfile
  <2>2. \A u \in row' : \A y \in row : u.sel = y.sel
    BY <2>0, <2>1, ProfileWritten
  <2>3. row' # {} => row # {}
    BY <2>0, <2>1, ProfileWritten
  <2> QED
    BY <1>9, <1>10, <2>1, <2>2, <2>3
<1>15. CASE Ask
  <2>1. PICK a : asked' = asked \cup {[n |-> asks + 1, saved |-> FALSE, sel |-> a]}
    BY <1>15 DEF Ask
  <2>2. PICK q : q = [n |-> asks + 1, saved |-> FALSE, sel |-> a]
    OBVIOUS
  <2>3. asked' = asked \cup {q} /\ ~q.saved
    BY <2>1, <2>2
  <2>4. Replying' = Replying
    BY <2>3 DEF Replying
  <2>5. UNCHANGED <<shown, row, held, pc, setup, runs, final>>
    BY <1>15 DEF Ask
  <2> QED
    BY <1>9, <2>3, <2>4, <2>5, SameDraft
<1>16. CASE ReplyOverlay
  <2>0. shown = {} \/ \E x : shown = {x} /\ IsEntry(x)
    BY <1>2
  <2>1. PICK r \in asked : /\ r.saved /\ asked' = asked \ {r}
                           /\ shown' = Keep(shown, WithSelection(Content(shown), {r.sel}))
    BY <1>16 DEF ReplyOverlay, WithSelection
  <2>2. UNCHANGED <<row, held, pc>>
    BY <1>16 DEF ReplyOverlay, WithSelection
  <2>3. pc # "save" /\ \A y \in row : y.sel = {r.sel}
    BY <1>9, <2>1 DEF Replying
  <2>4. \A x \in shown' : x.sel = {r.sel}
    BY <2>0, <2>1, SelectionWritten
  <2> QED
    BY <1>9, <2>1, <2>2, <2>3, <2>4
<1>17. CASE Load
  <2>1. held' = row /\ row' = row /\ shown' = {} /\ pc' = "done" /\ asked' = asked
    BY <1>17 DEF Load
  <2>2. \A h, y \in row : h = y
    BY <1>2
  <2> QED
    BY <1>9, <2>1, <2>2
<1>18. CASE Validate
  <2>1. /\ shown' = (IF shown # {} THEN shown ELSE held) /\ row' = row /\ held' = {}
        /\ pc = "done" /\ pc' = "done" /\ asked' = asked
    BY <1>18, Zenon DEF Validate
  <2> QED
    BY <1>9, <1>10, <2>1
<1>19. CASE UNCHANGED vars
  BY <1>9, <1>10, <1>19, SameDraft DEF vars
<1> QED
  BY <1>8, <1>11, <1>12, <1>13, <1>14, <1>15, <1>16, <1>17, <1>18, <1>19 DEF Next, Sweeping, Replies

(* Between writes the overlay and the row, which is all that a restart     *)
(* leaves, hold the same profile and the same selection, however the       *)
(* engine, the registration, any number of selects, validations and        *)
(* restarts interleave, unless the last writer of it began inside another. *)
THEOREM AnswersAgree == Spec => []OneAnswer
<1>1. Init => AnswerInv
  BY SelectionInvInit DEF Init, AnswerInv, Unstarted, OneProfile, OneSelection
<1>2. AnswerInv /\ [Next]_vars => AnswerInv'
  BY SelectionInvKept, UnstartedKept, OneProfileKept, OneSelectionKept DEF AnswerInv
<1>3. AnswerInv => OneAnswer
  BY DEF AnswerInv, Unstarted, OneProfile, OneSelection, SameProfile, OneAnswer
<1> QED
  BY <1>1, <1>2, <1>3, PTL DEF Spec

-----------------------------------------------------------------------------
(* Two points of a set-up have one id only because of their caps with      *)
(* boost, and a calibration has a point of the stock settings.             *)
OneKeyPerId ==
  \A s \in Setups :
    (\A k \in ToSet(s.plan) : k.boost => k.cap = 0) =>
      \A k, l \in KeysOf(s) : MakeConfigId(k) = MakeConfigId(l) => k = l

StockIsCalibrated ==
  \A s \in Setups : s.cal # <<>> => \E r \in ToSet(s.cal) : r.key.boost

(* Before the first run everything that is flagged as a baseline has boost.*)
Offered(x) == x.configs \cup UNION {a.cands : a \in x.sel}

Stocked(x) == \A c \in Offered(x) : c.base => c.boost

StockInv ==
  runs = <<>> =>
    /\ \A x \in shown \cup row \cup held : Stocked(x)
    /\ \A r \in asked : \A c \in r.sel.cands : c.base => c.boost

(* The engine's profile and its selection are such, ...                    *)
LEMMA WritesStocked ==
  ASSUME StockIsCalibrated, SelectionInv, runs = <<>>
  PROVE  \A c \in DraftProfile \cup Draft.cands : c.base => c.boost
<1>1. setup \in Setups /\ RunsMade
  BY DEF SelectionInv, PlacesTyped
<1>2. AreRows(Rows) /\ (Rows # {} => \E r \in Rows : r.key.boost)
  <2>1. AreRows(Rows)
    BY <1>1, RowsMade DEF Rows
  <2>2. ASSUME Rows # {} PROVE \E r \in Rows : r.key.boost
    <3>1. setup.cal # <<>> /\ \A i \in 1..Len(setup.cal) : \E r \in Rows : r.key = setup.cal[i].key
      BY <1>1, <2>2, RowsMade DEF Rows
    <3>2. PICK f \in ToSet(setup.cal) : f.key.boost
      BY <1>1, <3>1 DEF StockIsCalibrated
    <3>3. DOMAIN setup.cal = 1..Len(setup.cal)
      BY <1>1, SetupMade DEF IsCalibration
    <3>4. PICK i \in 1..Len(setup.cal) : f = setup.cal[i]
      BY <3>3, SetOf
    <3>5. PICK r \in Rows : r.key = f.key
      BY <3>1, <3>4
    <3> QED
      BY <3>2, <3>5
  <2> QED
    BY <2>1, <2>2
<1>3. PICK rows, a : rows = Rows /\ a = Draft
  OBVIOUS
<1>4. a = EngineSelect(rows, setup.goal) /\ DraftProfile = Configurations(rows, a.base)
  BY <1>3 DEF Draft, DraftProfile
<1>5. /\ \A c \in a.cands : MadeOf(c, rows)
      /\ (\E r \in rows : r.key.boost) =>
           (\A c \in a.cands : c.base => c.boost) /\ (\A id \in a.base : id.boost)
  BY <1>2, <1>3, <1>4, DraftMade
<1>6. \A c \in DraftProfile : MadeOf(c, rows) /\ (c.base <=> c.id \in a.base)
  BY <1>2, <1>3, <1>4, ConfigurationsMade
<1>7. ASSUME NEW c, MadeOf(c, rows) PROVE rows # {} /\ c.boost = c.id.boost
  <2>1. PICK r \in rows : c.id = MakeConfigId(r.key) /\ c.boost = r.key.boost
    BY <1>7 DEF MadeOf
  <2>2. MakeConfigId(r.key).boost = r.key.boost
    BY DEF MakeConfigId
  <2> QED
    BY <2>1, <2>2
<1>8. CASE rows = {}
  BY <1>3, <1>5, <1>6, <1>7, <1>8
<1>9. CASE rows # {}
  <2>1. (\A c \in a.cands : c.base => c.boost) /\ (\A id \in a.base : id.boost)
    BY <1>2, <1>3, <1>5, <1>9
  <2> QED
    BY <1>3, <1>6, <1>7, <2>1
<1> QED
  BY <1>8, <1>9

(* ... and so is what is found.                                            *)
LEMMA ContentStocked ==
  ASSUME NEW slot, NEW keys, Filled(slot, keys), \A x \in slot : Stocked(x)
  PROVE  Stocked(Content(slot)) /\ Stocked(Blank)
<1>1. Stocked(Blank)
  BY DEF Stocked, Offered, Blank
<1>2. CASE slot = {}
  BY <1>1, <1>2 DEF Content
<1>3. CASE \E x : slot = {x}
  BY <1>1, <1>3, Contents
<1> QED
  BY <1>2, <1>3 DEF Filled

(* A request's answer.                                                     *)
LEMMA AnswerStocked ==
  ASSUME NEW keys, Filled(shown, keys), Filled(row, keys), \A x \in shown \cup row : Stocked(x),
         NEW id, NEW goal, NEW margin, NEW a, a = Select(Resolved.configs, id, goal, margin)
  PROVE  \A c \in a.cands : c.base => c.boost
<1>1. PICK x : x = Content(IF shown # {} THEN shown ELSE row)
  OBVIOUS
<1>2. WellMade(x, keys) /\ Stocked(x)
  BY <1>1, ContentMade, ContentStocked
<1> DEFINE C == IF x.configs # {} THEN x.configs ELSE UNION {s.cands : s \in x.sel}
<1>3. Resolved.configs = C
  <2>1. Resolved = [x EXCEPT !.configs = C]
    BY <1>1, Zenon DEF Resolved
  <2>2. IsEntry(x)
    BY <1>2 DEF WellMade
  <2> HIDE DEF C
  <2> QED
    BY <2>1, <2>2 DEF IsEntry
<1>4. \A c \in C : c.base => c.boost
  BY <1>2 DEF Stocked, Offered
<1> HIDE DEF C
<1>5. a.cands = C
  <2>1. CASE goal.mode = "preference"
    BY <1>3, <2>1 DEF Select, SelectPreference, Answer
  <2>2. CASE goal.mode # "preference"
    BY <1>3, <2>2 DEF Select, SelectDeadline, Answer
  <2> QED
    BY <2>1, <2>2
<1> QED
  BY <1>4, <1>5

(* No step flags anything else before the first run.                       *)
LEMMA StockKept == StockIsCalibrated /\ SelectionInv /\ StockInv /\ [Next]_vars => StockInv'
<1> SUFFICES ASSUME StockIsCalibrated, SelectionInv, StockInv, [Next]_vars, runs' = <<>>
             PROVE  /\ \A x \in shown' \cup row' \cup held' : Stocked(x)
                    /\ \A r \in asked' : \A c \in r.sel.cands : c.base => c.boost
  BY DEF StockInv
<1>1. PICK keys : keys = KeysOf(setup)
  OBVIOUS
<1>2. ~Measure
  <2> SUFFICES ASSUME Measure PROVE FALSE
    OBVIOUS
  <2>0. IsRuns(runs)
    BY DEF SelectionInv, RunsMade
  <2>1. PICK n \in Nat : n = Len(runs) /\ runs \in Seq({runs[i] : i \in 1..n})
    BY <2>0 DEF IsRuns
  <2>2. PICK r : runs' = Append(runs, r)
    BY DEF Measure
  <2> QED
    BY <2>1, <2>2
<1>3. runs = <<>>
  BY <1>2 DEF Next, Register, Sweeping, Start, Finish, Cancel, Show, Save, KeepProfile, Replies, Ask, ReplyRow,
     ReplyOverlay, Restart, Load, Validate, vars
<1>4. /\ \A x \in shown \cup row \cup held : Stocked(x)
      /\ \A r \in asked : \A c \in r.sel.cands : c.base => c.boost
  BY <1>3 DEF StockInv
<1>5. Filled(shown, keys) /\ Filled(row, keys) /\ \A r \in asked : IsRequest(r)
  BY <1>1 DEF SelectionInv, SlotsMade
<1>6. Stocked(Content(shown)) /\ Stocked(Content(row)) /\ Stocked(Blank)
  BY <1>4, <1>5, ContentStocked
<1>7. WellMade(Content(shown), keys) /\ WellMade(Content(row), keys)
  BY <1>5, ContentMade
<1>8. \A c \in DraftProfile \cup Draft.cands : c.base => c.boost
  BY <1>3, WritesStocked
<1>9. CASE Register
  BY <1>4, <1>6, <1>9 DEF Register
<1>10. CASE Start
  BY <1>4, <1>6, <1>10 DEF Start, Keep
<1>11. CASE Finish \/ Cancel
  BY <1>4, <1>11 DEF Finish, Cancel
<1>12. CASE Show
  <2>1. PICK u : u = [configs |-> DraftProfile, base |-> ProfileBase(DraftProfile, Draft), sel |-> {Draft}]
    OBVIOUS
  <2>2. u.configs = DraftProfile /\ u.sel = {Draft}
    BY <2>1
  <2>3. Stocked(u)
    BY <1>8, <2>2 DEF Stocked, Offered
  <2>4. shown' = {u} /\ row' = row /\ asked' = asked /\ held' = held
    BY <1>12, <2>1 DEF Show
  <2> QED
    BY <1>4, <2>3, <2>4
<1>13. CASE Save
  <2>1. PICK y, u : y = Content(row) /\ u = [y EXCEPT !.sel = {Draft}]
    OBVIOUS
  <2>2. u.configs = y.configs /\ u.sel = {Draft}
    BY <1>7, <2>1, SelectionUpdated DEF WellMade
  <2>3. Stocked(u)
    BY <1>6, <1>8, <2>1, <2>2 DEF Stocked, Offered
  <2>4. shown' = shown /\ (row' = {} \/ row' = {u}) /\ asked' = asked /\ held' = held
    BY <1>13, <2>1 DEF Save, Keep
  <2> QED
    BY <1>4, <2>3, <2>4
<1>14. CASE KeepProfile
  <2>0. PICK y : y = Content(row)
    OBVIOUS
  <2>1. PICK u : y = Content(row) /\ u = [y EXCEPT !.configs = DraftProfile, !.base = KeptBase]
    BY <2>0, Zenon
  <2>2. u.configs = DraftProfile /\ u.sel = y.sel
    BY <1>7, <2>1 DEF WellMade, IsEntry
  <2>3. Stocked(u)
    BY <1>6, <1>8, <2>1, <2>2 DEF Stocked, Offered
  <2>4. shown' = shown /\ (row' = {} \/ row' = {u}) /\ asked' = asked /\ held' = held
    BY <1>14, <2>1 DEF KeepProfile, Keep
  <2> QED
    BY <1>4, <2>3, <2>4
<1>15. CASE Ask
  <2>1. PICK a, id, goal : /\ a = Select(Resolved.configs, id, goal, goal.margin)
                           /\ asked' = asked \cup {[n |-> asks + 1, saved |-> FALSE, sel |-> a]}
    BY <1>15 DEF Ask
  <2>2. PICK q : q = [n |-> asks + 1, saved |-> FALSE, sel |-> a]
    OBVIOUS
  <2>3. asked' = asked \cup {q} /\ q.sel = a
    BY <2>1, <2>2
  <2>4. \A c \in a.cands : c.base => c.boost
    BY <1>4, <1>5, <2>1, AnswerStocked
  <2> QED
    BY <1>4, <1>15, <2>3, <2>4 DEF Ask
<1>16. CASE ReplyRow
  <2>1. PICK r \in asked : /\ asked' = (asked \ {r}) \cup {[r EXCEPT !.saved = TRUE]}
                           /\ row' = Keep(row, [Content(row) EXCEPT !.sel = {r.sel}])
    BY <1>16 DEF ReplyRow
  <2>2. PICK q : q = [r EXCEPT !.saved = TRUE]
    OBVIOUS
  <2>3. asked' = (asked \ {r}) \cup {q} /\ q.sel = r.sel
    BY <1>5, <2>1, <2>2, Requests
  <2>4. PICK u : u = [Content(row) EXCEPT !.sel = {r.sel}]
    OBVIOUS
  <2>5. u.configs = Content(row).configs /\ u.sel = {r.sel}
    BY <1>7, <2>4, SelectionUpdated DEF WellMade
  <2>6. Stocked(u)
    BY <1>4, <1>6, <2>5 DEF Stocked, Offered
  <2>7. (row' = {} \/ row' = {u}) /\ shown' = shown /\ held' = held
    BY <1>16, <2>1, <2>4 DEF ReplyRow, Keep
  <2> QED
    BY <1>4, <2>3, <2>6, <2>7
<1>17. CASE ReplyOverlay
  <2>1. PICK r \in asked : /\ asked' = asked \ {r}
                           /\ shown' = Keep(shown, [Content(shown) EXCEPT !.sel = {r.sel}])
    BY <1>17 DEF ReplyOverlay
  <2>2. PICK u : u = [Content(shown) EXCEPT !.sel = {r.sel}]
    OBVIOUS
  <2>3. u.configs = Content(shown).configs /\ u.sel = {r.sel}
    BY <1>7, <2>2, SelectionUpdated DEF WellMade
  <2>4. Stocked(u)
    BY <1>4, <1>6, <2>3 DEF Stocked, Offered
  <2>5. (shown' = {} \/ shown' = {u}) /\ row' = row /\ held' = held
    BY <1>17, <2>1, <2>2 DEF ReplyOverlay, Keep
  <2> QED
    BY <1>4, <2>1, <2>4, <2>5
<1>18. CASE Restart \/ Load \/ Validate
  <2>1. /\ shown' \in {{}, shown, held} /\ held' \in {{}, row} /\ row' = row
        /\ asked' \subseteq asked
    BY <1>18, Zenon DEF Restart, Load, Validate
  <2> QED
    BY <1>4, <2>1
<1>19. CASE UNCHANGED vars
  BY <1>4, <1>19 DEF vars
<1> QED
  BY <1>2, <1>9, <1>10, <1>11, <1>12, <1>13, <1>14, <1>15, <1>16, <1>17, <1>18, <1>19 DEF Next, Sweeping, Replies

-----------------------------------------------------------------------------
(* The candidate is the selected configuration where an id has one point.  *)
LEMMA CandidateIsSelected ==
  ASSUME NEW keys, NEW x, WellMade(x, keys),
         \A k, l \in keys : MakeConfigId(k) = MakeConfigId(l) => k = l,
         NEW w \in UNION {s.winner : s \in x.sel}
  PROVE  Candidate(x) = w.key
<1>1. PICK a : x.sel = {a} /\ WellAnswered(a, keys) /\ w \in a.winner
  BY DEF WellMade, SelMade
<1>2. a.winner = {w} /\ Made(w, keys)
  BY <1>1 DEF WellAnswered
<1> DEFINE winners == UNION {s.winner : s \in x.sel}
           entries == UNION {Named(x.configs, v.id) : v \in winners}
           cands == UNION {s.cands : s \in x.sel}
           from == IF entries # {} THEN entries
                   ELSE IF winners # {} THEN winners
                   ELSE IF cands # {} THEN cands ELSE x.configs
<1>3. winners = {w}
  BY <1>1, <1>2
<1>4. Candidate(x) = FirstOf(from).key
  BY Zenon DEF Candidate
<1>5. from # {} /\ \A c \in from : c = w \/ (c \in x.configs /\ c.id = w.id)
  <2>1. \A c \in entries : c \in x.configs /\ c.id = w.id
    BY <1>3 DEF Named
  <2> HIDE DEF entries, winners, cands
  <2> QED
    BY <1>3, <2>1
<1> HIDE DEF from
<1>6. \A c \in from : Made(c, keys) /\ c.id = w.id
  BY <1>2, <1>5 DEF WellMade
<1>7. FirstOf(from) \in from
  <2>1. \A c \in from : IsSummary(c)
    BY <1>6 DEF Made
  <2> QED
    BY <1>5, <2>1, FirstExists
<1>8. FirstOf(from).key = w.key
  BY <1>2, <1>6, <1>7 DEF Made
<1> QED
  BY <1>4, <1>8

(* The baseline has boost, if something made it so or it was looked at.    *)
LEMMA BaselineIsStock ==
  ASSUME NEW keys, NEW x, WellMade(x, keys), Stocked(x) \/ \E c \in StockOf(x) : c.boost
  PROVE  \A c \in StockOf(x) : c.key.boost
<1> DEFINE named == {c \in UNION {Named(x.configs, id) : id \in x.base} : c.boost}
           Stock(S) == {c \in S : c.base \/ c.boost}
           First(S) == IF S = {} THEN {} ELSE {FirstOf(S)}
           Cands == UNION {s.cands : s \in x.sel}
           profile == First(Stock(x.configs))
           selection == First(Stock(Cands))
<1>1. StockOf(x) = IF named # {} THEN named
                   ELSE IF \E c \in profile : c.boost THEN profile
                   ELSE IF selection # {} THEN selection ELSE profile
  BY Zenon DEF StockOf
<1>2. /\ \A c \in x.configs : Made(c, keys)
      /\ \A c \in Cands : Made(c, keys)
  <2>1. ASSUME NEW s \in x.sel, NEW c \in s.cands PROVE Made(c, keys)
    BY DEF WellMade, SelMade, WellAnswered
  <2> QED
    BY <2>1 DEF WellMade
<1>3. \A c \in named : Made(c, keys) /\ c.boost
  BY <1>2 DEF Named
<1>4. ASSUME NEW S, S \subseteq Offered(x), \A c \in S : Made(c, keys)
      PROVE  First(Stock(S)) = {} \/ \E c : /\ First(Stock(S)) = {c} /\ Made(c, keys)
                                            /\ Stocked(x) => c.boost
  <2>1. CASE Stock(S) = {}
    BY <2>1
  <2>2. CASE Stock(S) # {}
    <3>1. \A c \in Stock(S) : IsSummary(c) /\ Made(c, keys) /\ c \in Offered(x) /\ (c.base \/ c.boost)
      BY <1>4 DEF Made
    <3> HIDE DEF Stock
    <3>2. FirstOf(Stock(S)) \in Stock(S)
      BY <2>2, <3>1, FirstExists
    <3> QED
      BY <2>2, <3>1, <3>2 DEF Stocked
  <2> QED
    BY <2>1, <2>2
<1>5. x.configs \subseteq Offered(x) /\ Cands \subseteq Offered(x)
  BY DEF Offered
<1> HIDE DEF Cands
<1>6. /\ profile = {} \/ \E c : profile = {c} /\ Made(c, keys) /\ (Stocked(x) => c.boost)
      /\ selection = {} \/ \E c : selection = {c} /\ Made(c, keys) /\ (Stocked(x) => c.boost)
  <2> HIDE DEF Stock, First
  <2> QED
    BY <1>2, <1>4, <1>5 DEF Stock, First
<1> HIDE DEF named, profile, selection
<1>7. \A c \in StockOf(x) : Made(c, keys) /\ c.boost
  BY <1>1, <1>3, <1>6
<1> QED
  BY <1>7 DEF Made

(* A validation compares what was selected with a configuration that has   *)
(* boost, whatever was persisted when the server died.  It needs that an   *)
(* id names one point and that a calibration has measured the stock        *)
(* settings: before the first run it is all that a profile is made of.     *)
THEOREM SelectedIsValidated ==
  ASSUME OneKeyPerId, StockIsCalibrated
  PROVE  Spec => []PairIsSelected
<1> DEFINE Inv == SelectionInv /\ StockInv /\ PairIsSelected
<1>1. Init => Inv
  BY SelectionInvInit DEF Init, StockInv, PairIsSelected
<1>2. Inv /\ [Next]_vars => Inv'
  <2> SUFFICES ASSUME Inv, [Next]_vars PROVE Inv'
    OBVIOUS
  <2>1. SelectionInv' /\ StockInv'
    BY SelectionInvKept, StockKept
  <2>2. setup' = setup /\ setup \in Setups
    BY DEF SelectionInv, PlacesTyped, Next, Register, Sweeping, Start, Measure, Finish, Cancel, Show, Save,
       KeepProfile, Replies, Ask, ReplyRow, ReplyOverlay, Restart, Load, Validate, vars
  <2>3. CASE ~Validate
    <3>1. pair' = pair \/ pair' = {}
      BY <2>3 DEF Next, Register, Sweeping, Start, Measure, Finish, Cancel, Show, Save, KeepProfile,
         Replies, Ask, ReplyRow, ReplyOverlay, Restart, Load, vars
    <3> QED
      BY <2>1, <2>2, <3>1 DEF PairIsSelected
  <2>4. CASE Validate
    <3>1. SUFFICES ASSUME \A k \in ToSet(setup.plan) : k.boost => k.cap = 0, NEW p \in pair'
                   PROVE  (\A w \in p.of : p.cand = w.key) /\ (\A k \in p.base : k.boost)
      BY <2>1, <2>2 DEF PairIsSelected
    <3>2. PICK x : x = Content(IF held # {} THEN held ELSE shown)
      OBVIOUS
    <3>3. PICK keys : keys = KeysOf(setup)
      OBVIOUS
    <3>4. Filled(shown, keys) /\ Filled(held, keys)
      BY <3>3 DEF SelectionInv, SlotsMade
    <3>5. WellMade(x, keys)
      BY <3>2, <3>4, ContentMade
    <3>6. /\ p = [cand |-> Candidate(x), base |-> {c.key : c \in StockOf(x)},
                  of |-> UNION {s.winner : s \in x.sel}]
          /\ ~(runs # <<>> /\ \A c \in StockOf(x) : ~c.boost)
      BY <2>4, <3>2, Zenon DEF Validate
    <3>7. p.cand = Candidate(x) /\ p.base = {c.key : c \in StockOf(x)} /\ p.of = UNION {s.winner : s \in x.sel}
      BY <3>6
    <3>8. \A w \in p.of : p.cand = w.key
      <4>1. \A k, l \in keys : MakeConfigId(k) = MakeConfigId(l) => k = l
        BY <2>2, <3>1, <3>3 DEF OneKeyPerId
      <4> QED
        BY <3>5, <3>7, <4>1, CandidateIsSelected
    <3>9. Stocked(x) \/ \E c \in StockOf(x) : c.boost
      <4>1. CASE runs = <<>>
        <5>1. \A y \in shown \cup held : Stocked(y)
          BY <4>1 DEF StockInv
        <5> QED
          BY <3>2, <3>4, <5>1, ContentStocked
      <4>2. CASE runs # <<>>
        BY <3>6, <4>2
      <4> QED
        BY <4>1, <4>2
    <3>10. \A c \in StockOf(x) : c.key.boost
      BY <3>5, <3>9, BaselineIsStock
    <3> QED
      BY <3>7, <3>8, <3>10
  <2> QED
    BY <2>1, <2>3, <2>4
<1>3. Inv => PairIsSelected
  OBVIOUS
<1> QED
  BY <1>1, <1>2, <1>3, PTL DEF Spec

-----------------------------------------------------------------------------
(* On every profile that is shown a looser deadline has an answer when a   *)
(* tighter one has, and one that spends no more.                           *)
THEOREM TighterCosts == Spec => []TighterCostsMore
BY SelectionTyped, TypedTighter, PTL

(* On every profile that is shown the energy target does not change which  *)
(* configuration is selected as long as the floor can be kept.             *)
THEOREM FloorAlone == Spec => []FloorDecides
BY SelectionTyped, TypedFloor, PTL

(* On every profile that is shown the autopilot finds a configuration that *)
(* saves as much as is asked for if there is any, none quicker saves it,   *)
(* and its saving is the one that curve-options has shown.                 *)
THEOREM NothingLost == Spec => []MatchLosesNothing
BY SelectionTyped, TypedMatch, PTL

=============================================================================
