--------------------------- MODULE MeterProofs ------------------------------
(***************************************************************************)
(* Proofs about the two users of the Meter, for any powers, ranges of the  *)
(* counter and bounds.                                                     *)
(*                                                                         *)
(* Savings: what a burst reports was drawn, a reset is not a burst, the    *)
(* calibration ends, what is in the ledger was consented to, and what it   *)
(* says adds up.  Measure, for any number of programs at once: a run       *)
(* reports what was drawn and is labelled with the settings it ran under,  *)
(* and the user's settings come back.                                      *)
(***************************************************************************)
EXTENDS Savings, Measure, FiniteSetTheorems, SequenceTheorems, WellFoundedInduction, TLAPS

-----------------------------------------------------------------------------
(* A non-empty set of natural numbers has a least element.                 *)
LEMMA LeastOf ==
  ASSUME NEW S \in SUBSET Nat, S # {}
  PROVE  \E n \in S : \A m \in S : n <= m
<1>1. PICK n \in S : \A m \in S : <<m, n>> \notin OpToRel(<, Nat)
  BY WFMin, NatLessThanWellFounded
<1>2. \A m \in S : ~(m < n)
  BY <1>1, Zenon DEF OpToRel
<1>3. n \in Nat /\ \A m \in S : m \in Nat
  OBVIOUS
<1> QED
  BY <1>2, <1>3

(* The greatest number of a sequence: the one with the fewest above it.    *)
LEMMA GreatestSample ==
  ASSUME NEW s \in Seq(Nat), Len(s) > 0
  PROVE  \E i \in 1..Len(s) : \A j \in 1..Len(s) : s[j] <= s[i]
<1> DEFINE I == 1..Len(s)
           Above(i) == {j \in I : s[j] > s[i]}
           N == {Cardinality(Above(i)) : i \in I}
<1>0. Len(s) \in Nat
  OBVIOUS
<1>1. IsFiniteSet(I) /\ 1 \in I /\ \A i \in I : s[i] \in Nat
  <2>1. IsFiniteSet(I)
    BY <1>0, FS_Interval
  <2> QED
    BY <1>0, <2>1
<1>2. ASSUME NEW i \in I PROVE IsFiniteSet(Above(i)) /\ Cardinality(Above(i)) \in Nat
  <2>1. IsFiniteSet(Above(i))
    BY <1>1, FS_Subset
  <2> QED
    BY <2>1, FS_CardinalityType
<1>3. N \in SUBSET Nat /\ N # {}
  BY <1>1, <1>2
<1>4. PICK n \in N : \A m \in N : n <= m
  <2> HIDE DEF N
  <2> QED
    BY <1>3, LeastOf
<1>5. PICK i \in I : n = Cardinality(Above(i))
  BY <1>4
<1>6. ASSUME NEW j \in I, s[j] > s[i] PROVE FALSE
  <2>1. Above(j) \in SUBSET Above(i) /\ j \in Above(i) /\ j \notin Above(j)
    BY <1>1, <1>6
  <2>2. Cardinality(Above(j)) <= Cardinality(Above(i))
        /\ Cardinality(Above(j)) # Cardinality(Above(i))
    <3> HIDE DEF Above
    <3> QED
      BY <1>2, <2>1, FS_Subset
  <2>3. n <= Cardinality(Above(j))
    BY <1>4
  <2>4. Cardinality(Above(i)) \in Nat /\ Cardinality(Above(j)) \in Nat
    BY <1>2
  <2> HIDE DEF Above, N
  <2> QED
    BY <1>5, <2>2, <2>3, <2>4
<1>7. \A j \in I : s[i] \in Nat /\ s[j] \in Nat /\ ~(s[j] > s[i])
  BY <1>1, <1>6
<1>8. \A j \in I : s[j] <= s[i]
  BY <1>7
<1> HIDE DEF N, Above
<1> QED
  BY <1>8

(* The k-th number of a sequence in ascending order is in it.              *)
LEMMA KthExists ==
  ASSUME NEW s \in Seq(Nat), NEW k \in 1..Len(s)
  PROVE  \E v \in ToSet(s) : /\ Cardinality({i \in DOMAIN s : s[i] < v}) < k
                             /\ k <= Cardinality({i \in DOMAIN s : s[i] <= v})
<1> DEFINE I == 1..Len(s)
           UpTo(v) == {i \in I : s[i] <= v}
           Below(v) == {i \in I : s[i] < v}
           V == {v \in Nat : k <= Cardinality(UpTo(v))}
<1>1. IsFiniteSet(I) /\ Cardinality(I) = Len(s) /\ DOMAIN s = I /\ Len(s) > 0 /\ Len(s) \in Nat
      /\ \A i \in I : s[i] \in Nat
  <2>1. Len(s) \in Nat /\ Len(s) > 0 /\ DOMAIN s = I /\ \A i \in I : s[i] \in Nat
    OBVIOUS
  <2>2. IsFiniteSet(I) /\ Cardinality(I) = IF 1 > Len(s) THEN 0 ELSE Len(s) - 1 + 1
    BY <2>1, FS_Interval
  <2> QED
    BY <2>1, <2>2
<1>2. ASSUME NEW v \in Nat
      PROVE  /\ IsFiniteSet(UpTo(v)) /\ Cardinality(UpTo(v)) \in Nat
             /\ IsFiniteSet(Below(v)) /\ Cardinality(Below(v)) \in Nat
  <2>1. IsFiniteSet(UpTo(v)) /\ IsFiniteSet(Below(v))
    BY <1>1, FS_Subset
  <2> QED
    BY <2>1, FS_CardinalityType
<1>3. V # {}
  <2>1. PICK i \in I : \A j \in I : s[j] <= s[i]
    BY <1>1, GreatestSample
  <2>2. UpTo(s[i]) = I
    BY <2>1
  <2> QED
    BY <1>1, <2>2
<1>4. PICK v \in V : \A w \in V : v <= w
  <2> HIDE DEF V
  <2>1. V \in SUBSET Nat
    BY DEF V
  <2> QED
    BY <1>3, <2>1, LeastOf
<1>5. v \in Nat /\ k <= Cardinality(UpTo(v))
  BY <1>4
<1>6. Cardinality(Below(v)) < k
  <2>1. CASE v = 0
    <3>1. Below(v) = {}
      <4>1. \A i \in I : ~(s[i] < 0)
        BY <1>1
      <4> QED
        BY <2>1, <4>1
    <3>2. Cardinality(Below(v)) = 0
      BY <3>1, FS_EmptySet
    <3> HIDE DEF Below
    <3> QED
      BY <3>2
  <2>2. CASE v # 0
    <3>1. v - 1 \in Nat /\ ~(v <= v - 1)
      BY <1>5, <2>2
    <3>2. Below(v) = UpTo(v - 1)
      <4>1. \A i \in I : s[i] < v <=> s[i] <= v - 1
        BY <1>1, <1>5
      <4> QED
        BY <4>1
    <3>3. ~(k <= Cardinality(UpTo(v - 1)))
      BY <1>4, <3>1
    <3>4. Cardinality(UpTo(v - 1)) \in Nat
      BY <1>2, <3>1
    <3> HIDE DEF Below, UpTo
    <3> QED
      BY <3>2, <3>3, <3>4
  <2> QED
    BY <2>1, <2>2
<1>7. \E i \in I : s[i] = v
  <2> SUFFICES ASSUME \A i \in I : s[i] # v PROVE FALSE
    OBVIOUS
  <2>1. UpTo(v) = Below(v)
    <3>1. \A i \in I : s[i] <= v <=> s[i] < v
      BY <1>1, <1>5
    <3> QED
      BY <3>1
  <2>2. Cardinality(UpTo(v)) \in Nat
    BY <1>2, <1>5
  <2>4. k \in Nat
    BY <1>1
  <2>3. Cardinality(UpTo(v)) = Cardinality(Below(v))
    BY <2>1
  <2> HIDE DEF UpTo, Below, V
  <2> QED
    BY <1>5, <1>6, <2>2, <2>3, <2>4
<1> QED
  BY <1>1, <1>5, <1>6, <1>7 DEF ToSet

(* Twice a median is a sum of two of the numbers.                          *)
LEMMA MedianTyped ==
  ASSUME NEW s \in Seq(Nat), Len(s) > 0
  PROVE  Median2(s) \in Nat
<1> DEFINE Kth(k) == CHOOSE v \in ToSet(s) :
                       /\ Cardinality({i \in DOMAIN s : s[i] < v}) < k
                       /\ k <= Cardinality({i \in DOMAIN s : s[i] <= v})
<1>1. ASSUME NEW k \in 1..Len(s) PROVE Kth(k) \in Nat
  <2>1. Kth(k) \in ToSet(s)
    BY KthExists
  <2>2. \A v \in ToSet(s) : v \in Nat
    BY DEF ToSet
  <2> HIDE DEF Kth
  <2> QED
    BY <2>1, <2>2
<1>2. (Len(s) + 1) \div 2 \in 1..Len(s) /\ Len(s) \div 2 + 1 \in 1..Len(s)
  <2>1. Len(s) \in Nat
    OBVIOUS
  <2> QED
    BY <2>1
<1>3. Kth((Len(s) + 1) \div 2) \in Nat /\ Kth(Len(s) \div 2 + 1) \in Nat
  <2>1. PICK a \in 1..Len(s), b \in 1..Len(s) : a = (Len(s) + 1) \div 2 /\ b = Len(s) \div 2 + 1
    BY <1>2
  <2>2. Kth(a) \in Nat /\ Kth(b) \in Nat
    BY <1>1
  <2> QED
    BY <2>1, <2>2
<1>4. Median2(s) = Kth((Len(s) + 1) \div 2) + Kth(Len(s) \div 2 + 1)
  BY DEF Median2
<1> HIDE DEF Kth
<1> QED
  BY <1>3, <1>4

(* The greatest of three integers.                                         *)
LEMMA GreatestOfThree ==
  ASSUME NEW a \in Int, NEW b \in Int, NEW c \in Int
  PROVE  /\ Max({a, b, c}) \in {a, b, c}
         /\ Max({a, b, c}) >= a /\ Max({a, b, c}) >= b /\ Max({a, b, c}) >= c
<1>1. \E x \in {a, b, c} : \A y \in {a, b, c} : x >= y
  <2>1. (a >= b /\ a >= c) \/ (b >= a /\ b >= c) \/ (c >= a /\ c >= b)
    OBVIOUS
  <2> QED
    BY <2>1
<1>2. Max({a, b, c}) \in {a, b, c} /\ \A y \in {a, b, c} : Max({a, b, c}) >= y
  BY <1>1, Zenon DEF Max
<1> QED
  BY <1>2

(* The greater of two.                                                     *)
LEMMA GreaterOfTwo ==
  ASSUME NEW a \in Int, NEW b \in Int
  PROVE  Max({a, b}) \in {a, b} /\ Max({a, b}) >= a /\ Max({a, b}) >= b
<1>1. {a, b} = {a, b, b}
  OBVIOUS
<1> QED
  BY <1>1, GreatestOfThree

(* Products.                                                               *)
LEMMA OneMore ==
  ASSUME NEW a \in Int, NEW x \in Int
  PROVE  a * (x + 1) = a * x + a
OBVIOUS

(* A product distributes over a sum.                                       *)
LEMMA Distributes ==
  ASSUME NEW a \in Int, NEW x \in Int, NEW y \in Int
  PROVE  a * (x + y) = a * x + a * y
OBVIOUS

(* A product grows with its factor.                                        *)
LEMMA ProductGrows ==
  ASSUME NEW a \in Int, NEW b \in Int, NEW x \in Nat, a <= b
  PROVE  a * x <= b * x
OBVIOUS

(* Remainders.                                                             *)
LEMMA Divided ==
  ASSUME NEW x \in Int, NEW m \in Nat \ {0}
  PROVE  x % m \in 0..(m - 1) /\ x \div m \in Int /\ x = (m * (x \div m)) + (x % m)
OBVIOUS

(* An integer is a multiple and a remainder.                               *)
LEMMA DividedInto ==
  ASSUME NEW x \in Int, NEW m \in Nat \ {0}
  PROVE  \E a \in Int, r \in 0..(m - 1) : x = (m * a) + r /\ r = x % m /\ a = x \div m
<1>1. x % m \in 0..(m - 1) /\ x \div m \in Int /\ x = (m * (x \div m)) + (x % m)
  BY Divided
<1> QED
  BY <1>1, Zenon

(* What is added to a multiple and less than the divisor is the remainder. *)
LEMMA RemainderIs ==
  ASSUME NEW x \in Int, NEW m \in Nat \ {0}, NEW q \in Int, NEW r \in 0..(m - 1), x = (m * q) + r
  PROVE  x % m = r
OBVIOUS

-----------------------------------------------------------------------------
(* A detector has these fields, has measured what it is to compare with,   *)
(* and has its readings where its state says.                              *)
IsDetector(c) ==
  c = [state |-> c.state, values |-> c.values, base2 |-> c.base2, spread4 |-> c.spread4,
       cand |-> c.cand, n |-> c.n, last |-> c.last, quiet |-> c.quiet]

HasMeasured(c) ==
  /\ c.base2 \in Nat /\ c.spread4 \in Nat /\ c.n \in Nat
  /\ c.values \in Seq(Nat \cup {NoPower})
  /\ c.state # "calibrating" => c.values \in Seq(Nat)
  /\ (c.state = "calibrating" /\ NoPower \notin ToSet(c.values)) => Len(c.values) < 3

HasReadings(c) ==
  /\ c.state = "calibrating" => c.cand = {}
  /\ c.state = "active" => c.cand # {} /\ c.last # {}
  /\ c.state # "active" => c.last = {}
  /\ \A x, y \in c.cand : x = y
  /\ \A x, y \in c.last : x = y

Detects(c) == IsDetector(c) /\ HasMeasured(c) /\ HasReadings(c)

(* Samples that all have a power.                                          *)
LEMMA AllKnown ==
  ASSUME NEW s \in Seq(Nat \cup {NoPower}), NoPower \notin ToSet(s)
  PROVE  s \in Seq(Nat)
<1>1. \A i \in 1..Len(s) : s[i] \in Nat
  <2> SUFFICES ASSUME NEW i \in 1..Len(s) PROVE s[i] \in Nat
    OBVIOUS
  <2>1. s[i] \in Nat \cup {NoPower}
    OBVIOUS
  <2>2. s[i] # NoPower
    BY DEF ToSet
  <2> QED
    BY <2>1, <2>2
<1>2. Len(s) \in Nat /\ s = [i \in 1..Len(s) |-> s[i]]
  OBVIOUS
<1> QED
  BY <1>1, <1>2

(* What is above the band of a detector is above its baseline.             *)
LEMMA AboveBaseline ==
  ASSUME NEW c, NEW p \in Int, c.base2 \in Nat, c.spread4 \in Nat, AboveBand(c, p)
  PROVE  2 * p > c.base2
<1>1. PICK a \in Int, b \in Int : a = 300 * c.spread4 /\ b = 70 * c.base2
  OBVIOUS
<1>2. Max({a, b, 1400}) \in {a, b, 1400} /\ Max({a, b, 1400}) >= 1400
  BY GreatestOfThree
<1>3. 400 * p > 200 * c.base2 + Max({a, b, 1400})
  BY <1>1 DEF AboveBand
<1> QED
  BY <1>1, <1>2, <1>3

(* _set_baseline measures.                                                 *)
LEMMA BaselineIsSet ==
  ASSUME NEW c, IsDetector(c), c.n \in Nat, NEW values \in Seq(Nat), Len(values) > 0,
         NEW e, e = SetBaseline(c, values)
  PROVE  /\ IsDetector(e) /\ HasMeasured(e) /\ e.state = "idle"
         /\ e.cand = c.cand /\ e.n = c.n /\ e.last = c.last /\ e.quiet = c.quiet
<1> DEFINE base2 == Median2(values)
           Off(v) == IF 2 * v > base2 THEN 2 * v - base2 ELSE base2 - 2 * v
           offs == [i \in DOMAIN values |-> Off(values[i])]
           spread4 == Median2(offs)
<1>1. base2 \in Nat
  BY MedianTyped
<1>2. \A v \in Nat : Off(v) \in Nat
  <2> HIDE DEF base2
  <2> QED
    BY <1>1
<1>3. offs \in Seq(Nat) /\ Len(offs) > 0
  <2> HIDE DEF Off
  <2>1. DOMAIN values = 1..Len(values) /\ Len(values) \in Nat /\ \A i \in 1..Len(values) : values[i] \in Nat
    OBVIOUS
  <2>2. offs \in [1..Len(values) -> Nat]
    BY <1>2, <2>1
  <2>3. offs \in Seq(Nat)
    BY <2>1, <2>2
  <2> QED
    BY <2>1, <2>2, <2>3
<1>4. spread4 \in Nat
  <2> HIDE DEF offs
  <2> QED
    BY <1>3, MedianTyped
<1>5. e = [c EXCEPT !.values = values, !.state = "idle", !.base2 = base2, !.spread4 = spread4]
  BY DEF SetBaseline
<1> HIDE DEF base2, spread4
<1>6. e = [state |-> "idle", values |-> values, base2 |-> base2, spread4 |-> spread4,
           cand |-> c.cand, n |-> c.n, last |-> c.last, quiet |-> c.quiet]
  BY <1>5 DEF IsDetector
<1>7. values \in Seq(Nat \cup {NoPower})
  OBVIOUS
<1> QED
  BY <1>1, <1>4, <1>6, <1>7 DEF IsDetector, HasMeasured

(* While it calibrates, a detector only measures.                          *)
LEMMA Calibrated ==
  ASSUME NEW c, Detects(c), c.state = "calibrating", NEW p \in Nat \cup {NoPower},
         NEW e, e = Calibrate(c, p)
  PROVE  /\ IsDetector(e) /\ HasMeasured(e) /\ e.state \in {"calibrating", "idle"}
         /\ e.cand = c.cand /\ e.n = c.n /\ e.last = c.last /\ e.quiet = c.quiet
<1> DEFINE values == Append(c.values, p)
           window == IF Window < 2 THEN Window ELSE 2
<1>1. /\ c.values \in Seq(Nat \cup {NoPower}) /\ values \in Seq(Nat \cup {NoPower})
      /\ Len(values) = Len(c.values) + 1 /\ Len(c.values) \in Nat
  BY DEF Detects, HasMeasured
<1>2. window \in Nat /\ window <= 2
  BY BoundsAssumption
<1>3. c.base2 \in Nat /\ c.spread4 \in Nat /\ c.n \in Nat /\ IsDetector(c)
  BY DEF Detects, HasMeasured
<1>4. CASE Len(values) < 2 \/ \E v \in ToSet(values) : v = NoPower
  <2>1. e = [c EXCEPT !.values = values]
    BY <1>4 DEF Calibrate
  <2> HIDE DEF values
  <2>2. e = [state |-> "calibrating", values |-> values, base2 |-> c.base2, spread4 |-> c.spread4,
             cand |-> c.cand, n |-> c.n, last |-> c.last, quiet |-> c.quiet]
    BY <2>1, <1>3 DEF IsDetector
  <2>3. NoPower \notin ToSet(values) => Len(values) < 3
    BY <1>1, <1>4
  <2> QED
    BY <1>1, <1>3, <2>2, <2>3 DEF IsDetector, HasMeasured
<1>5. CASE ~(Len(values) < 2 \/ \E v \in ToSet(values) : v = NoPower)
  <2>1. /\ values \in Seq(Nat) /\ Len(values) > 0
        /\ c.values \in Seq(Nat) /\ Len(c.values) > 0
    <3>1. values \in Seq(Nat)
      <4> HIDE DEF values
      <4> QED
        BY <1>1, <1>5, AllKnown
    <3>2. \A i \in 1..Len(c.values) : c.values[i] = values[i]
      BY <1>1
    <3>3. \A i \in 1..Len(c.values) : c.values[i] \in Nat
      <4> HIDE DEF values
      <4> QED
        BY <3>1, <3>2, <1>1
    <3>4. c.values \in Seq(Nat)
      BY <1>1, <3>3
    <3> HIDE DEF values
    <3> QED
      BY <1>1, <1>5, <3>1, <3>4
  <2>2. CASE Spike(c.values, p)
    <3>1. e = [c EXCEPT !.values = values, !.state = "idle", !.base2 = Median2(c.values), !.spread4 = 2]
      BY <1>5, <2>2 DEF Calibrate
    <3>2. Median2(c.values) \in Nat
      BY <2>1, MedianTyped
    <3> HIDE DEF values
    <3>3. e = [state |-> "idle", values |-> values, base2 |-> Median2(c.values), spread4 |-> 2,
               cand |-> c.cand, n |-> c.n, last |-> c.last, quiet |-> c.quiet]
      BY <3>1, <1>3 DEF IsDetector
    <3> QED
      BY <1>1, <1>3, <2>1, <3>2, <3>3 DEF IsDetector, HasMeasured
  <2>3. CASE ~Spike(c.values, p) /\ Len(values) > window
    <3>1. e = SetBaseline(c, values)
      BY <1>5, <2>3 DEF Calibrate
    <3> HIDE DEF values
    <3> QED
      BY <1>3, <2>1, <3>1, BaselineIsSet
  <2>4. CASE ~Spike(c.values, p) /\ ~(Len(values) > window)
    <3>1. e = [c EXCEPT !.values = values]
      BY <1>5, <2>4 DEF Calibrate
    <3> HIDE DEF values
    <3>2. e = [state |-> "calibrating", values |-> values, base2 |-> c.base2, spread4 |-> c.spread4,
               cand |-> c.cand, n |-> c.n, last |-> c.last, quiet |-> c.quiet]
      BY <3>1, <1>3 DEF IsDetector
    <3>3. Len(values) < 3
      BY <1>1, <1>2, <2>4
    <3> QED
      BY <1>1, <1>3, <3>2, <3>3 DEF IsDetector, HasMeasured
  <2> QED
    BY <2>2, <2>3, <2>4
<1> QED
  BY <1>4, <1>5

(* An idle detector adapts.                                                *)
LEMMA Adapted ==
  ASSUME NEW c, IsDetector(c), HasMeasured(c), c.state = "idle", NEW p \in Nat,
         NEW e, e = Adapt(c, p)
  PROVE  /\ IsDetector(e) /\ HasMeasured(e) /\ e.state = "idle"
         /\ e.cand = c.cand /\ e.n = c.n /\ e.last = c.last /\ e.quiet = c.quiet
<1> DEFINE values == Append(c.values, p)
           cap == Max({8, Window})
           start == Max({1, Len(values) - cap + 1})
           newest == SubSeq(values, start, Len(values))
<1>1. values \in Seq(Nat) /\ Len(values) \in Nat /\ Len(values) > 0
  BY DEF HasMeasured
<1>2. cap \in Nat /\ cap >= 8
  <2>1. Window \in Nat
    BY BoundsAssumption
  <2>2. cap \in {8, Window} /\ cap >= 8
    BY <2>1, GreaterOfTwo
  <2> HIDE DEF cap
  <2> QED
    BY <2>1, <2>2
<1>3. start \in 1..Len(values)
  <2> HIDE DEF values, cap
  <2>0. Len(values) - cap + 1 \in Int
    BY <1>1, <1>2
  <2>1. PICK k \in Int : k = Len(values) - cap + 1
    BY <2>0
  <2>2. Max({1, k}) \in {1, k} /\ Max({1, k}) >= 1
    BY GreaterOfTwo
  <2>3. start \in {1, k} /\ start >= 1
    BY <2>1, <2>2
  <2> HIDE DEF start
  <2> QED
    BY <1>1, <1>2, <2>1, <2>3
<1>4. newest \in Seq(Nat) /\ Len(newest) = Len(values) - start + 1
  <2> HIDE DEF values, start, cap
  <2> QED
    BY <1>1, <1>3, SubSeqProperties
<1>5. Len(newest) > 0
  <2> HIDE DEF values, start, newest
  <2> QED
    BY <1>1, <1>3, <1>4
<1>6. e = SetBaseline(c, newest)
  BY DEF Adapt
<1> HIDE DEF newest
<1> QED
  BY <1>4, <1>5, <1>6, BaselineIsSet DEF HasMeasured

-----------------------------------------------------------------------------
(* What a sample may do to the burst that a detector sees: there is none,  *)
(* it is as it was, it goes on above the band, or it goes on within it.    *)
None(e) == e.state \in {"calibrating", "idle"} /\ e.cand = {} /\ e.last = {}

Same(c, e) ==
  /\ e.cand = c.cand /\ e.n = c.n /\ e.last = c.last /\ e.state = c.state
  /\ c.cand # {} => e.base2 = c.base2

Rose(c, p, r, e) ==
  /\ c.state # "active" /\ p # NoPower /\ 2 * p > e.base2
  /\ \/ c.cand = {} /\ e.cand = {r} /\ e.n = 1
     \/ c.cand # {} /\ e.cand = c.cand /\ e.n = c.n + 1 /\ e.base2 = c.base2
  /\ \/ e.state = "idle" /\ e.last = {}
     \/ e.state = "active" /\ e.last = {r} /\ (Onset >= 2 => c.cand # {})

Lasted(c, p, r, e) ==
  /\ c.state = "active" /\ e.state = "active" /\ p # NoPower
  /\ e.cand = c.cand /\ e.n = c.n /\ e.base2 = c.base2 /\ e.last = {r}

(* A sample above the band of an idle detector.                            *)
LEMMA Risen ==
  ASSUME NEW c, Detects(c), c.state = "idle", NEW p \in Nat, NEW r, r.at \in Nat,
         AboveBand(c, p), NEW e, e = Rise(c, r)
  PROVE  Detects(e) /\ Rose(c, p, r, e)
<1> DEFINE cand == IF c.cand = {} THEN {r} ELSE c.cand
           n == IF c.cand = {} THEN 1 ELSE c.n + 1
           confirmed == n >= Onset \/ \E s \in cand : r.at - s.at >= Onset
<1>1. /\ IsDetector(c) /\ HasMeasured(c) /\ c.n \in Nat /\ c.last = {} /\ c.base2 \in Nat
      /\ c.spread4 \in Nat /\ \A x, y \in c.cand : x = y
  BY DEF Detects, HasMeasured, HasReadings
<1>2. 2 * p > c.base2 /\ p # NoPower
  BY <1>1, AboveBaseline DEF NoPower
<1>3. n \in Nat /\ cand # {} /\ (\A x, y \in cand : x = y)
  BY <1>1
<1>4. CASE confirmed
  <2>1. e = [c EXCEPT !.cand = cand, !.n = n, !.state = "active", !.last = {r}, !.quiet = {}]
    BY <1>4 DEF Rise
  <2>2. Onset >= 2 => c.cand # {}
    <3> SUFFICES ASSUME Onset >= 2, c.cand = {} PROVE FALSE
      OBVIOUS
    <3>1. cand = {r} /\ n = 1
      OBVIOUS
    <3>2. ~(1 >= Onset) /\ ~(r.at - r.at >= Onset)
      BY BoundsAssumption
    <3> HIDE DEF cand, n
    <3> QED
      BY <1>4, <3>1, <3>2
  <2>3. /\ c.cand = {} => cand = {r} /\ n = 1
        /\ c.cand # {} => cand = c.cand /\ n = c.n + 1
    OBVIOUS
  <2> HIDE DEF cand, n
  <2>4. e = [state |-> "active", values |-> c.values, base2 |-> c.base2, spread4 |-> c.spread4,
             cand |-> cand, n |-> n, last |-> {r}, quiet |-> {}]
    BY <2>1, <1>1 DEF IsDetector
  <2>5. Detects(e)
    BY <1>1, <1>3, <2>4 DEF Detects, IsDetector, HasMeasured, HasReadings
  <2> QED
    BY <1>1, <1>2, <2>2, <2>3, <2>4, <2>5 DEF Rose
<1>5. CASE ~confirmed
  <2>1. e = [c EXCEPT !.cand = cand, !.n = n]
    BY <1>5 DEF Rise
  <2>3. /\ c.cand = {} => cand = {r} /\ n = 1
        /\ c.cand # {} => cand = c.cand /\ n = c.n + 1
    OBVIOUS
  <2> HIDE DEF cand, n
  <2>4. e = [state |-> "idle", values |-> c.values, base2 |-> c.base2, spread4 |-> c.spread4,
             cand |-> cand, n |-> n, last |-> c.last, quiet |-> c.quiet]
    BY <2>1, <1>1 DEF IsDetector
  <2>5. Detects(e)
    BY <1>1, <1>3, <2>4 DEF Detects, IsDetector, HasMeasured, HasReadings
  <2> QED
    BY <1>1, <1>2, <2>3, <2>4, <2>5 DEF Rose
<1> QED
  BY <1>4, <1>5

(* A sample within the band of an idle detector.                           *)
LEMMA Dipped ==
  ASSUME NEW c, Detects(c), c.state = "idle", NEW p \in Nat, NEW r, NEW e, e = Dip(c, p, r)
  PROVE  Detects(e) /\ (None(e) \/ Same(c, e))
<1>1. IsDetector(c) /\ HasMeasured(c) /\ c.last = {} /\ \A x, y \in c.cand : x = y
  BY DEF Detects, HasReadings
<1>2. CASE c.cand = {}
  <2>1. e = Adapt(c, p)
    BY <1>2 DEF Dip
  <2>2. /\ IsDetector(e) /\ HasMeasured(e) /\ e.state = "idle"
        /\ e.cand = c.cand /\ e.n = c.n /\ e.last = c.last /\ e.quiet = c.quiet
    BY <1>1, <2>1, Adapted
  <2> QED
    BY <1>1, <1>2, <2>2 DEF Detects, HasReadings, None
<1>3. CASE c.cand # {}
  <2>1. e = [c EXCEPT !.cand = {}, !.n = 0] \/ e = c
    BY <1>3 DEF Dip
  <2>2. CASE e = [c EXCEPT !.cand = {}, !.n = 0]
    <3>1. e = [state |-> "idle", values |-> c.values, base2 |-> c.base2, spread4 |-> c.spread4,
               cand |-> {}, n |-> 0, last |-> {}, quiet |-> c.quiet]
      BY <1>1, <2>2 DEF IsDetector
    <3> QED
      BY <1>1, <3>1 DEF Detects, IsDetector, HasMeasured, HasReadings, None
  <2>3. CASE e = c
    BY <2>3 DEF Same
  <2> QED
    BY <2>1, <2>2, <2>3
<1> QED
  BY <1>2, <1>3

(* A sample within the band of an active detector.                         *)
LEMMA Fallen ==
  ASSUME NEW c, Detects(c), c.state = "active", NEW p \in Nat, NEW r, NEW e, e = Fall(c, p, r)
  PROVE  /\ Detects(e)
         /\ None(e) \/ Same(c, e) \/ Lasted(c, p, r, e)
         /\ Closes(c, p, r) => None(e) /\ e.state = "idle"
<1>1. IsDetector(c) /\ HasMeasured(c) /\ HasReadings(c) /\ p # NoPower
  BY DEF Detects, NoPower
<1>2. CASE ~InBand(c, p)
  <2>1. e = [c EXCEPT !.quiet = {}, !.last = {r}]
    BY <1>2 DEF Fall
  <2>2. e = [state |-> c.state, values |-> c.values, base2 |-> c.base2, spread4 |-> c.spread4,
             cand |-> c.cand, n |-> c.n, last |-> {r}, quiet |-> {}]
    BY <1>1, <2>1 DEF IsDetector
  <2>3. Detects(e)
    BY <1>1, <2>2 DEF Detects, IsDetector, HasMeasured, HasReadings
  <2>4. Lasted(c, p, r, e)
    BY <1>1, <2>2 DEF Lasted
  <2> QED
    BY <1>2, <2>3, <2>4 DEF Closes
<1>3. CASE InBand(c, p) /\ Closes(c, p, r)
  <2>1. e = [c EXCEPT !.state = "idle", !.cand = {}, !.n = 0, !.last = {}, !.quiet = {}]
    BY <1>3 DEF Fall
  <2>2. e = [state |-> "idle", values |-> c.values, base2 |-> c.base2, spread4 |-> c.spread4,
             cand |-> {}, n |-> 0, last |-> {}, quiet |-> {}]
    BY <1>1, <2>1 DEF IsDetector
  <2> QED
    BY <1>1, <2>2 DEF Detects, IsDetector, HasMeasured, HasReadings, None
<1>4. CASE InBand(c, p) /\ ~Closes(c, p, r)
  <2>1. e = [c EXCEPT !.quiet = {Quiet(c, r)}]
    BY <1>4 DEF Fall
  <2>2. e = [state |-> c.state, values |-> c.values, base2 |-> c.base2, spread4 |-> c.spread4,
             cand |-> c.cand, n |-> c.n, last |-> c.last, quiet |-> {Quiet(c, r)}]
    BY <1>1, <2>1 DEF IsDetector
  <2>3. Detects(e)
    BY <1>1, <2>2 DEF Detects, IsDetector, HasMeasured, HasReadings
  <2> QED
    BY <1>4, <2>2, <2>3 DEF Same
<1> QED
  BY <1>2, <1>3, <1>4

(* What a sample does.                                                     *)
LEMMA Observed ==
  ASSUME NEW c, Detects(c), c.state \in {"calibrating", "idle", "active"},
         NEW p \in Nat \cup {NoPower}, NEW r, r.at \in Nat, NEW e, e = Observe(c, p, r)
  PROVE  /\ Detects(e) /\ e.state \in {"calibrating", "idle", "active"}
         /\ None(e) \/ Same(c, e) \/ Rose(c, p, r, e) \/ Lasted(c, p, r, e)
         /\ Closes(c, p, r) => None(e) /\ e.state = "idle"
<1>1. PICK k : k = IF c.state = "calibrating" THEN Calibrate(c, p) ELSE c
  OBVIOUS
<1>2. /\ Detects(k) /\ k.cand = c.cand /\ k.n = c.n /\ k.last = c.last /\ k.quiet = c.quiet
      /\ c.state # "calibrating" => k = c
      /\ c.state = "calibrating" => k.state \in {"calibrating", "idle"} /\ k.cand = {} /\ k.last = {}
  <2>1. CASE c.state = "calibrating"
    <3>1. k = Calibrate(c, p)
      BY <1>1, <2>1
    <3>2. /\ IsDetector(k) /\ HasMeasured(k) /\ k.state \in {"calibrating", "idle"}
          /\ k.cand = c.cand /\ k.n = c.n /\ k.last = c.last /\ k.quiet = c.quiet
      BY <2>1, <3>1, Calibrated
    <3>3. c.cand = {} /\ c.last = {}
      BY <2>1 DEF Detects, HasReadings
    <3> QED
      BY <2>1, <3>2, <3>3 DEF Detects, HasReadings
  <2>2. CASE c.state # "calibrating"
    BY <1>1, <2>2
  <2> QED
    BY <2>1, <2>2
<1>3. e = IF k.state = "calibrating" \/ p = NoPower THEN k
          ELSE IF k.state = "idle" THEN IF AboveBand(k, p) THEN Rise(k, r) ELSE Dip(k, p, r)
          ELSE Fall(k, p, r)
  BY <1>1 DEF Observe
<1>4. CASE k.state = "calibrating" \/ p = NoPower
  <2>1. e = k
    BY <1>3, <1>4
  <2>2. CASE c.state = "calibrating"
    BY <1>2, <2>1, <2>2 DEF None, Closes
  <2>3. CASE c.state # "calibrating"
    BY <1>2, <1>4, <2>1, <2>3 DEF Same, Closes
  <2> QED
    BY <2>2, <2>3
<1>5. CASE k.state = "idle" /\ p # NoPower
  <2>1. p \in Nat /\ c.state # "active"
    BY <1>2, <1>5
  <2>2. ~Closes(c, p, r)
    BY <2>1 DEF Closes
  <2>3. CASE AboveBand(k, p)
    <3>1. e = Rise(k, r)
      BY <1>3, <1>5, <2>3
    <3>2. Detects(e) /\ Rose(k, p, r, e)
      BY <1>2, <1>5, <2>1, <2>3, <3>1, Risen
    <3> QED
      BY <1>2, <2>2, <3>2 DEF Rose
  <2>4. CASE ~AboveBand(k, p)
    <3>1. e = Dip(k, p, r)
      BY <1>3, <1>5, <2>4
    <3>2. Detects(e) /\ (None(e) \/ Same(k, e))
      BY <1>2, <1>5, <2>1, <3>1, Dipped
    <3>3. CASE None(e)
      BY <2>2, <3>2, <3>3 DEF None
    <3>4. CASE Same(k, e) /\ c.state = "calibrating"
      BY <1>2, <1>5, <2>2, <3>2, <3>4 DEF Same, None
    <3>5. CASE Same(k, e) /\ c.state # "calibrating"
      BY <1>2, <1>5, <2>2, <3>2, <3>5 DEF Same
    <3> QED
      BY <3>2, <3>3, <3>4, <3>5
  <2> QED
    BY <2>3, <2>4
<1>6. CASE k.state \notin {"calibrating", "idle"} /\ p # NoPower
  <2>1. p \in Nat /\ k = c /\ c.state = "active" /\ e = Fall(c, p, r)
    BY <1>2, <1>3, <1>6
  <2>2. /\ Detects(e)
        /\ None(e) \/ Same(c, e) \/ Lasted(c, p, r, e)
        /\ Closes(c, p, r) => None(e) /\ e.state = "idle"
    BY <2>1, Fallen
  <2> QED
    BY <2>1, <2>2 DEF None, Same, Lasted
<1> QED
  BY <1>4, <1>5, <1>6

-----------------------------------------------------------------------------
(* A remainder may be taken before a sum or after it.                      *)
LEMMA RemainderAdds ==
  ASSUME NEW u \in Int, NEW p \in Int, NEW m \in Nat \ {0}
  PROVE  ((u % m) + p) % m = (u + p) % m
<1>1. PICK a \in Int, r \in 0..(m - 1) : u = (m * a) + r /\ r = u % m
  BY DividedInto
<1>2. PICK b \in Int, s \in 0..(m - 1) : r + p = (m * b) + s /\ s = (r + p) % m
  <2>1. r + p \in Int
    BY <1>1
  <2> QED
    BY <2>1, DividedInto
<1>3. a + b \in Int /\ u + p = (m * (a + b)) + s
  BY <1>1, <1>2, Distributes
<1>4. PICK c \in Int : c = a + b
  BY <1>3
<1>5. u + p \in Int /\ u + p = (m * c) + s
  BY <1>3, <1>4
<1>6. (u + p) % m = s
  BY <1>5, RemainderIs
<1> QED
  BY <1>1, <1>2, <1>6

(* What is less than the divisor is its own remainder.                     *)
LEMMA RemainderOfSmall ==
  ASSUME NEW m \in Nat \ {0}, NEW x \in 0..(m - 1)
  PROVE  x % m = x
<1>1. x = (m * 0) + x /\ x \in Int /\ 0 \in Int
  OBVIOUS
<1> QED
  BY <1>1, RemainderIs

(* A remainder is a natural number and no more than the dividend.          *)
LEMMA RemainderIsLess ==
  ASSUME NEW m \in Nat \ {0}, NEW t \in Nat
  PROVE  t % m \in Nat /\ t % m <= t
<1>1. PICK a \in Int, r \in 0..(m - 1) : t = (m * a) + r /\ r = t % m /\ a = t \div m
  <2>1. t \in Int
    OBVIOUS
  <2> QED
    BY <2>1, DividedInto
<1>2. a >= 0
  <2> SUFFICES ASSUME a <= -1 PROVE FALSE
    BY <1>1
  <2>1. m * a <= m * (-1)
    OBVIOUS
  <2> QED
    BY <1>1, <2>1
<1>3. m * a >= 0
  BY <1>2
<1> QED
  BY <1>1, <1>3

(* The difference of two readings, t apart, is t if that is less than the  *)
(* range, and never more.                                                  *)
LEMMA DeltaIs ==
  ASSUME NEW x \in 0..(MaxRange - 1), NEW t \in Nat, NEW y, y = (x + t) % MaxRange,
         NEW range \in {{}, Wrap}, NEW e \in Delta(x, y, range)
  PROVE  e \in Nat /\ e <= t /\ (t < MaxRange => e = t)
<1> USE MeterAssumption
<1>1. PICK u \in Int : u = x + t
  OBVIOUS
<1>2. y = u % MaxRange /\ y \in 0..(MaxRange - 1)
  BY <1>1, Divided
<1>3. CASE range = {}
  <2>1. e = y - x /\ e >= 0
    BY <1>3 DEF Delta
  <2>2. y <= x + t
    <3>1. x + t \in Nat
      OBVIOUS
    <3> QED
      BY <3>1, RemainderIsLess
  <2>3. t < MaxRange => e = t
    <3> SUFFICES ASSUME t < MaxRange PROVE e = t
      OBVIOUS
    <3>1. CASE x + t < MaxRange
      <4>1. x + t \in 0..(MaxRange - 1)
        BY <3>1
      <4>2. (x + t) % MaxRange = x + t
        BY <4>1, RemainderOfSmall
      <4> QED
        BY <2>1, <4>2
    <3>2. CASE x + t >= MaxRange
      <4>1. x + t - MaxRange \in 0..(MaxRange - 1) /\ x + t = (MaxRange * 1) + (x + t - MaxRange)
        BY <3>2
      <4>2. (x + t) % MaxRange = x + t - MaxRange
        BY <4>1, RemainderIs
      <4> QED
        BY <2>1, <4>2
    <3> QED
      BY <3>1, <3>2
  <2> QED
    BY <1>2, <2>1, <2>2, <2>3
<1>4. CASE range = Wrap
  <2>1. e = (y - x) % MaxRange
    BY <1>4 DEF Delta, Wrap
  <2>2. (y - x) % MaxRange = t % MaxRange
    <3>1. PICK p \in Int : p = -x
      OBVIOUS
    <3>2. ((u % MaxRange) + p) % MaxRange = (u + p) % MaxRange
      BY RemainderAdds
    <3>3. y - x = (u % MaxRange) + p /\ u + p = t
      BY <1>1, <1>2, <3>1
    <3> QED
      BY <3>2, <3>3
  <2>3. t % MaxRange \in Nat /\ t % MaxRange <= t
    BY RemainderIsLess
  <2>4. t < MaxRange => t % MaxRange = t
    <3> SUFFICES ASSUME t < MaxRange PROVE t % MaxRange = t
      OBVIOUS
    <3>1. t \in 0..(MaxRange - 1)
      OBVIOUS
    <3> QED
      BY <3>1, RemainderOfSmall
  <2> QED
    BY <2>1, <2>2, <2>3, <2>4
<1> QED
  BY <1>3, <1>4

(* Whatever they are, it is a natural number.                              *)
LEMMA DeltaTyped ==
  ASSUME NEW x \in 0..(MaxRange - 1), NEW y \in 0..(MaxRange - 1),
         NEW range \in {{}, Wrap}, NEW e \in Delta(x, y, range)
  PROVE  e \in Nat
<1> USE MeterAssumption
<1>1. CASE range = {}
  BY <1>1 DEF Delta
<1>2. CASE range = Wrap
  <2>1. e = (y - x) % MaxRange
    BY <1>2 DEF Delta, Wrap
  <2>2. (y - x) % MaxRange \in 0..(MaxRange - 1)
    BY Divided
  <2> QED
    BY <2>1, <2>2
<1> QED
  BY <1>1, <1>2

(* A quotient, rounded down.                                               *)
LEMMA RoundedDown ==
  ASSUME NEW e \in Nat, NEW n \in Nat \ {0}
  PROVE  e \div n \in Nat /\ (e \div n) * n <= e
<1>1. PICK a \in Int, r \in 0..(n - 1) : e = (n * a) + r /\ a = e \div n
  BY DividedInto
<1>2. a >= 0
  <2> SUFFICES ASSUME a <= -1 PROVE FALSE
    BY <1>1
  <2>1. n * a <= n * (-1)
    OBVIOUS
  <2> QED
    BY <1>1, <2>1
<1> QED
  BY <1>1, <1>2

-----------------------------------------------------------------------------
(* A reading.                                                              *)
IsReading(r) ==
  /\ r.at \in Nat /\ r.total \in Nat /\ r.resets \in Nat /\ r.since \in Nat /\ r.low \in Nat
  /\ r.uj \subseteq 0..(MaxRange - 1) /\ \A x, y \in r.uj : x = y

(* What the package has drawn since a reading, and what the counter shows  *)
(* of it.                                                                  *)
Drawn(r) ==
  /\ r.at <= now /\ r.since < r.at /\ r.resets <= faults.resets
  /\ Idle * (r.at - r.since) <= r.total - r.low
  /\ Idle * (now - r.at) <= total - r.total /\ total - r.total <= Busy * (now - r.at)
  /\ r.resets = faults.resets => \A x \in r.uj : (x + (total - r.total)) % MaxRange = count

Metered ==
  /\ setup \in Setups /\ now \in 0..Horizon /\ count \in 0..(MaxRange - 1) /\ total \in Nat
  /\ faults \in [missing : Nat, resets : Nat]

Readings == \A r \in prev \cup d.cand \cup d.last : IsReading(r) /\ Drawn(r)

(* A second goes by.                                                       *)
Second(power) ==
  /\ power \in {Idle, Busy} /\ now < Horizon /\ now' = now + 1 /\ total' = total + power
  /\ count' = Advance(count, power) /\ faults'.resets = faults.resets

(* The powers of a second and what is drawn in it are natural numbers.     *)
LEMMA SecondTyped ==
  ASSUME Metered, NEW power, Second(power)
  PROVE  /\ now' \in 0..Horizon /\ count' \in 0..(MaxRange - 1) /\ total' \in Nat /\ power \in Nat
         /\ Idle <= power /\ power <= Busy
<1>1. power \in Nat /\ Idle <= power /\ power <= Busy /\ Horizon \in Nat
  BY BoundsAssumption DEF Second
<1>2. count' = (count + power) % MaxRange /\ count + power \in Int
  BY <1>1 DEF Second, Advance, Metered
<1>3. (count + power) % MaxRange \in 0..(MaxRange - 1)
  BY <1>2, Divided, MeterAssumption
<1> QED
  BY <1>1, <1>2, <1>3 DEF Second, Metered

(* What was known of a reading is still known a second later.              *)
LEMMA DrawnAdvances ==
  ASSUME Metered, NEW power, Second(power), NEW r, IsReading(r), Drawn(r)
  PROVE  Drawn(r)'
<1>1. power \in Nat /\ Idle <= power /\ power <= Busy /\ Idle \in Nat /\ Busy \in Nat
  BY SecondTyped, BoundsAssumption
<1>2. /\ now \in Nat /\ total \in Nat /\ faults.resets \in Nat
      /\ now' = now + 1 /\ total' = total + power /\ faults'.resets = faults.resets
      /\ r.at \in Nat /\ r.total \in Nat
  BY DEF Metered, Second, IsReading
<1>3. Idle * (now' - r.at) <= total' - r.total /\ total' - r.total <= Busy * (now' - r.at)
  <2>1. PICK x \in Int, y \in Int : x = now - r.at /\ y = total - r.total
    BY <1>2
  <2>2. Idle * x <= y /\ y <= Busy * x
    BY <2>1 DEF Drawn
  <2>3. now' - r.at = x + 1 /\ total' - r.total = y + power
    BY <1>1, <1>2, <2>1
  <2>4. Idle * (x + 1) = Idle * x + Idle /\ Busy * (x + 1) = Busy * x + Busy
    BY <1>1, OneMore
  <2>5. PICK i \in Int, b \in Int : i = Idle * x /\ b = Busy * x
    BY <1>1
  <2> QED
    BY <1>1, <2>2, <2>3, <2>4, <2>5
<1>4. ASSUME r.resets = faults.resets, NEW x \in r.uj
      PROVE  (x + (total' - r.total)) % MaxRange = count'
  <2>1. x \in Int /\ (x + (total - r.total)) % MaxRange = count
    BY <1>4 DEF Drawn, IsReading
  <2>2. PICK u \in Int : u = x + (total - r.total)
    BY <1>2, <2>1
  <2>3. ((u % MaxRange) + power) % MaxRange = (u + power) % MaxRange
    <3>1. power \in Int /\ MaxRange \in Nat \ {0}
      BY <1>1, MeterAssumption
    <3> QED
      BY <3>1, RemainderAdds
  <2>4. count' = (count + power) % MaxRange
    BY DEF Second, Advance
  <2>5. x + (total' - r.total) = u + power
    BY <1>1, <1>2, <2>1, <2>2
  <2> QED
    BY <2>1, <2>2, <2>3, <2>4, <2>5
<1> QED
  BY <1>2, <1>3, <1>4 DEF Drawn

-----------------------------------------------------------------------------
(* A range, of the service or the backend, is unknown or that of the       *)
(* counter.                                                                *)
LEMMA RangesAre == ASSUME Metered PROVE setup.backend.range \in {{}, Wrap} /\ setup.range \in {{}, Wrap}
                                     /\ (setup.backend.scripted => setup.range = {})
<1>1. setup.backend \in Backends /\ setup.range \in {{}, Wrap} /\ (setup.backend.scripted => setup.range = {})
  BY SetupsAssumption DEF Metered
<1>2. PICK counters \in {<<>>, <<Wrap>>, <<{}>>}, answers \in BOOLEAN : setup.backend = Backend(counters, answers)
  BY <1>1 DEF Backends
<1>3. setup.backend.range = Head(counters) \/ setup.backend.range = Wrap
  BY <1>2 DEF Backend
<1>4. counters = <<>> => setup.backend.range = Wrap
  BY <1>2 DEF Backend
<1>5. counters = <<Wrap>> => Head(counters) = Wrap
  OBVIOUS
<1>6. counters = <<{}>> => Head(counters) = {}
  OBVIOUS
<1> QED
  BY <1>1, <1>2, <1>3, <1>4, <1>5, <1>6

(* A sample reads the counter, or not, and has a power if it is told one   *)
(* or there is a reading before it.                                        *)
Derived(q, r, p) ==
  \E x \in q.uj : \E e \in Delta(x, count', setup.backend.range) : p = e \div (r.at - q.at)

Sampled(power, r, p) ==
  /\ Second(power) /\ faults' \in [missing : Nat, resets : Nat] /\ setup' = setup /\ rec = "none"
  /\ IsReading(r) /\ r.at = now + 1 /\ r.total = total + power /\ r.resets = faults.resets
  /\ \/ r.uj = {} /\ prev' = prev
     \/ r.uj = {count'} /\ prev' = {r}
  /\ \/ prev = {} /\ r.since = now /\ r.low = total
     \/ \E q \in prev : r.since = q.at /\ r.low = q.total
  /\ p \in Nat \cup {NoPower}
  /\ p # NoPower => \/ setup.backend.scripted /\ p = power
                    \/ /\ ~setup.backend.scripted /\ r.uj = {count'} /\ prev' = {r}
                       /\ \E q \in prev : r.since = q.at /\ r.low = q.total /\ Derived(q, r, p)
  /\ d.state # "stopped" /\ d' = Observe(d, p, r) /\ OnIdle(Closes(d, p, r))

(* A sample is one of these, told or read.                                 *)
LEMMA SampleIs ==
  ASSUME Metered, Readings, \A x, y \in prev : x = y, Sample
  PROVE  \E power, r, p : Sampled(power, r, p)
<1> DEFINE Uj(power, ok) == IF ok THEN {Advance(count, power)} ELSE {}
           R(power, ok) == [at |-> now + 1, uj |-> Uj(power, ok), total |-> total + power, resets |-> faults.resets,
                 since |-> IF prev = {} THEN now ELSE Only(prev).at,
                 low |-> IF prev = {} THEN total ELSE Only(prev).total]
           Watts(power, ok) == UNION {Power(q.uj, Uj(power, ok), setup.backend.range, R(power, ok).at - q.at) : q \in prev}
           P(power, ok) == IF setup.backend.scripted THEN power
                           ELSE IF Watts(power, ok) = {} THEN NoPower ELSE Only(Watts(power, ok))
<1>1. PICK power \in {Idle, Busy}, ok \in BOOLEAN :
        /\ faults' = IF ok THEN faults ELSE [faults EXCEPT !.missing = @ + 1]
        /\ now' = now + 1 /\ total' = total + power /\ count' = Advance(count, power)
        /\ prev' = IF ok THEN {R(power, ok)} ELSE prev
        /\ d' = Observe(d, P(power, ok), R(power, ok))
        /\ OnIdle(Closes(d, P(power, ok), R(power, ok)))
  BY Zenon DEF Sample
<1>2. now < Horizon /\ rec = "none" /\ d.state # "stopped" /\ setup' = setup
  BY DEF Sample
<1>3. PICK uj : uj = Uj(power, ok)
  OBVIOUS
<1>4. PICK r : r = R(power, ok)
  OBVIOUS
<1>5. PICK watts : watts = Watts(power, ok)
  OBVIOUS
<1>6. PICK p : p = P(power, ok)
  OBVIOUS
<1>7. r = [at |-> now + 1, uj |-> uj, total |-> total + power, resets |-> faults.resets,
           since |-> IF prev = {} THEN now ELSE Only(prev).at,
           low |-> IF prev = {} THEN total ELSE Only(prev).total]
  BY <1>3, <1>4
<1>8. p = IF setup.backend.scripted THEN power ELSE IF watts = {} THEN NoPower ELSE Only(watts)
  BY <1>5, <1>6
<1>9. watts = UNION {Power(q.uj, uj, setup.backend.range, r.at - q.at) : q \in prev}
  BY <1>3, <1>4, <1>5
<1>10. d' = Observe(d, p, r) /\ OnIdle(Closes(d, p, r)) /\ prev' = IF ok THEN {r} ELSE prev
  BY <1>1, <1>4, <1>6
<1>11. uj = IF ok THEN {count'} ELSE {}
  BY <1>1, <1>3
<1> HIDE DEF Uj, R, Watts, P
<1>12. faults' \in [missing : Nat, resets : Nat] /\ faults'.resets = faults.resets
  BY <1>1 DEF Metered
<1>13. Second(power)
  BY <1>1, <1>2, <1>12 DEF Second
<1>14. count' \in 0..(MaxRange - 1) /\ power \in Nat
  BY <1>13, SecondTyped
<1>15. /\ now \in Nat /\ total \in Nat /\ faults.resets \in Nat
       /\ \A q \in prev : IsReading(q) /\ q.at \in Nat /\ q.at <= now /\ q.total \in Nat
  BY DEF Metered, Readings, IsReading, Drawn
<1>16. prev # {} => \E q \in prev : Only(prev) = q
  BY DEF Only
<1>17. \/ prev = {} /\ r.since = now /\ r.low = total
       \/ \E q \in prev : prev = {q} /\ r.since = q.at /\ r.low = q.total
  <2>1. CASE prev = {}
    BY <1>7, <2>1
  <2>2. CASE prev # {}
    <3>1. PICK q \in prev : Only(prev) = q
      BY <1>16, <2>2
    <3>2. prev = {q}
      OBVIOUS
    <3> QED
      BY <1>7, <2>2, <3>1, <3>2
  <2> QED
    BY <2>1, <2>2
<1>18. /\ r.at = now + 1 /\ r.total = total + power /\ r.resets = faults.resets /\ r.uj = uj
  BY <1>7
<1>19. IsReading(r)
  <2>1. r.since \in Nat /\ r.low \in Nat
    BY <1>15, <1>17
  <2>2. r.uj \subseteq 0..(MaxRange - 1) /\ \A x, y \in r.uj : x = y
    BY <1>11, <1>14, <1>18
  <2> QED
    BY <1>14, <1>15, <1>18, <2>1, <2>2 DEF IsReading
<1>20. \/ r.uj = {} /\ prev' = prev
       \/ r.uj = {count'} /\ prev' = {r}
  BY <1>10, <1>11, <1>18
<1>21. \A w \in watts : /\ w \in Nat /\ r.uj = {count'} /\ prev' = {r}
                        /\ \E q \in prev : r.since = q.at /\ r.low = q.total /\ Derived(q, r, w)
  <2> SUFFICES ASSUME NEW w \in watts
               PROVE  /\ w \in Nat /\ r.uj = {count'} /\ prev' = {r}
                      /\ \E q \in prev : r.since = q.at /\ r.low = q.total /\ Derived(q, r, w)
    OBVIOUS
  <2>1. PICK q \in prev : w \in Power(q.uj, uj, setup.backend.range, r.at - q.at)
    BY <1>9
  <2>2. PICK x \in q.uj, y \in uj : \E e \in Delta(x, y, setup.backend.range) : w = e \div (r.at - q.at)
    BY <2>1 DEF Power
  <2>3. y = count' /\ r.uj = {count'} /\ prev' = {r}
    BY <1>11, <1>18, <1>10
  <2>4. PICK e \in Delta(x, count', setup.backend.range) : w = e \div (r.at - q.at)
    BY <2>2, <2>3
  <2>5. x \in 0..(MaxRange - 1) /\ r.at - q.at \in Nat \ {0}
    BY <1>15, <1>18 DEF IsReading
  <2>6. e \in Nat
    BY <1>14, <2>5, RangesAre, DeltaTyped
  <2>7. PICK n \in Nat \ {0} : n = r.at - q.at
    BY <2>5
  <2>8. w \in Nat
    BY <2>4, <2>6, <2>7, RoundedDown
  <2>9. r.since = q.at /\ r.low = q.total
    BY <1>17
  <2> QED
    BY <2>3, <2>4, <2>8, <2>9 DEF Derived
<1>22. \/ p = NoPower
       \/ setup.backend.scripted /\ p = power
       \/ ~setup.backend.scripted /\ p \in watts
  <2>1. watts # {} => Only(watts) \in watts
    BY DEF Only
  <2> QED
    BY <1>8, <2>1
<1>23. p \in Nat \cup {NoPower}
  BY <1>14, <1>21, <1>22
<1>24. p # NoPower => \/ setup.backend.scripted /\ p = power
                      \/ /\ ~setup.backend.scripted /\ r.uj = {count'} /\ prev' = {r}
                         /\ \E q \in prev : r.since = q.at /\ r.low = q.total /\ Derived(q, r, p)
  BY <1>21, <1>22
<1>25. Sampled(power, r, p)
  BY <1>2, <1>10, <1>12, <1>13, <1>17, <1>18, <1>19, <1>20, <1>23, <1>24 DEF Sampled
<1> QED
  BY <1>25

(* The new reading, and the others.                                        *)
LEMMA ReadingsAdvance ==
  ASSUME Metered, Readings, NEW power, NEW r, NEW p, Sampled(power, r, p)
  PROVE  /\ Metered' /\ Drawn(r)'
         /\ \A q \in prev \cup d.cand \cup d.last : Drawn(q)'
<1>1. Second(power) /\ IsReading(r)
  BY DEF Sampled
<1>2. \A q \in prev \cup d.cand \cup d.last : Drawn(q)'
  <2> SUFFICES ASSUME NEW q \in prev \cup d.cand \cup d.last PROVE Drawn(q)'
    OBVIOUS
  <2> QED
    BY <1>1, DrawnAdvances DEF Readings
<1>3. /\ now' \in 0..Horizon /\ count' \in 0..(MaxRange - 1) /\ total' \in Nat /\ power \in Nat
      /\ Idle <= power /\ power <= Busy /\ Idle \in Nat /\ Busy \in Nat
  BY <1>1, SecondTyped, BoundsAssumption
<1>4. Metered'
  BY <1>3 DEF Metered, Sampled
<1>5. /\ now \in Nat /\ total \in Nat /\ faults'.resets = faults.resets /\ faults.resets \in Nat
      /\ now' = now + 1 /\ total' = total + power
      /\ r.at = now + 1 /\ r.total = total + power /\ r.resets = faults.resets
      /\ r.since \in Nat /\ r.low \in Nat /\ r.at \in Nat /\ r.total \in Nat
  BY <1>1 DEF Metered, Sampled, Second, IsReading
<1>6. r.since < r.at /\ Idle * (r.at - r.since) <= r.total - r.low
  <2>1. CASE prev = {} /\ r.since = now /\ r.low = total
    <3>1. r.at - r.since = 1 /\ r.total - r.low = power
      BY <1>3, <1>5, <2>1
    <3>2. Idle * 1 = Idle
      BY <1>3
    <3> QED
      BY <1>3, <1>5, <2>1, <3>1, <3>2
  <2>2. ASSUME NEW q \in prev, r.since = q.at, r.low = q.total
        PROVE  r.since < r.at /\ Idle * (r.at - r.since) <= r.total - r.low
    <3>1. q.at <= now /\ Idle * (now - q.at) <= total - q.total
      BY DEF Readings, Drawn
    <3>2. PICK x \in Int, y \in Int : x = now - q.at /\ y = total - q.total
      BY <1>5, <2>2
    <3>3. r.at - r.since = x + 1 /\ r.total - r.low = y + power
      BY <1>3, <1>5, <2>2, <3>2
    <3>4. Idle * (x + 1) = Idle * x + Idle
      BY <1>3, OneMore
    <3>5. PICK i \in Int : i = Idle * x
      BY <1>3
    <3>6. Idle * (r.at - r.since) <= r.total - r.low
      BY <1>3, <3>1, <3>2, <3>3, <3>4, <3>5
    <3> QED
      BY <1>5, <2>2, <3>1, <3>6
  <2> QED
    BY <2>1, <2>2 DEF Sampled
<1>7. r.resets = faults'.resets => \A x \in r.uj : (x + (total' - r.total)) % MaxRange = count'
  <2> SUFFICES ASSUME NEW x \in r.uj PROVE (x + (total' - r.total)) % MaxRange = count'
    OBVIOUS
  <2>1. x = count'
    BY DEF Sampled
  <2>4. total' - r.total = 0
    BY <1>3, <1>5
  <2>5. count' \in Int
    BY <1>3, MeterAssumption
  <2>2. x + (total' - r.total) = count'
    BY <2>1, <2>4, <2>5
  <2>3. count' % MaxRange = count'
    BY <1>3, RemainderOfSmall, MeterAssumption
  <2> QED
    BY <2>2, <2>3
<1>8. Idle * (now' - r.at) <= total' - r.total /\ total' - r.total <= Busy * (now' - r.at)
  <2>1. now' - r.at = 0 /\ total' - r.total = 0 /\ Idle * 0 = 0 /\ Busy * 0 = 0
    BY <1>3, <1>5
  <2> QED
    BY <2>1
<1>9. Drawn(r)'
  BY <1>5, <1>6, <1>7, <1>8 DEF Drawn
<1> QED
  BY <1>2, <1>4, <1>9

-----------------------------------------------------------------------------
(* A sequence, of whatever.                                                *)
IsSeq(s) ==
  /\ Len(s) \in Nat /\ DOMAIN s = 1..Len(s)
  /\ s \in Seq({s[i] : i \in 1..Len(s)})

(* An append adds one place and keeps the others.                          *)
LEMMA Appended ==
  ASSUME NEW s, IsSeq(s), NEW x
  PROVE  /\ IsSeq(Append(s, x)) /\ Len(Append(s, x)) = Len(s) + 1
         /\ \A i \in 1..Len(s) : Append(s, x)[i] = s[i]
         /\ Append(s, x)[Len(s) + 1] = x
<1> DEFINE S == {s[i] : i \in 1..Len(s)} \cup {x}
           t == Append(s, x)
<1>1. s \in Seq(S)
  BY DEF IsSeq
<1>2. t \in Seq(S) /\ Len(t) = Len(s) + 1 /\ t[Len(s) + 1] = x
      /\ \A i \in 1..Len(s) : t[i] = s[i]
  BY <1>1
<1>3. Len(t) \in Nat /\ DOMAIN t = 1..Len(t) /\ \A i \in 1..Len(t) : t[i] \in {t[j] : j \in 1..Len(t)}
  BY <1>2
<1>4. t \in Seq({t[i] : i \in 1..Len(t)})
  BY <1>2, <1>3
<1> QED
  BY <1>2, <1>3, <1>4 DEF IsSeq

-----------------------------------------------------------------------------
(* The inductive invariant: a receipt on its way to the ledger has been    *)
(* consented to and is newer than all that are in it, and while one        *)
(* request seeds, only its own entries are there.                          *)
Typed ==
  /\ IsSeq(segments) /\ IsSeq(ledger) /\ opted \in BOOLEAN
  /\ rec \in {"none", "check", "insert", "after"}
  /\ pc \in [Handlers -> 0..Count]

Recording ==
  /\ rec = "insert" => Len(segments) \in consent
  /\ (rec = "check" /\ opted) => Len(segments) \in consent

Entered ==
  \A i \in DOMAIN ledger : ledger[i].kind = "watch" =>
    /\ ledger[i].n \in 0..Len(segments) /\ ledger[i].n \in consent
    /\ rec \in {"check", "insert"} => ledger[i].n < Len(segments)

Ordered ==
  \A i, j \in DOMAIN ledger :
    (j < i /\ ledger[i].kind = "watch" /\ ledger[j].kind = "watch") => ledger[j].n < ledger[i].n

Seeding ==
  ~crossed => \A h \in Handlers : pc[h] \in 1..DemoEntries =>
    \A i \in DOMAIN ledger : ledger[i].kind = "demo" /\ ledger[i].n \in Nat /\ ledger[i].n < pc[h]

LedgerInv == Typed /\ Recording /\ Entered /\ Ordered /\ Seeding /\ DemoOnce

(* It says what the run checks.                                            *)
LEMMA LedgerInvIsEnough == LedgerInv => LedgerIsConsented
<1> SUFFICES ASSUME LedgerInv PROVE ConsentedInOrder /\ DemoOnce
  BY DEF LedgerIsConsented
<1> QED
  BY DEF LedgerInv, Entered, Ordered, ConsentedInOrder

(* It holds at the start.                                                  *)
LEMMA LedgerInit == Init => LedgerInv
<1> SUFFICES ASSUME Init PROVE LedgerInv
  OBVIOUS
<1>1. IsSeq(<<>>) /\ DOMAIN <<>> = {}
  BY DEF IsSeq
<1>2. 0 \in 0..Count
  BY DEF Count, DemoEntries
<1> QED
  BY <1>1, <1>2 DEF Init, LedgerInv, Typed, Recording, Entered, Ordered, Seeding, DemoOnce

(* A sample may end a burst, whose receipt is then newer than any other.   *)
LEMMA SampleKeeps == LedgerInv /\ Sample => LedgerInv'
<1> SUFFICES ASSUME LedgerInv, Sample PROVE LedgerInv'
  OBVIOUS
<1> USE DEF LedgerInv
<1>1. rec = "none" /\ UNCHANGED <<opted, ledger, pc, crossed>>
  BY DEF Sample
<1>0. \E ended : OnIdle(ended)
  BY ZenonT(30) DEF Sample
<1>2. \/ segments' = segments /\ rec' = "none" /\ consent' = consent
      \/ /\ segments' = Append(segments, Segment(d))
         /\ \/ rec' = "none" /\ consent' = consent
            \/ rec' = "check" /\ opted /\ consent' = consent \cup {Len(segments) + 1}
            \/ rec' = "check" /\ ~opted /\ consent' = consent
  <2>1. PICK ended : OnIdle(ended)
    BY <1>0
  <2> QED
    BY <2>1 DEF OnIdle
<1>3. /\ IsSeq(segments') /\ Len(segments) \in Nat
      /\ \/ segments' = segments
         \/ Len(segments') = Len(segments) + 1
  <2>1. IsSeq(segments)
    BY DEF Typed
  <2>2. IsSeq(Append(segments, Segment(d))) /\ Len(Append(segments, Segment(d))) = Len(segments) + 1
    BY <2>1, Appended
  <2> QED
    BY <1>2, <2>1, <2>2 DEF IsSeq
<1>4. Typed'
  BY <1>1, <1>2, <1>3 DEF Typed
<1>5. Recording'
  BY <1>1, <1>2, <1>3 DEF Recording
<1>6. Entered'
  <2> SUFFICES ASSUME NEW i \in DOMAIN ledger, ledger[i].kind = "watch"
               PROVE  /\ ledger[i].n \in 0..Len(segments') /\ ledger[i].n \in consent'
                      /\ rec' \in {"check", "insert"} => ledger[i].n < Len(segments')
    BY <1>1 DEF Entered
  <2>1. ledger[i].n \in 0..Len(segments) /\ ledger[i].n \in consent
    BY DEF Entered
  <2> QED
    BY <1>2, <1>3, <2>1
<1>7. Ordered' /\ Seeding' /\ DemoOnce'
  BY <1>1 DEF Ordered, Seeding, DemoOnce
<1> QED
  BY <1>4, <1>5, <1>6, <1>7

(* The receipt goes behind the others.                                     *)
LEMMA InsertKeeps == LedgerInv /\ Insert => LedgerInv'
<1> SUFFICES ASSUME LedgerInv, Insert PROVE LedgerInv'
  OBVIOUS
<1> USE DEF LedgerInv
<1> DEFINE r == Receipt(Len(segments))
<1>1. /\ rec = "insert" /\ rec' = "after" /\ ledger' = Append(ledger, r)
      /\ UNCHANGED <<segments, opted, pc, consent>>
      /\ ~crossed' => ~crossed /\ \A h \in Handlers : pc[h] = 0
  BY DEF Insert
<1>2. r.kind = "watch" /\ r.n = Len(segments)
  BY DEF Receipt
<1>3. Len(segments) \in consent /\ Len(segments) \in Nat /\ Len(ledger) \in Nat
      /\ DOMAIN ledger = 1..Len(ledger)
  BY <1>1 DEF Recording, Typed, IsSeq
<1> HIDE DEF r
<1>4. /\ IsSeq(ledger') /\ DOMAIN ledger' = 1..(Len(ledger) + 1)
      /\ \A i \in DOMAIN ledger : ledger'[i] = ledger[i]
      /\ ledger'[Len(ledger) + 1] = r
  <2>1. IsSeq(ledger)
    BY DEF Typed
  <2>2. /\ IsSeq(ledger') /\ Len(ledger') = Len(ledger) + 1
        /\ \A i \in 1..Len(ledger) : ledger'[i] = ledger[i]
        /\ ledger'[Len(ledger) + 1] = r
    BY <1>1, <2>1, Appended
  <2> QED
    BY <1>3, <2>2 DEF IsSeq
<1>5. \A i \in DOMAIN ledger' : i \in DOMAIN ledger \/ i = Len(ledger) + 1
  BY <1>3, <1>4
<1>6. \A i \in DOMAIN ledger : ledger[i].kind = "watch" =>
        ledger[i].n \in 0..Len(segments) /\ ledger[i].n \in consent /\ ledger[i].n < Len(segments)
  BY <1>1 DEF Entered
<1>7. Typed' /\ Recording'
  BY <1>1, <1>4 DEF Typed, Recording
<1>8. Entered'
  <2> SUFFICES ASSUME NEW i \in DOMAIN ledger', ledger'[i].kind = "watch"
               PROVE  ledger'[i].n \in 0..Len(segments) /\ ledger'[i].n \in consent
    BY <1>1 DEF Entered
  <2>1. CASE i \in DOMAIN ledger
    BY <1>4, <1>6, <2>1
  <2>2. CASE i = Len(ledger) + 1
    BY <1>2, <1>3, <1>4, <2>2
  <2> QED
    BY <1>5, <2>1, <2>2
<1>9. Ordered'
  <2> SUFFICES ASSUME NEW i \in DOMAIN ledger', NEW j \in DOMAIN ledger', j < i,
                      ledger'[i].kind = "watch", ledger'[j].kind = "watch"
               PROVE  ledger'[j].n < ledger'[i].n
    BY DEF Ordered
  <2>1. j \in DOMAIN ledger
    BY <1>3, <1>4
  <2>2. CASE i \in DOMAIN ledger
    BY <1>4, <2>1, <2>2 DEF Ordered
  <2>3. CASE i = Len(ledger) + 1
    BY <1>2, <1>4, <1>6, <2>1, <2>3
  <2> QED
    BY <1>5, <2>2, <2>3
<1>10. Seeding'
  BY <1>1 DEF Seeding, DemoEntries
<1>11. DemoOnce'
  <2> SUFFICES ASSUME ~crossed', NEW i \in DOMAIN ledger', NEW j \in DOMAIN ledger', i < j,
                      ledger'[j].kind = "demo"
               PROVE  ledger'[i].kind = "demo" /\ ledger'[i].n < ledger'[j].n
    BY DEF DemoOnce
  <2>1. j \in DOMAIN ledger
    BY <1>2, <1>4, <1>5
  <2>2. i \in DOMAIN ledger
    BY <1>3, <1>4, <2>1
  <2> QED
    BY <1>1, <1>4, <2>1, <2>2 DEF DemoOnce
<1> QED
  BY <1>7, <1>8, <1>9, <1>10, <1>11

(* The preference is asked before the receipt is put.                      *)
LEMMA CheckOptInKeeps == LedgerInv /\ CheckOptIn => LedgerInv'
<1> SUFFICES ASSUME LedgerInv, CheckOptIn PROVE LedgerInv'
  OBVIOUS
<1> USE DEF LedgerInv
<1>1. /\ rec = "check" /\ UNCHANGED <<segments, opted, ledger, pc, consent, crossed>>
      /\ \/ opted /\ rec' = "insert"
         \/ ~opted /\ rec' = "after"
  BY DEF CheckOptIn
<1>2. Typed' /\ Recording'
  BY <1>1 DEF Typed, Recording
<1>3. Entered'
  BY <1>1 DEF Entered
<1>4. Ordered' /\ Seeding' /\ DemoOnce'
  BY <1>1 DEF Ordered, Seeding, DemoOnce
<1> QED
  BY <1>2, <1>3, <1>4

(* Nothing is being recorded after it has been.                            *)
LEMMA AfterKeeps == LedgerInv /\ After => LedgerInv'
<1> SUFFICES ASSUME LedgerInv, After PROVE LedgerInv'
  OBVIOUS
<1> USE DEF LedgerInv
<1>1. rec' = "none" /\ UNCHANGED <<segments, opted, ledger, pc, consent, crossed>>
  BY DEF After
<1>2. Typed' /\ Recording'
  BY <1>1 DEF Typed, Recording
<1>3. Entered'
  BY <1>1 DEF Entered
<1>4. Ordered' /\ Seeding' /\ DemoOnce'
  BY <1>1 DEF Ordered, Seeding, DemoOnce
<1> QED
  BY <1>2, <1>3, <1>4

(* Steps that leave the ledger and what is being recorded alone: of the    *)
(* counter, and of nothing at all.                                         *)
LEMMA RestKeeps ==
  LedgerInv /\ UNCHANGED <<service, opted, ledger, pc, consent, crossed>> => LedgerInv'
<1> SUFFICES ASSUME LedgerInv, UNCHANGED <<service, opted, ledger, pc, consent, crossed>>
             PROVE  LedgerInv'
  OBVIOUS
<1>1. UNCHANGED <<segments, rec, opted, ledger, pc, consent, crossed>>
  BY DEF service
<1> QED
  BY <1>1 DEF LedgerInv, Typed, Recording, Entered, Ordered, Seeding, DemoOnce

(* Who opts in while a receipt is being recorded consents to it.           *)
LEMMA OptInKeeps == ASSUME NEW h \in Handlers PROVE LedgerInv /\ OptIn(h) => LedgerInv'
<1> SUFFICES ASSUME LedgerInv, OptIn(h) PROVE LedgerInv'
  OBVIOUS
<1> USE DEF LedgerInv
<1>1. /\ opted' = TRUE /\ UNCHANGED <<segments, rec, ledger, crossed>>
      /\ consent' = IF rec = "check" THEN consent \cup {Len(segments)} ELSE consent
      /\ pc[h] = 0 /\ \E seed \in BOOLEAN : pc' = [pc EXCEPT ![h] = IF seed THEN Count ELSE 0]
  BY DEF OptIn, unmeasured, service
<1>2. pc' \in [Handlers -> 0..Count] /\ \A g \in Handlers : pc'[g] \in 1..DemoEntries => pc'[g] = pc[g]
  BY <1>1 DEF Typed, Count, DemoEntries
<1>3. Typed' /\ Recording'
  BY <1>1, <1>2 DEF Typed, Recording
<1>4. Entered'
  BY <1>1 DEF Entered
<1>5. Seeding'
  BY <1>1, <1>2 DEF Seeding
<1>6. Ordered' /\ DemoOnce'
  BY <1>1 DEF Ordered, DemoOnce
<1> QED
  BY <1>3, <1>4, <1>5, <1>6

(* A receipt that is about to be put stays one that was consented to.      *)
LEMMA OptOutKeeps == ASSUME NEW h \in Handlers PROVE LedgerInv /\ OptOut(h) => LedgerInv'
<1> SUFFICES ASSUME LedgerInv, OptOut(h) PROVE LedgerInv'
  OBVIOUS
<1>1. opted' = FALSE /\ UNCHANGED <<segments, rec, ledger, pc, consent, crossed>>
  BY DEF OptOut, unmeasured, service
<1> QED
  BY <1>1 DEF LedgerInv, Typed, Recording, Entered, Ordered, Seeding, DemoOnce

(* Only an empty ledger is seeded.                                         *)
LEMMA CountLedgerKeeps == ASSUME NEW h \in Handlers PROVE LedgerInv /\ CountLedger(h) => LedgerInv'
<1> SUFFICES ASSUME LedgerInv, CountLedger(h) PROVE LedgerInv'
  OBVIOUS
<1> USE DEF LedgerInv
<1>1. /\ pc' = [pc EXCEPT ![h] = IF ledger = <<>> THEN 1 ELSE 0]
      /\ UNCHANGED <<segments, rec, opted, ledger, consent, crossed>>
  BY DEF CountLedger, unmeasured, service
<1>2. /\ pc' \in [Handlers -> 0..Count]
      /\ \A g \in Handlers : pc'[g] \in 1..DemoEntries => pc'[g] = pc[g] \/ ledger = <<>>
  BY <1>1 DEF Typed, Count, DemoEntries
<1>3. Typed' /\ Recording'
  BY <1>1, <1>2 DEF Typed, Recording
<1>4. Seeding'
  <2> SUFFICES ASSUME ~crossed, NEW g \in Handlers, pc'[g] \in 1..DemoEntries, NEW i \in DOMAIN ledger
               PROVE  ledger[i].kind = "demo" /\ ledger[i].n \in Nat /\ ledger[i].n < pc'[g]
    BY <1>1 DEF Seeding
  <2>1. ledger # <<>>
    OBVIOUS
  <2> QED
    BY <1>2, <2>1 DEF Seeding
<1>5. Entered' /\ Ordered' /\ DemoOnce'
  BY <1>1 DEF Entered, Ordered, DemoOnce
<1> QED
  BY <1>3, <1>4, <1>5

(* A cleared ledger has nothing to answer for.                             *)
LEMMA ClearKeeps == ASSUME NEW h \in Handlers PROVE LedgerInv /\ Clear(h) => LedgerInv'
<1> SUFFICES ASSUME LedgerInv, Clear(h) PROVE LedgerInv'
  OBVIOUS
<1>1. ledger' = <<>> /\ UNCHANGED <<segments, rec, opted, pc, consent, crossed>>
  BY DEF Clear, unmeasured, service
<1>2. IsSeq(<<>>) /\ DOMAIN <<>> = {}
  BY DEF IsSeq
<1> QED
  BY <1>1, <1>2 DEF LedgerInv, Typed, Recording, Entered, Ordered, Seeding, DemoOnce

(* A demo entry goes behind those that its own request has put.            *)
LEMMA SeedDemoKeeps == ASSUME NEW h \in Handlers PROVE LedgerInv /\ SeedDemo(h) => LedgerInv'
<1> SUFFICES ASSUME LedgerInv, SeedDemo(h) PROVE LedgerInv'
  OBVIOUS
<1> USE DEF LedgerInv
<1> DEFINE e == Demo(pc[h])
<1>1. /\ pc[h] \in 1..DemoEntries
      /\ pc' = [pc EXCEPT ![h] = IF @ = DemoEntries THEN 0 ELSE @ + 1]
      /\ ledger' = Append(ledger, e) /\ UNCHANGED <<segments, rec, opted, consent>>
      /\ ~crossed' => ~crossed /\ \A g \in Handlers \ {h} : pc[g] = 0
  BY DEF SeedDemo, unmeasured, service
<1>2. e.kind = "demo" /\ e.n = pc[h]
  BY DEF Demo
<1>3. Len(ledger) \in Nat /\ DOMAIN ledger = 1..Len(ledger) /\ pc \in [Handlers -> 0..Count]
  BY DEF Typed, IsSeq
<1> HIDE DEF e
<1>4. /\ IsSeq(ledger') /\ DOMAIN ledger' = 1..(Len(ledger) + 1)
      /\ \A i \in DOMAIN ledger : ledger'[i] = ledger[i]
      /\ ledger'[Len(ledger) + 1] = e
  <2>1. IsSeq(ledger)
    BY DEF Typed
  <2>2. /\ IsSeq(ledger') /\ Len(ledger') = Len(ledger) + 1
        /\ \A i \in 1..Len(ledger) : ledger'[i] = ledger[i]
        /\ ledger'[Len(ledger) + 1] = e
    BY <1>1, <2>1, Appended
  <2> QED
    BY <1>3, <2>2 DEF IsSeq
<1>5. \A i \in DOMAIN ledger' : i \in DOMAIN ledger \/ i = Len(ledger) + 1
  BY <1>3, <1>4
<1>6. \A i \in DOMAIN ledger' : ledger'[i].kind = "watch" => i \in DOMAIN ledger
  BY <1>2, <1>4, <1>5
<1>7. pc' \in [Handlers -> 0..Count]
  BY <1>1, <1>3 DEF Count, DemoEntries
<1>8. Typed' /\ Recording'
  BY <1>1, <1>4, <1>7 DEF Typed, Recording
<1>9. Entered'
  BY <1>1, <1>4, <1>6 DEF Entered
<1>10. Ordered'
  BY <1>4, <1>6 DEF Ordered
<1>11. ~crossed' => \A i \in DOMAIN ledger :
         ledger[i].kind = "demo" /\ ledger[i].n \in Nat /\ ledger[i].n < pc[h]
  BY <1>1 DEF Seeding
<1>12. Seeding'
  <2> SUFFICES ASSUME ~crossed', NEW g \in Handlers, pc'[g] \in 1..DemoEntries, NEW i \in DOMAIN ledger'
               PROVE  ledger'[i].kind = "demo" /\ ledger'[i].n \in Nat /\ ledger'[i].n < pc'[g]
    BY DEF Seeding
  <2>1. g = h /\ pc'[h] = pc[h] + 1
    BY <1>1, <1>3 DEF DemoEntries
  <2>2. CASE i \in DOMAIN ledger
    BY <1>1, <1>4, <1>11, <2>1, <2>2
  <2>3. CASE i = Len(ledger) + 1
    BY <1>1, <1>2, <1>4, <2>1, <2>3
  <2> QED
    BY <1>5, <2>2, <2>3
<1>13. DemoOnce'
  <2> SUFFICES ASSUME ~crossed', NEW i \in DOMAIN ledger', NEW j \in DOMAIN ledger', i < j,
                      ledger'[j].kind = "demo"
               PROVE  ledger'[i].kind = "demo" /\ ledger'[i].n < ledger'[j].n
    BY DEF DemoOnce
  <2>1. i \in DOMAIN ledger
    BY <1>3, <1>4
  <2>2. CASE j \in DOMAIN ledger
    BY <1>1, <1>4, <2>1, <2>2 DEF DemoOnce
  <2>3. CASE j = Len(ledger) + 1
    BY <1>2, <1>4, <1>11, <2>1, <2>3
  <2> QED
    BY <1>5, <2>2, <2>3
<1> QED
  BY <1>8, <1>9, <1>10, <1>12, <1>13

(* Every step keeps it.                                                    *)
LEMMA LedgerStep == LedgerInv /\ [Next]_vars => LedgerInv'
<1> SUFFICES ASSUME LedgerInv, [Next]_vars PROVE LedgerInv'
  OBVIOUS
<1>1. CASE Sample
  BY <1>1, SampleKeeps
<1>2. CASE Reset
  BY <1>2, RestKeeps DEF Reset
<1>3. CASE CheckOptIn
  BY <1>3, CheckOptInKeeps
<1>4. CASE Insert
  BY <1>4, InsertKeeps
<1>5. CASE After
  BY <1>5, AfterKeeps
<1>6. ASSUME NEW h \in Handlers, OptIn(h) \/ OptOut(h) \/ CountLedger(h) \/ SeedDemo(h) \/ Clear(h)
      PROVE  LedgerInv'
  BY <1>6, OptInKeeps, OptOutKeeps, CountLedgerKeeps, SeedDemoKeeps, ClearKeeps
<1>7. CASE UNCHANGED vars
  BY <1>7, RestKeeps DEF vars
<1> QED
  BY <1>1, <1>2, <1>3, <1>4, <1>5, <1>6, <1>7 DEF Next

-----------------------------------------------------------------------------
(* However many requests come at a time and whatever the counter does: an  *)
(* entry of the ledger is of a burst that was recorded while the user was  *)
(* opted in, in its place, and the demo entries went to an empty ledger    *)
(* unless something was put into it meanwhile (record_savings_entry and    *)
(* seed_demo_savings_if_empty).                                            *)
THEOREM LedgerStaysConsented == Spec => []LedgerIsConsented
<1> QED
  BY LedgerStep, LedgerInit, LedgerInvIsEnough, PTL DEF Spec

-----------------------------------------------------------------------------
States == {"calibrating", "idle", "active", "stopped"}

(* Between the two readings of a burst, and what is known of a counter     *)
(* whose range is.                                                         *)
Apart(f, t) ==
  /\ f.at <= t.at /\ Idle * (t.at - f.at) <= t.total - f.total
  /\ t.total - f.total <= Busy * (t.at - f.at)
  /\ f.resets = t.resets => \A x \in f.uj, y \in t.uj : (x + (t.total - f.total)) % MaxRange = y

Between == \A f \in d.cand : \A t \in d.last : Apart(f, t)

Seen == \A r \in d.cand \cup d.last : setup.range # {} => r.uj # {}

Detecting ==
  /\ Detects(d) /\ d.state \in States /\ \A x, y \in prev : x = y
  /\ rec # "none" => d.state = "idle"

Measuring == Metered /\ Readings /\ Between /\ Seen /\ Detecting

(* What a sample does, of a detector and a reading that are as they should *)
(* be.                                                                     *)
LEMMA SampleObserves ==
  ASSUME Measuring, NEW power, NEW r, NEW p, Sampled(power, r, p)
  PROVE  /\ Detects(d') /\ d'.state \in {"calibrating", "idle", "active"}
         /\ None(d') \/ Same(d, d') \/ Rose(d, p, r, d') \/ Lasted(d, p, r, d')
         /\ Closes(d, p, r) => None(d') /\ d'.state = "idle"
<1>1. Detects(d) /\ d.state \in {"calibrating", "idle", "active"}
  BY DEF Measuring, Detecting, States, Sampled
<1>2. p \in Nat \cup {NoPower} /\ r.at \in Nat /\ d' = Observe(d, p, r)
  BY DEF Sampled, IsReading
<1>3. PICK c, e : c = d /\ e = d'
  OBVIOUS
<1>4. /\ Detects(e) /\ e.state \in {"calibrating", "idle", "active"}
      /\ None(e) \/ Same(c, e) \/ Rose(c, p, r, e) \/ Lasted(c, p, r, e)
      /\ Closes(c, p, r) => None(e) /\ e.state = "idle"
  <2>1. Detects(c) /\ c.state \in {"calibrating", "idle", "active"} /\ e = Observe(c, p, r)
    BY <1>1, <1>2, <1>3
  <2> QED
    BY <1>2, <2>1, Observed
<1> QED
  BY <1>3, <1>4

(* A sample keeps what is measured.                                        *)
LEMMA SampleMeasures ==
  ASSUME Measuring, NEW power, NEW r, NEW p, Sampled(power, r, p)
  PROVE  Measuring'
<1>1. /\ Detects(d') /\ d'.state \in {"calibrating", "idle", "active"}
      /\ None(d') \/ Same(d, d') \/ Rose(d, p, r, d') \/ Lasted(d, p, r, d')
      /\ Closes(d, p, r) => None(d') /\ d'.state = "idle"
  BY SampleObserves
<1>2. Metered' /\ Drawn(r)' /\ IsReading(r) /\ \A q \in prev \cup d.cand \cup d.last : Drawn(q)'
  <2>1. Metered /\ Readings
    BY DEF Measuring
  <2> QED
    BY <2>1, ReadingsAdvance DEF Sampled
<1>3. /\ \A f \in d'.cand : f \in d.cand \/ f = r
      /\ \A t \in d'.last : t \in d.last \/ t = r
      /\ \A f \in d'.cand : \A t \in d'.last :
           (f \in d.cand /\ t \in d.last) \/ (f \in d.cand /\ t = r) \/ (f = r /\ t = r)
      /\ (r \in d'.cand /\ r \notin d.cand) \/ (r \in d'.last /\ r \notin d.last) => p # NoPower
  BY <1>1 DEF None, Same, Rose, Lasted
<1>4. prev' = prev \/ prev' = {r}
  BY DEF Sampled
<1>5. Readings'
  <2> SUFFICES ASSUME NEW q \in prev' \cup d'.cand \cup d'.last PROVE IsReading(q) /\ Drawn(q)'
    BY DEF Readings
  <2>1. q \in prev \cup d.cand \cup d.last \/ q = r
    BY <1>3, <1>4
  <2> QED
    BY <1>2, <2>1 DEF Measuring, Readings
<1>6. Between'
  <2> SUFFICES ASSUME NEW f \in d'.cand, NEW t \in d'.last PROVE Apart(f, t)
    BY DEF Between
  <2>1. CASE f \in d.cand /\ t \in d.last
    BY <2>1 DEF Measuring, Between
  <2>2. CASE (f \in d.cand \/ f = r) /\ t = r
    <3>1. IsReading(f) /\ Drawn(f)'
      BY <1>2, <2>2 DEF Measuring, Readings
    <3>2. /\ r.at = now' /\ r.total = total' /\ r.resets = faults'.resets /\ \A y \in r.uj : y = count'
      BY DEF Sampled, Second
    <3> QED
      BY <2>2, <3>1, <3>2 DEF Apart, Drawn
  <2> QED
    BY <1>3, <2>1, <2>2
<1>7. Seen'
  <2> SUFFICES ASSUME NEW q \in d'.cand \cup d'.last, setup'.range # {} PROVE q.uj # {}
    BY DEF Seen
  <2>1. CASE q \in d.cand \cup d.last
    BY <2>1 DEF Measuring, Seen, Sampled
  <2>2. CASE q \notin d.cand \cup d.last
    <3>1. q = r /\ p # NoPower
      BY <1>3, <2>2
    <3>2. ~setup.backend.scripted
      BY RangesAre DEF Measuring, Sampled
    <3> QED
      BY <3>1, <3>2 DEF Sampled
  <2> QED
    BY <2>1, <2>2
<1>8. Detecting'
  <2>1. \A x, y \in prev' : x = y
    BY <1>4 DEF Measuring, Detecting
  <2>2. rec' # "none" => d'.state = "idle"
    <3>1. OnIdle(Closes(d, p, r))
      BY DEF Sampled
    <3>2. rec' # "none" => Closes(d, p, r)
      BY <3>1 DEF OnIdle
    <3> QED
      BY <1>1, <3>2
  <2> QED
    BY <1>1, <2>1, <2>2 DEF Detecting, States
<1> QED
  BY <1>2, <1>5, <1>6, <1>7, <1>8 DEF Measuring

(* A burst that has ended.                                                 *)
IsTrue(s) ==
  /\ \A e \in s.energy : Plausible(e, s.runtime)
  /\ (s.from.resets = s.to.resets /\ s.to.total - s.from.total < MaxRange) =>
       /\ s.energy \subseteq {s.to.total - s.from.total}
       /\ setup.range # {} => s.energy # {}

(* The segment of a burst is true, if its readings are.                    *)
LEMMA SegmentOf ==
  ASSUME Measuring, d.cand # {}, d.last # {}
  PROVE  IsTrue(Segment(d))
<1> DEFINE f == Only(d.cand)
           t == Only(d.last)
<1>1. f \in d.cand /\ t \in d.last
  BY DEF Only
<1>2. PICK s : s = Segment(d)
  OBVIOUS
<1>3. /\ s.from = f /\ s.to = t /\ s.runtime = t.at - f.at
      /\ s.energy = Energy(f.uj, t.uj, setup.range, t.at - f.at)
  BY <1>2 DEF Segment
<1> HIDE DEF f, t
<1>4. IsReading(f) /\ IsReading(t) /\ Apart(f, t) /\ Metered
      /\ (setup.range # {} => f.uj # {} /\ t.uj # {})
  BY <1>1 DEF Measuring, Readings, Between, Seen
<1>5. PICK n \in Nat, g \in Nat : n = t.at - f.at /\ g = t.total - f.total
  <2>1. f.at <= t.at /\ Idle * (t.at - f.at) <= t.total - f.total
    BY <1>4 DEF Apart
  <2>2. PICK n \in Nat : n = t.at - f.at
    BY <1>4, <2>1 DEF IsReading
  <2>3. Idle * n \in Nat
    BY BoundsAssumption
  <2>4. t.total - f.total \in Nat
    BY <1>4, <2>1, <2>2, <2>3 DEF IsReading
  <2> QED
    BY <2>2, <2>4
<1>6. s.energy = UNION {{e \in Delta(a, b, setup.range) : Plausible(e, n)} : a \in f.uj, b \in t.uj}
  BY <1>3, <1>5 DEF Energy
<1>7. \A e \in s.energy : \E a \in f.uj, b \in t.uj : e \in Delta(a, b, setup.range) /\ Plausible(e, n)
  BY <1>6
<1>8. \A a \in f.uj, b \in t.uj : \A e \in Delta(a, b, setup.range) : Plausible(e, n) => e \in s.energy
  <2> DEFINE Both(a, b) == {e \in Delta(a, b, setup.range) : Plausible(e, n)}
  <2> SUFFICES ASSUME NEW a \in f.uj, NEW b \in t.uj, NEW e \in Both(a, b) PROVE e \in s.energy
    OBVIOUS
  <2>1. s.energy = UNION {Both(x, y) : x \in f.uj, y \in t.uj}
    BY <1>6
  <2> HIDE DEF Both
  <2>2. Both(a, b) \in {Both(x, y) : x \in f.uj, y \in t.uj}
    OBVIOUS
  <2> QED
    BY <2>1, <2>2
<1>9. setup.range \in {{}, Wrap}
  BY <1>4, RangesAre
<1>10. ASSUME f.resets = t.resets, g < MaxRange
       PROVE  s.energy \subseteq {g} /\ (setup.range # {} => s.energy # {})
  <2>1. ASSUME NEW a \in f.uj, NEW b \in t.uj, NEW e \in Delta(a, b, setup.range) PROVE e = g
    <3>1. b = (a + g) % MaxRange /\ a \in 0..(MaxRange - 1)
      BY <1>4, <1>5, <1>10 DEF Apart, IsReading
    <3> QED
      BY <1>9, <1>10, <2>1, <3>1, DeltaIs
  <2>2. s.energy \subseteq {g}
    BY <1>7, <2>1
  <2>3. ASSUME setup.range # {} PROVE s.energy # {}
    <3>1. PICK a \in f.uj, b \in t.uj : TRUE
      BY <1>4, <2>3
    <3>2. setup.range = Wrap
      BY <1>9, <2>3
    <3>3. (b - a) % MaxRange \in Delta(a, b, setup.range)
      BY <2>3, <3>2 DEF Delta, Wrap
    <3>4. g \in Delta(a, b, setup.range)
      BY <2>1, <3>3
    <3>5. Plausible(g, n)
      <4>1. g <= Busy * n
        BY <1>4, <1>5 DEF Apart
      <4>2. Busy * n <= Ceiling * n
        BY BoundsAssumption, MeterAssumption, ProductGrows
      <4>3. Busy * n \in Int /\ Ceiling * n \in Int
        BY BoundsAssumption, MeterAssumption
      <4> QED
        BY <4>1, <4>2, <4>3 DEF Plausible
    <3> QED
      BY <1>8, <3>4, <3>5
  <2> QED
    BY <2>2, <2>3
<1>11. IsTrue(s)
  BY <1>3, <1>5, <1>7, <1>10 DEF IsTrue
<1> QED
  BY <1>2, <1>11

-----------------------------------------------------------------------------
(* The bursts that have ended, and who may have consented to which.        *)
Bursts ==
  /\ SegmentIsTrue
  /\ rec # "none" => segments # <<>>
  /\ consent \subseteq DOMAIN segments

MeterInv == Typed /\ Measuring /\ Bursts

(* It says what the run checks.                                            *)
LEMMA MeterInvIsEnough == MeterInv => TypeOK /\ SegmentIsTrue /\ KnownPowerCalibrates
<1> SUFFICES ASSUME MeterInv PROVE TypeOK /\ SegmentIsTrue /\ KnownPowerCalibrates
  OBVIOUS
<1>1. Typed /\ Measuring /\ Metered /\ Detecting /\ Detects(d) /\ Bursts
  BY DEF MeterInv, Measuring, Detecting
<1>2. setup.backend \in Backends
  BY <1>1, SetupsAssumption DEF Metered
<1>3. d.state = "active" => d.cand # {} /\ d.last # {}
  BY <1>1 DEF Detects, HasReadings
<1>4. \A h \in Handlers : pc[h] \in 0..Count
  BY <1>1 DEF Typed
<1>5. TypeOK
  BY <1>1, <1>2, <1>3, <1>4 DEF TypeOK, Metered, Detecting, States, Typed, Bursts
<1>6. KnownPowerCalibrates
  BY <1>1 DEF Detects, HasMeasured, KnownPowerCalibrates
<1> QED
  BY <1>1, <1>5, <1>6 DEF Bursts

(* It holds at the start.                                                  *)
LEMMA MeterInit == Init => Measuring /\ Bursts
<1> SUFFICES ASSUME Init PROVE Measuring /\ Bursts
  OBVIOUS
<1>1. PICK primed \in setup.primed : d = Detector(primed)
  BY DEF Init
<1>2. /\ setup \in Setups /\ now = 0 /\ count \in Starts /\ prev = {} /\ segments = <<>> /\ rec = "none"
      /\ total = 0 /\ faults = [missing |-> 0, resets |-> 0] /\ consent = {}
  BY DEF Init
<1>3. Metered
  <2>1. now \in 0..Horizon /\ count \in 0..(MaxRange - 1)
    <3>1. count \in 0..(MaxRange - 1)
      BY <1>2, StartsAssumption
    <3>2. 0 \in 0..Horizon
      BY BoundsAssumption
    <3> QED
      BY <1>2, <3>1, <3>2
  <2>2. faults \in [missing : Nat, resets : Nat]
    BY <1>2
  <2> QED
    BY <1>2, <2>1, <2>2 DEF Metered
<1>4. primed # {} => Only(primed) \in Nat
  <2>1. primed \subseteq Nat
    BY <1>2, SetupsAssumption
  <2> QED
    BY <2>1 DEF Only
<1>5. PICK state, base2, spread4 :
        /\ d = [state |-> state, values |-> <<>>, base2 |-> base2, spread4 |-> spread4,
                cand |-> {}, n |-> 0, last |-> {}, quiet |-> {}]
        /\ state \in {"calibrating", "idle"} /\ base2 \in Nat /\ spread4 \in Nat
  <2>1. CASE primed = {}
    BY <1>1, <2>1, Zenon DEF Detector
  <2>2. CASE primed # {}
    <3>1. PICK base2 \in Nat : base2 = 2 * Only(primed)
      BY <1>4, <2>2
    <3>2. d = [state |-> "idle", values |-> <<>>, base2 |-> base2, spread4 |-> 4,
               cand |-> {}, n |-> 0, last |-> {}, quiet |-> {}]
      BY <1>1, <2>2, <3>1 DEF Detector
    <3>3. 4 \in Nat
      OBVIOUS
    <3> QED
      BY <3>2, <3>3
  <2> QED
    BY <2>1, <2>2
<1>6. <<>> \in Seq(Nat) /\ <<>> \in Seq(Nat \cup {NoPower}) /\ Len(<<>>) = 0 /\ ToSet(<<>>) = {} /\ DOMAIN <<>> = {}
  BY DEF ToSet
<1>7. Detects(d)
  BY <1>5, <1>6 DEF Detects, IsDetector, HasMeasured, HasReadings
<1>8. d.cand = {} /\ d.last = {} /\ d.state \in States
  BY <1>5 DEF States
<1> QED
  BY <1>2, <1>3, <1>6, <1>7, <1>8
  DEF Measuring, Readings, Between, Seen, Detecting, Bursts, SegmentIsTrue

(* The counter of a second without a sample.                               *)
LEMMA MeasuringKept ==
  ASSUME Measuring, UNCHANGED <<setup, now, count, prev, total, faults>>,
         \/ d' = d /\ (rec' = rec \/ rec # "none" \/ rec' = "none")
         \/ d' = [d EXCEPT !.state = "stopped"] /\ rec # "none" /\ rec' = "none"
  PROVE  Measuring'
<1>1. d'.cand = d.cand /\ d'.last = d.last
  <2>1. IsDetector(d)
    BY DEF Measuring, Detecting, Detects
  <2> QED
    BY <2>1 DEF IsDetector
<1>2. Metered' /\ Readings' /\ Between' /\ Seen'
  <2>1. Metered'
    BY DEF Measuring, Metered
  <2>2. \A r : Drawn(r)' <=> Drawn(r)
    BY DEF Drawn
  <2>3. Readings'
    BY <1>1, <2>2 DEF Measuring, Readings
  <2> QED
    BY <1>1, <2>1, <2>3 DEF Measuring, Between, Seen
<1>3. Detecting'
  <2>1. CASE d' = d
    BY <2>1 DEF Measuring, Detecting
  <2>2. CASE d' = [d EXCEPT !.state = "stopped"] /\ rec # "none" /\ rec' = "none"
    <3>1. Detects(d) /\ d.state = "idle" /\ IsDetector(d)
      BY <2>2 DEF Measuring, Detecting, Detects
    <3>2. d' = [state |-> "stopped", values |-> d.values, base2 |-> d.base2, spread4 |-> d.spread4,
                cand |-> d.cand, n |-> d.n, last |-> d.last, quiet |-> d.quiet]
      BY <2>2, <3>1 DEF IsDetector
    <3>3. Detects(d')
      BY <3>1, <3>2 DEF Detects, IsDetector, HasMeasured, HasReadings
    <3>4. \A x, y \in prev' : x = y
      BY DEF Measuring, Detecting
    <3> QED
      BY <2>2, <3>2, <3>3, <3>4 DEF Detecting, States
  <2> QED
    BY <2>1, <2>2
<1> QED
  BY <1>2, <1>3 DEF Measuring

(* A reset of the counter keeps what is measured.                          *)
LEMMA ResetMeasures == ASSUME Measuring, Reset PROVE Measuring'
<1>1. /\ now' = now /\ total' = total /\ count' = 0 /\ setup' = setup /\ prev' = prev /\ d' = d /\ rec' = rec
      /\ faults' = [faults EXCEPT !.resets = @ + 1]
  BY DEF Reset, service
<1>2. Metered /\ faults' \in [missing : Nat, resets : Nat] /\ faults'.resets = faults.resets + 1
      /\ faults.resets \in Nat
  BY <1>1 DEF Measuring, Metered
<1>3. Metered'
  BY <1>1, <1>2, MeterAssumption DEF Metered
<1>4. Readings'
  <2> SUFFICES ASSUME NEW q \in prev \cup d.cand \cup d.last PROVE IsReading(q) /\ Drawn(q)'
    BY <1>1 DEF Readings
  <2>1. IsReading(q) /\ Drawn(q) /\ q.resets \in Nat
    BY DEF Measuring, Readings, IsReading
  <2> QED
    BY <1>1, <1>2, <2>1 DEF Drawn
<1> QED
  BY <1>1, <1>3, <1>4 DEF Measuring, Between, Seen, Detecting

(* A burst that ends is true.                                              *)
LEMMA SampleEnds ==
  ASSUME MeterInv, NEW power, NEW r, NEW p, Sampled(power, r, p)
  PROVE  Bursts'
<1> DEFINE ended == Closes(d, p, r)
<1>1. /\ segments' = IF ended THEN Append(segments, Segment(d)) ELSE segments
      /\ rec' = IF ended /\ setup.control THEN "check" ELSE "none"
      /\ consent' = IF ended /\ setup.control /\ opted THEN consent \cup {Len(segments) + 1} ELSE consent
      /\ setup' = setup
  BY DEF Sampled, OnIdle
<1>2. IsSeq(segments) /\ Measuring /\ Bursts
  BY DEF MeterInv, Typed
<1>3. (\A s \in ToSet(segments) : IsTrue(s)) /\ \A s : IsTrue(s)' <=> IsTrue(s)
  BY <1>1, <1>2 DEF Bursts, SegmentIsTrue, IsTrue
<1>4. CASE ended
  <2>1. d.cand # {} /\ d.last # {}
    BY <1>2, <1>4 DEF Measuring, Detecting, Detects, HasReadings, Closes
  <2>2. PICK s : s = Segment(d)
    OBVIOUS
  <2>3. IsTrue(s)
    BY <1>2, <2>1, <2>2, SegmentOf
  <2>4. PICK t : t = Append(segments, s)
    OBVIOUS
  <2>5. /\ Len(t) = Len(segments) + 1 /\ \A i \in 1..Len(segments) : t[i] = segments[i]
        /\ t[Len(segments) + 1] = s /\ DOMAIN t = 1..(Len(segments) + 1)
        /\ DOMAIN segments = 1..Len(segments) /\ Len(segments) \in Nat
    <3>1. IsSeq(t) /\ Len(t) = Len(segments) + 1 /\ \A i \in 1..Len(segments) : t[i] = segments[i]
      BY <1>2, <2>4, Appended
    <3>2. t[Len(segments) + 1] = s
      BY <1>2, <2>4, Appended
    <3> QED
      BY <1>2, <3>1, <3>2 DEF IsSeq
  <2>6. segments' = t
    BY <1>1, <1>4, <2>2, <2>4
  <2>7. \A x \in ToSet(t) : IsTrue(x)'
    <3> SUFFICES ASSUME NEW i \in DOMAIN t PROVE IsTrue(t[i])
      BY <1>3 DEF ToSet
    <3>1. i \in DOMAIN segments \/ i = Len(segments) + 1
      BY <2>5
    <3> QED
      BY <1>3, <2>3, <2>5, <3>1 DEF ToSet
  <2>8. t # <<>> /\ consent' \subseteq DOMAIN t
    <3>1. consent \subseteq DOMAIN segments
      BY <1>2 DEF Bursts
    <3>2. consent' \subseteq consent \cup {Len(segments) + 1}
      BY <1>1
    <3> QED
      BY <2>5, <3>1, <3>2
  <2>9. SegmentIsTrue'
    BY <2>6, <2>7 DEF SegmentIsTrue, IsTrue
  <2> QED
    BY <2>6, <2>8, <2>9 DEF Bursts
<1>5. CASE ~ended
  <2>1. segments' = segments /\ rec' = "none" /\ consent' = consent
    BY <1>1, <1>5
  <2> QED
    BY <1>1, <1>2, <2>1 DEF Bursts, SegmentIsTrue
<1> QED
  BY <1>4, <1>5

(* Every step keeps it.                                                    *)
LEMMA MeterStep == LedgerInv /\ MeterInv /\ [Next]_vars => Measuring' /\ Bursts'
<1> SUFFICES ASSUME LedgerInv, MeterInv, [Next]_vars PROVE Measuring' /\ Bursts'
  OBVIOUS
<1>1. Measuring /\ Bursts
  BY DEF MeterInv
<1>2. CASE Sample
  <2>1. PICK power, r, p : Sampled(power, r, p)
    BY <1>1, <1>2, SampleIs DEF Measuring, Detecting
  <2> QED
    BY <1>1, <2>1, SampleMeasures, SampleEnds
<1>3. CASE Reset
  <2>1. UNCHANGED <<setup, segments, rec, consent>>
    BY <1>3 DEF Reset, service
  <2>2. Bursts'
    BY <1>1, <2>1 DEF Bursts, SegmentIsTrue
  <2> QED
    BY <1>1, <1>3, <2>2, ResetMeasures
<1>4. CASE CheckOptIn
  <2>1. /\ UNCHANGED <<setup, now, count, prev, d, total, faults>> /\ rec # "none"
        /\ UNCHANGED <<segments, consent>>
    BY <1>4 DEF CheckOptIn
  <2>2. Bursts'
    BY <1>1, <2>1 DEF Bursts, SegmentIsTrue
  <2> QED
    BY <1>1, <2>1, <2>2, MeasuringKept
<1>5. CASE Insert
  <2>1. /\ UNCHANGED <<setup, now, count, prev, d, total, faults>> /\ rec # "none"
        /\ UNCHANGED <<segments, consent>>
    BY <1>5 DEF Insert
  <2>2. Bursts'
    BY <1>1, <2>1 DEF Bursts, SegmentIsTrue
  <2> QED
    BY <1>1, <2>1, <2>2, MeasuringKept
<1>6. CASE After
  <2>1. /\ UNCHANGED <<setup, now, count, prev, total, faults>> /\ rec # "none" /\ rec' = "none"
        /\ UNCHANGED <<segments, consent>>
        /\ d' = d \/ d' = [d EXCEPT !.state = "stopped"]
    BY <1>6 DEF After
  <2>2. Bursts'
    BY <1>1, <2>1 DEF Bursts, SegmentIsTrue
  <2> QED
    BY <1>1, <2>1, <2>2, MeasuringKept
<1>7. ASSUME NEW h \in Handlers, OptIn(h) \/ OptOut(h) \/ CountLedger(h) \/ SeedDemo(h) \/ Clear(h)
      PROVE  Measuring' /\ Bursts'
  <2>1. UNCHANGED unmeasured /\ consent' \subseteq consent \cup {n \in {Len(segments)} : rec = "check"}
    <3>1. CASE OptIn(h)
      BY <3>1 DEF OptIn
    <3>2. CASE OptOut(h) \/ CountLedger(h) \/ SeedDemo(h) \/ Clear(h)
      BY <3>2 DEF OptOut, CountLedger, SeedDemo, Clear
    <3> QED
      BY <1>7, <3>1, <3>2
  <2>2. UNCHANGED <<setup, now, count, prev, d, total, faults, segments, rec>>
    BY <2>1 DEF unmeasured, service
  <2>3. rec = "check" => Len(segments) \in DOMAIN segments
    BY <1>1 DEF Bursts, MeterInv, Typed, IsSeq
  <2>4. Bursts'
    BY <1>1, <2>1, <2>2, <2>3 DEF Bursts, SegmentIsTrue
  <2> QED
    BY <1>1, <2>2, <2>4, MeasuringKept
<1>8. CASE UNCHANGED vars
  <2>1. UNCHANGED <<setup, now, count, prev, d, total, faults, segments, rec, consent>>
    BY <1>8 DEF vars, service
  <2>2. Bursts'
    BY <1>1, <2>1 DEF Bursts, SegmentIsTrue
  <2> QED
    BY <1>1, <2>1, <2>2, MeasuringKept
<1> QED
  BY <1>2, <1>3, <1>4, <1>5, <1>6, <1>7, <1>8 DEF Next

-----------------------------------------------------------------------------
(* Lower bounds of a power over a time add up.                             *)
LEMMA AddUp ==
  ASSUME NEW a \in Int, NEW x \in Int, NEW y \in Int, NEW u \in Int, NEW v \in Int, NEW z \in Int, NEW w \in Int,
         z = x + y, w = u + v, a * x <= u
  PROVE  /\ a * y <= v => a * z <= w
         /\ a * y < v => a * z < w
<1>1. a * z = a * x + a * y
  BY Distributes
<1>2. PICK i \in Int, j \in Int : i = a * x /\ j = a * y
  OBVIOUS
<1> QED
  BY <1>1, <1>2

(* A candidate is what it seems, or it is the reset that it looks like.    *)
Suspect(f) ==
  /\ d.n = 1 /\ f.resets = 1
  /\ \E q \in prev : q.resets = 1 /\ f.at <= q.at /\ Idle * (q.at - f.at) <= q.total - f.total

Busied(f) ==
  IF d.state = "active" THEN \A t \in d.last : Idle * (t.at - f.since) < t.total - f.low
  ELSE Idle * (now - f.since) < total - f.low \/ Suspect(f)

Begun ==
  \A f \in d.cand : d.n >= 1 /\ ((faults.resets <= 1 /\ d.base2 >= 2 * Idle) => Busied(f))

(* It says what the run checks, if two samples make a burst at least.      *)
LEMMA BegunIsEnough == Measuring /\ Begun => BurstIsReal
<1> SUFFICES ASSUME Measuring, Begun, d.state = "active", faults.resets <= 1, d.base2 >= 2 * Idle
             PROVE  \E begun \in d.cand, to \in d.last : to.total - begun.low > Idle * (to.at - begun.since)
  BY DEF BurstIsReal
<1>1. d.cand # {} /\ d.last # {}
  BY DEF Measuring, Detecting, Detects, HasReadings
<1>2. PICK f \in d.cand, t \in d.last : TRUE
  BY <1>1
<1>3. Idle * (t.at - f.since) < t.total - f.low
  BY DEF Begun, Busied
<1>4. IsReading(f) /\ IsReading(t)
  BY DEF Measuring, Readings
<1>5. PICK x \in Int : x = Idle * (t.at - f.since)
  BY <1>4, BoundsAssumption DEF IsReading
<1>6. t.total - f.low > Idle * (t.at - f.since)
  BY <1>3, <1>4, <1>5 DEF IsReading
<1> QED
  BY <1>6

(* The power that a sample is given was drawn since the reading before it, *)
(* unless the counter was reset in between.                                *)
LEMMA PowerIsDrawn ==
  ASSUME Measuring, NEW power, NEW r, NEW p, Sampled(power, r, p), p # NoPower, p > Idle
  PROVE  \/ power > Idle
         \/ /\ prev' = {r}
            /\ \E q \in prev : /\ r.since = q.at /\ r.low = q.total
                               /\ q.resets = faults.resets => Idle * (r.at - q.at) < r.total - q.total
<1>1. CASE setup.backend.scripted /\ p = power
  BY <1>1
<1>2. ASSUME NEW q \in prev, r.since = q.at, r.low = q.total, Derived(q, r, p), prev' = {r},
             q.resets = faults.resets
      PROVE  Idle * (r.at - q.at) < r.total - q.total
  <2>1. Metered /\ Drawn(q)' /\ Drawn(q) /\ IsReading(q) /\ Metered' /\ IsReading(r)
    BY ReadingsAdvance DEF Measuring, Readings, Sampled
  <2>2. PICK x \in q.uj : \E e \in Delta(x, count', setup.backend.range) : p = e \div (r.at - q.at)
    BY <1>2 DEF Derived
  <2>3. PICK e \in Delta(x, count', setup.backend.range) : p = e \div (r.at - q.at)
    BY <2>2
  <2>4. /\ r.at = now' /\ r.total = total' /\ now' = now + 1 /\ faults'.resets = faults.resets
        /\ now \in Nat /\ q.at <= now /\ q.at \in Nat
    BY <2>1 DEF Sampled, Second, Metered, Drawn, IsReading
  <2>5. PICK n \in Nat \ {0} : n = r.at - q.at
    BY <2>4
  <2>6. Idle * n <= total' - q.total /\ total' \in Nat /\ q.total \in Nat
    BY <2>1, <2>4, <2>5 DEF Drawn, Metered, IsReading
  <2>7. Idle \in Nat /\ Idle * n \in Nat
    BY BoundsAssumption
  <2>8. PICK t \in Nat : t = total' - q.total
    <3> HIDE DEF Sampled
    <3>1. PICK i \in Nat : i = Idle * n
      BY <2>7
    <3>2. total' - q.total \in Nat
      BY <2>6, <3>1
    <3> QED
      BY <3>2
  <2>9. x \in 0..(MaxRange - 1) /\ count' = (x + t) % MaxRange
    BY <1>2, <2>1, <2>4, <2>8 DEF Drawn, IsReading
  <2>10. setup.backend.range \in {{}, Wrap}
    BY <2>1, RangesAre
  <2>11. e \in Nat /\ e <= t
    BY <2>9, <2>10, DeltaIs
  <2>12. p \in Nat /\ p * n <= e
    BY <2>3, <2>5, <2>11, RoundedDown
  <2>13. Idle * n < p * n
    BY <2>7, <2>12
  <2>14. PICK i \in Nat, j \in Nat : i = Idle * n /\ j = p * n
    BY <2>7, <2>12
  <2>15. Idle * n < t
    BY <2>11, <2>12, <2>13, <2>14
  <2> QED
    BY <2>4, <2>5, <2>8, <2>15
<1> QED
  BY <1>1, <1>2 DEF Sampled

(* A sample keeps it: what begins a burst was busy, or looks so after a    *)
(* reset.                                                                  *)
LEMMA SampleBegins ==
  ASSUME Onset >= 2, Measuring, Begun, NEW power, NEW r, NEW p, Sampled(power, r, p)
  PROVE  Begun'
<1>1. /\ Detects(d') /\ d'.state \in {"calibrating", "idle", "active"}
      /\ None(d') \/ Same(d, d') \/ Rose(d, p, r, d') \/ Lasted(d, p, r, d')
  BY SampleObserves
<1>2. Metered' /\ Drawn(r)' /\ IsReading(r) /\ \A q \in prev \cup d.cand \cup d.last : Drawn(q)'
  <2>1. Metered /\ Readings
    BY DEF Measuring
  <2> QED
    BY <2>1, ReadingsAdvance DEF Sampled
<1>3. \A q \in prev \cup d.cand \cup d.last : IsReading(q) /\ Drawn(q)
  BY DEF Measuring, Readings
<1>4. /\ now \in Nat /\ total \in Nat /\ faults.resets \in Nat /\ faults'.resets = faults.resets
      /\ now' = now + 1 /\ total' = total + power /\ power \in Nat /\ Idle \in Nat /\ Idle <= power
      /\ r.at = now' /\ r.total = total' /\ r.resets = faults.resets
      /\ (prev' = prev \/ prev' = {r}) /\ \A x, y \in prev : x = y
  <2>1. power \in Nat /\ Idle <= power /\ Idle \in Nat
    BY SecondTyped, BoundsAssumption DEF Measuring, Sampled
  <2> QED
    BY <2>1 DEF Measuring, Detecting, Metered, Sampled, Second
<1>5. d.n \in Nat /\ d.base2 \in Nat /\ d'.base2 \in Nat /\ d'.n \in Nat
  BY <1>1 DEF Measuring, Detecting, Detects, HasMeasured
<1> SUFFICES ASSUME NEW f \in d'.cand
             PROVE  d'.n >= 1 /\ ((faults'.resets <= 1 /\ d'.base2 >= 2 * Idle) => Busied(f)')
  BY DEF Begun
(* An old candidate that was busy still is.                                *)
<1>6. ASSUME f \in d.cand, Idle * (now - f.since) < total - f.low
      PROVE  Idle * (now' - f.since) < total' - f.low
  <2>1. f.since \in Nat /\ f.low \in Nat
    BY <1>3, <1>6 DEF IsReading
  <2>2. PICK x \in Int, y \in Int : x = now - f.since /\ y = total - f.low
    BY <1>4, <2>1
  <2>3. Idle * 1 <= power
    BY <1>4
  <2>4. now' - f.since = 1 + x /\ total' - f.low = power + y
    BY <1>4, <2>1, <2>2
  <2>5. Idle * x < y
    BY <1>6, <2>2
  <2>6. PICK z \in Int, w \in Int : z = 1 + x /\ w = power + y
    BY <1>4
  <2>7. Idle * z < w
    BY <1>4, <2>3, <2>5, <2>6, AddUp
  <2> QED
    BY <2>4, <2>6, <2>7
(* So is one that was suspected, if the sample is genuine.                 *)
<1>7. ASSUME f \in d.cand, Suspect(f), faults.resets <= 1, p # NoPower, p > Idle
      PROVE  Idle * (now' - f.since) < total' - f.low
  <2>1. IsReading(f) /\ Drawn(f)
    BY <1>3, <1>7
  <2>2. /\ f.since \in Nat /\ f.low \in Nat /\ f.at \in Nat /\ f.total \in Nat
        /\ Idle * (f.at - f.since) <= f.total - f.low
        /\ Idle * (now - f.at) <= total - f.total
    BY <2>1 DEF IsReading, Drawn
  <2>3. PICK x \in Int, y \in Int : x = f.at - f.since /\ y = f.total - f.low
    BY <2>2
  <2>4. Idle * (now' - f.at) < total' - f.total
    <3>1. CASE power > Idle
      <4>1. PICK u \in Int, v \in Int : u = now - f.at /\ v = total - f.total
        <5>1. f.at \in Nat /\ f.total \in Nat /\ now \in Nat /\ total \in Nat
          BY <1>4, <2>2
        <5>2. now - f.at \in Int /\ total - f.total \in Int
          BY <5>1
        <5> QED
          BY <5>2
      <4>2. Idle * u <= v /\ Idle * 1 < power
        BY <1>4, <2>2, <3>1, <4>1
      <4>3. PICK z \in Int, w \in Int : z = u + 1 /\ w = v + power
        BY <1>4
      <4>4. Idle * z < w
        BY <1>4, <4>2, <4>3, AddUp
      <4>5. z = now' - f.at /\ w = total' - f.total
        BY <1>4, <2>2, <4>1, <4>3
      <4> QED
        BY <4>4, <4>5
    <3>2. ASSUME NEW q \in prev, q.resets = faults.resets => Idle * (r.at - q.at) < r.total - q.total
          PROVE  Idle * (now' - f.at) < total' - f.total
      <4>1. PICK o \in prev : o.resets = 1 /\ f.at <= o.at /\ Idle * (o.at - f.at) <= o.total - f.total
        BY <1>7 DEF Suspect
      <4>2. o = q /\ q.at \in Nat /\ q.total \in Nat /\ q.resets \in Nat /\ q.resets <= faults.resets
        BY <1>3, <1>4 DEF IsReading, Drawn
      <4>3. PICK u \in Int, v \in Int : u = q.at - f.at /\ v = q.total - f.total
        BY <2>2, <4>2
      <4>4. PICK i \in Int, j \in Int : i = now' - q.at /\ j = total' - q.total
        BY <1>4, <4>2
      <4>5. q.resets = faults.resets
        BY <1>4, <1>7, <4>1, <4>2
      <4>6. Idle * u <= v /\ Idle * i < j
        BY <1>4, <3>2, <4>1, <4>2, <4>3, <4>4, <4>5
      <4>7. PICK z \in Int, w \in Int : z = u + i /\ w = v + j
        OBVIOUS
      <4>8. Idle * z < w
        BY <1>4, <4>6, <4>7, AddUp
      <4>9. z = now' - f.at /\ w = total' - f.total
        BY <1>4, <2>2, <4>2, <4>3, <4>4, <4>7
      <4> QED
        BY <4>8, <4>9
    <3> QED
      BY <1>7, <3>1, <3>2, PowerIsDrawn
  <2>5. PICK u \in Int, v \in Int : u = now' - f.at /\ v = total' - f.total
    BY <1>4, <2>2
  <2>6. PICK z \in Int, w \in Int : z = x + u /\ w = y + v
    OBVIOUS
  <2>7. Idle * x <= y /\ Idle * u < v
    BY <2>2, <2>3, <2>4, <2>5
  <2>8. Idle * z < w
    BY <1>4, <2>6, <2>7, AddUp
  <2>9. z = now' - f.since /\ w = total' - f.low
    BY <1>4, <2>2, <2>3, <2>5, <2>6
  <2> QED
    BY <2>8, <2>9
<1>8. CASE Same(d, d')
  <2>1. /\ f \in d.cand /\ d'.n = d.n /\ d'.last = d.last /\ d'.state = d.state /\ d'.base2 = d.base2
    BY <1>8 DEF Same
  <2>2. d.n >= 1 /\ ((faults.resets <= 1 /\ d.base2 >= 2 * Idle) => Busied(f))
    BY <2>1 DEF Begun
  <2>3. ASSUME faults.resets <= 1, d.base2 >= 2 * Idle PROVE Busied(f)'
    <3>1. CASE d.state = "active"
      BY <2>1, <2>2, <2>3, <3>1 DEF Busied
    <3>2. CASE d.state # "active" /\ Idle * (now - f.since) < total - f.low
      BY <1>6, <2>1, <3>2 DEF Busied
    <3>3. CASE d.state # "active" /\ Suspect(f)
      <4>1. PICK q \in prev : q.resets = 1 /\ f.at <= q.at /\ Idle * (q.at - f.at) <= q.total - f.total
        BY <3>3 DEF Suspect
      <4>2. CASE prev' = prev
        BY <2>1, <3>3, <4>2 DEF Busied, Suspect
      <4>3. CASE prev' = {r}
        <5>1. r.resets = 1
          <6>1. q.resets \in Nat /\ q.resets <= faults.resets
            BY <1>3 DEF IsReading, Drawn
          <6> QED
            BY <1>4, <2>3, <4>1, <6>1
        <5>2. f.at <= r.at /\ Idle * (r.at - f.at) <= r.total - f.total
          <6>1. Drawn(f)'
            BY <1>2, <2>1
          <6> QED
            BY <1>4, <6>1 DEF Drawn
        <5>3. d'.n = 1 /\ f.resets = 1
          BY <2>1, <3>3 DEF Suspect
        <5> QED
          BY <2>1, <3>3, <4>3, <5>1, <5>2, <5>3 DEF Busied, Suspect
      <4> QED
        BY <1>4, <4>2, <4>3
    <3> QED
      BY <2>2, <2>3, <3>1, <3>2, <3>3 DEF Busied
  <2> QED
    BY <1>4, <2>1, <2>2, <2>3
<1>9. CASE Lasted(d, p, r, d')
  <2>1. /\ f \in d.cand /\ d'.n = d.n /\ d'.last = {r} /\ d.state = "active" /\ d'.state = "active"
        /\ d'.base2 = d.base2
    BY <1>9 DEF Lasted
  <2>2. d.n >= 1 /\ ((faults.resets <= 1 /\ d.base2 >= 2 * Idle) => Busied(f))
    BY <2>1 DEF Begun
  <2>3. PICK t \in d.last : TRUE
    BY <2>1 DEF Measuring, Detecting, Detects, HasReadings
  <2>4. ASSUME faults.resets <= 1, d.base2 >= 2 * Idle PROVE Idle * (r.at - f.since) < r.total - f.low
    <3>1. Idle * (t.at - f.since) < t.total - f.low
      BY <2>1, <2>2, <2>3, <2>4 DEF Busied
    <3>2. Drawn(t)' /\ IsReading(t) /\ IsReading(f)
      BY <1>2, <1>3, <2>1, <2>3
    <3>3. t.at \in Nat /\ t.total \in Nat /\ f.since \in Nat /\ f.low \in Nat
      BY <3>2 DEF IsReading
    <3>4. PICK x \in Int, y \in Int : x = t.at - f.since /\ y = t.total - f.low
      BY <3>3
    <3>5. PICK u \in Int, v \in Int : u = now' - t.at /\ v = total' - t.total
      BY <1>4, <3>3
    <3>6. Idle * u <= v /\ Idle * x < y
      BY <3>1, <3>2, <3>4, <3>5 DEF Drawn
    <3>7. PICK z \in Int, w \in Int : z = u + x /\ w = v + y
      OBVIOUS
    <3>8. Idle * z < w
      BY <1>4, <3>6, <3>7, AddUp
    <3>9. z = r.at - f.since /\ w = r.total - f.low
      BY <1>4, <3>3, <3>4, <3>5, <3>7
    <3> QED
      BY <3>8, <3>9
  <2> QED
    BY <1>4, <2>1, <2>2, <2>4 DEF Busied
<1>10. CASE Rose(d, p, r, d')
  <2>1. d.state # "active" /\ p # NoPower /\ 2 * p > d'.base2 /\ p \in Nat
    BY <1>10 DEF Rose, Sampled
  <2>2. d'.base2 >= 2 * Idle => p > Idle
    BY <1>4, <1>5, <2>1
  <2>3. CASE d.cand = {}
    <3>1. f = r /\ d'.n = 1 /\ d'.state # "active"
      BY <1>10, <2>3 DEF Rose
    <3>2. ASSUME faults.resets <= 1, d'.base2 >= 2 * Idle
          PROVE  Idle * (now' - r.since) < total' - r.low \/ Suspect(r)'
      <4>1. CASE power > Idle
        <5>1. /\ r.since \in Nat /\ r.low \in Nat
              /\ Idle * (now - r.since) <= total - r.low
          <6>1. r.since \in Nat /\ r.low \in Nat
            BY <1>2 DEF IsReading
          <6>2. CASE prev = {} /\ r.since = now /\ r.low = total
            BY <1>4, <6>1, <6>2
          <6>3. ASSUME NEW q \in prev, r.since = q.at, r.low = q.total
                PROVE  Idle * (now - r.since) <= total - r.low
            BY <1>3, <6>3 DEF Drawn
          <6> QED
            BY <6>1, <6>2, <6>3 DEF Sampled
        <5>2. PICK u \in Int, v \in Int : u = now - r.since /\ v = total - r.low
          BY <1>4, <5>1
        <5>3. Idle * u <= v /\ Idle * 1 < power
          BY <1>4, <4>1, <5>1, <5>2
        <5>4. PICK z \in Int, w \in Int : z = u + 1 /\ w = v + power
          BY <1>4
        <5>5. Idle * z < w
          BY <1>4, <5>3, <5>4, AddUp
        <5>6. z = now' - r.since /\ w = total' - r.low
          <6>1. /\ r.since \in Nat /\ r.low \in Nat /\ now \in Nat /\ total \in Nat /\ power \in Nat
                /\ now' = now + 1 /\ total' = total + power
            BY <1>4, <5>1
          <6> QED
            BY <5>2, <5>4, <6>1
        <5> QED
          BY <5>5, <5>6
      <4>2. ASSUME prev' = {r}, NEW q \in prev, r.since = q.at, r.low = q.total,
                   q.resets = faults.resets => Idle * (r.at - q.at) < r.total - q.total
            PROVE  Idle * (now' - r.since) < total' - r.low \/ Suspect(r)'
        <5>1. CASE q.resets = faults.resets
          BY <1>4, <4>2, <5>1
        <5>2. CASE q.resets # faults.resets
          <6>1. q.resets \in Nat /\ q.resets <= faults.resets
            BY <1>3 DEF IsReading, Drawn
          <6>2. r.resets = 1
            BY <1>4, <3>2, <5>2, <6>1
          <6>3. r.at <= r.at /\ Idle * (r.at - r.at) <= r.total - r.total
            <7>1. r.at - r.at = 0 /\ r.total - r.total = 0 /\ Idle * 0 = 0 /\ r.at <= r.at
              BY <1>2, <1>4 DEF IsReading
            <7> QED
              BY <7>1
          <6> QED
            BY <3>1, <4>2, <6>2, <6>3 DEF Suspect
        <5> QED
          BY <5>1, <5>2
      <4> QED
        BY <2>1, <2>2, <3>2, <4>1, <4>2, PowerIsDrawn
    <3> QED
      BY <1>4, <3>1, <3>2 DEF Busied
  <2>4. CASE d.cand # {}
    <3>1. /\ f \in d.cand /\ d'.n = d.n + 1 /\ d'.base2 = d.base2
          /\ d'.state = "active" => d'.last = {r}
      BY <1>10, <2>4 DEF Rose
    <3>2. d.n >= 1 /\ ((faults.resets <= 1 /\ d.base2 >= 2 * Idle) => Busied(f))
      BY <3>1 DEF Begun
    <3>3. ASSUME faults.resets <= 1, d.base2 >= 2 * Idle
          PROVE  Idle * (now' - f.since) < total' - f.low
      BY <1>6, <1>7, <2>1, <2>2, <3>1, <3>2, <3>3 DEF Busied
    <3> QED
      BY <1>4, <1>5, <3>1, <3>2, <3>3 DEF Busied
  <2> QED
    BY <2>3, <2>4
<1>11. CASE None(d')
  BY <1>11 DEF None
<1> QED
  BY <1>1, <1>8, <1>9, <1>10, <1>11

-----------------------------------------------------------------------------
(* Nothing but a sample begins a burst, and a reset is one more.           *)
LEMMA BegunKept ==
  ASSUME Measuring, Begun, UNCHANGED <<now, prev, total>>,
         d' = d \/ (d' = [d EXCEPT !.state = "stopped"] /\ rec # "none"),
         faults' = faults \/ faults'.resets = faults.resets + 1
  PROVE  Begun'
<1>1. /\ d'.cand = d.cand /\ d'.last = d.last /\ d'.n = d.n /\ d'.base2 = d.base2
      /\ (d'.state = "active") <=> (d.state = "active")
  <2>1. IsDetector(d)
    BY DEF Measuring, Detecting, Detects
  <2>2. CASE d' = d
    BY <2>2
  <2>3. CASE d' = [d EXCEPT !.state = "stopped"] /\ rec # "none"
    <3>1. d.state = "idle"
      BY <2>3 DEF Measuring, Detecting
    <3>2. d' = [state |-> "stopped", values |-> d.values, base2 |-> d.base2, spread4 |-> d.spread4,
                cand |-> d.cand, n |-> d.n, last |-> d.last, quiet |-> d.quiet]
      BY <2>1, <2>3 DEF IsDetector
    <3> QED
      BY <3>1, <3>2
  <2> QED
    BY <2>2, <2>3
<1> SUFFICES ASSUME NEW f \in d.cand
             PROVE  d.n >= 1 /\ ((faults'.resets <= 1 /\ d.base2 >= 2 * Idle) => Busied(f)')
  BY <1>1 DEF Begun
<1>2. d.n >= 1 /\ ((faults.resets <= 1 /\ d.base2 >= 2 * Idle) => Busied(f))
  BY DEF Begun
<1>3. f.resets \in Nat /\ f.resets <= faults.resets /\ faults.resets \in Nat
  BY DEF Measuring, Readings, IsReading, Drawn, Metered
<1>4. faults'.resets <= 1 => faults.resets <= 1 /\ (faults' = faults \/ f.resets # 1)
  BY <1>3
<1>5. Busied(f) => Busied(f)'
  BY <1>1 DEF Busied, Suspect
<1> QED
  BY <1>2, <1>4, <1>5

(* Every step keeps it.                                                    *)
LEMMA BegunStep ==
  ASSUME Onset >= 2, MeterInv, Begun, [Next]_vars PROVE Begun'
<1>1. Measuring
  BY DEF MeterInv
<1>2. CASE Sample
  <2>1. PICK power, r, p : Sampled(power, r, p)
    BY <1>1, <1>2, SampleIs DEF Measuring, Detecting
  <2> QED
    BY <1>1, <2>1, SampleBegins
<1>3. CASE Reset
  <2>1. UNCHANGED <<now, prev, total, d>> /\ faults' = [faults EXCEPT !.resets = @ + 1]
    BY <1>3 DEF Reset, service
  <2>2. faults'.resets = faults.resets + 1
    BY <1>1, <2>1 DEF Measuring, Metered
  <2> QED
    BY <1>1, <2>1, <2>2, BegunKept
<1>4. CASE ~Sample /\ ~Reset
  <2>1. UNCHANGED <<now, prev, total, faults>>
        /\ (d' = d \/ (d' = [d EXCEPT !.state = "stopped"] /\ rec # "none"))
    <3>1. CASE CheckOptIn \/ Insert \/ After
      BY <3>1 DEF CheckOptIn, Insert, After
    <3>2. ASSUME NEW h \in Handlers, OptIn(h) \/ OptOut(h) \/ CountLedger(h) \/ SeedDemo(h) \/ Clear(h)
          PROVE  UNCHANGED <<now, prev, total, faults, d>>
      <4>1. UNCHANGED unmeasured
        BY <3>2 DEF OptIn, OptOut, CountLedger, SeedDemo, Clear
      <4> QED
        BY <4>1 DEF unmeasured, service
    <3>3. CASE UNCHANGED vars
      BY <3>3 DEF vars, service
    <3> QED
      BY <1>4, <3>1, <3>2, <3>3 DEF Next
  <2> QED
    BY <1>1, <2>1, BegunKept
<1> QED
  BY <1>2, <1>3, <1>4

-----------------------------------------------------------------------------
(* All that the ledger and the meter keep.                                 *)
SavingsInv == LedgerInv /\ Measuring /\ Bursts

(* It is an invariant.                                                     *)
LEMMA SavingsStays == Spec => []SavingsInv
<1>1. Init => SavingsInv
  BY LedgerInit, MeterInit DEF SavingsInv
<1>2. SavingsInv /\ [Next]_vars => SavingsInv'
  <2> SUFFICES ASSUME SavingsInv, [Next]_vars PROVE SavingsInv'
    OBVIOUS
  <2>1. LedgerInv /\ MeterInv
    BY DEF SavingsInv, MeterInv, LedgerInv
  <2>2. LedgerInv'
    BY <2>1, LedgerStep
  <2>3. Measuring' /\ Bursts'
    BY <2>1, MeterStep
  <2> QED
    BY <2>2, <2>3 DEF SavingsInv
<1> QED
  BY <1>1, <1>2, PTL DEF Spec

(* The state of the service, its detector and its requests is well-formed, *)
(* whatever the counter does (WatchService, WatchDetector).                *)
THEOREM SavingsTyped == Spec => []TypeOK
<1>1. SavingsInv => TypeOK
  BY MeterInvIsEnough DEF SavingsInv, MeterInv, LedgerInv
<1> QED
  BY <1>1, SavingsStays, PTL

(* A burst never reports more than the ceiling, and what was drawn during  *)
(* it if the counter was not reset and wrapped once at most, for any       *)
(* range of the counter and any powers below the ceiling                   *)
(* (WatchDetector._close_segment).                                         *)
THEOREM SegmentsAreTrue == Spec => []SegmentIsTrue
<1>1. SavingsInv => SegmentIsTrue
  BY MeterInvIsEnough DEF SavingsInv, MeterInv, LedgerInv
<1> QED
  BY <1>1, SavingsStays, PTL

(* Three known powers end the calibration (WatchDetector.observe).         *)
THEOREM CalibrationEnds == Spec => []KnownPowerCalibrates
<1>1. SavingsInv => KnownPowerCalibrates
  BY MeterInvIsEnough DEF SavingsInv, MeterInv, LedgerInv
<1> QED
  BY <1>1, SavingsStays, PTL

(* One reset of the counter is not a burst, if a burst has to last for two *)
(* samples at least, as it has to by the defaults of app.py (2 s) and      *)
(* live.py (3 s) at a sample per second (WatchDetector.observe).           *)
THEOREM BurstsAreReal == ASSUME Onset >= 2 PROVE Spec => []BurstIsReal
<1>1. Init => Begun
  <2> SUFFICES ASSUME Init PROVE d.cand = {}
    BY DEF Begun
  <2> QED
    BY DEF Init, Detector
<1>2. SavingsInv /\ Begun /\ [Next]_vars => Begun'
  <2> SUFFICES ASSUME SavingsInv, Begun, [Next]_vars PROVE Begun'
    OBVIOUS
  <2>1. MeterInv
    BY DEF SavingsInv, MeterInv, LedgerInv
  <2> QED
    BY <2>1, BegunStep
<1>3. SavingsInv /\ Begun => BurstIsReal
  BY BegunIsEnough DEF SavingsInv
<1> QED
  BY <1>1, <1>2, <1>3, SavingsStays, PTL DEF Spec

-----------------------------------------------------------------------------
(* The sum of a column.                                                    *)
IsSum(g, column, n) == g = [i \in 0..n |-> IF i = 0 THEN 0 ELSE g[i - 1] + column[i]]

(* The function that Total defines is there, by the least number without   *)
(* one.                                                                    *)
LEMMA SumExists ==
  ASSUME NEW column, NEW n \in Nat
  PROVE  \E g : IsSum(g, column, n)
<1> DEFINE Bad == {k \in Nat : ~ \E g : IsSum(g, column, k)}
<1> SUFFICES ASSUME Bad # {} PROVE FALSE
  OBVIOUS
<1>1. PICK k \in Bad : \A m \in Bad : k <= m
  <2>1. Bad \in SUBSET Nat
    OBVIOUS
  <2> HIDE DEF Bad
  <2> QED
    BY <2>1, LeastOf
<1>2. k \in Nat /\ ~ \E g : IsSum(g, column, k)
  BY <1>1
<1>3. CASE k = 0
  <2> DEFINE g == [i \in 0..0 |-> 0]
  <2>1. g = [i \in 0..0 |-> IF i = 0 THEN 0 ELSE g[i - 1] + column[i]]
    OBVIOUS
  <2>2. IsSum(g, column, 0)
    BY <2>1 DEF IsSum
  <2> QED
    BY <1>2, <1>3, <2>2
<1>4. CASE k # 0
  <2>1. k - 1 \in Nat /\ ~(k <= k - 1)
    BY <1>2, <1>4
  <2>2. PICK g : IsSum(g, column, k - 1)
    BY <1>1, <2>1
  <2>3. g = [i \in 0..(k - 1) |-> IF i = 0 THEN 0 ELSE g[i - 1] + column[i]]
    BY <2>2 DEF IsSum
  <2> DEFINE h == [i \in 0..k |-> IF i = k THEN g[k - 1] + column[k] ELSE g[i]]
  <2>4. \A i \in 0..(k - 1) : h[i] = g[i] /\ g[i] = IF i = 0 THEN 0 ELSE g[i - 1] + column[i]
    BY <1>2, <2>3
  <2>5. \A i \in 0..k : h[i] = IF i = 0 THEN 0 ELSE h[i - 1] + column[i]
    <3> SUFFICES ASSUME NEW i \in 0..k PROVE h[i] = IF i = 0 THEN 0 ELSE h[i - 1] + column[i]
      OBVIOUS
    <3>1. CASE i = k
      <4>1. k - 1 \in 0..(k - 1) /\ h[k] = g[k - 1] + column[k]
        BY <1>2, <1>4
      <4> HIDE DEF h
      <4> QED
        BY <1>4, <2>4, <3>1, <4>1
    <3>2. CASE i # k
      <4>1. i \in 0..(k - 1) /\ (i # 0 => i - 1 \in 0..(k - 1))
        BY <1>2, <3>2
      <4> HIDE DEF h
      <4> QED
        BY <2>4, <4>1
    <3> QED
      BY <3>1, <3>2
  <2>6. h = [i \in 0..k |-> h[i]]
    OBVIOUS
  <2> HIDE DEF h
  <2>7. IsSum(h, column, k)
    BY <2>5, <2>6 DEF IsSum
  <2> QED
    BY <1>2, <2>7
<1> QED
  BY <1>3, <1>4

(* Total is the last of its sums.                                          *)
LEMMA TotalIs ==
  ASSUME NEW column, Len(ledger) \in Nat
  PROVE  \E g : IsSum(g, column, Len(ledger)) /\ Total(column) = g[Len(ledger)]
<1> DEFINE n == Len(ledger)
           sum == CHOOSE g : g = [i \in 0..n |-> IF i = 0 THEN 0 ELSE g[i - 1] + column[i]]
<1>1. Total(column) = sum[n]
  BY DEF Total
<1>2. \E g : g = [i \in 0..n |-> IF i = 0 THEN 0 ELSE g[i - 1] + column[i]]
  BY SumExists DEF IsSum
<1>3. IsSum(sum, column, n)
  BY <1>2 DEF IsSum
<1> HIDE DEF sum
<1> QED
  BY <1>1, <1>3

(* Three columns that compare place by place compare in their sums.        *)
LEMMA SumsCompare ==
  ASSUME NEW n \in Nat, NEW a, NEW b, NEW c, NEW x, NEW y, NEW z,
         IsSum(x, a, n), IsSum(y, b, n), IsSum(z, c, n),
         \A i \in 1..n : a[i] \in Int /\ b[i] \in Int /\ c[i] \in Int /\ a[i] >= b[i] - c[i]
  PROVE  /\ x[n] >= y[n] - z[n]
         /\ (\A i \in 1..n : a[i] = b[i] - c[i]) => x[n] = y[n] - z[n]
<1> DEFINE Equal == \A i \in 1..n : a[i] = b[i] - c[i]
           Holds(k) == /\ x[k] \in Int /\ y[k] \in Int /\ z[k] \in Int /\ x[k] >= y[k] - z[k]
                       /\ Equal => x[k] = y[k] - z[k]
           Bad == {k \in 0..n : ~Holds(k)}
<1>1. /\ \A i \in 0..n : x[i] = IF i = 0 THEN 0 ELSE x[i - 1] + a[i]
      /\ \A i \in 0..n : y[i] = IF i = 0 THEN 0 ELSE y[i - 1] + b[i]
      /\ \A i \in 0..n : z[i] = IF i = 0 THEN 0 ELSE z[i - 1] + c[i]
  BY DEF IsSum
<1>2. Bad = {}
  <2> SUFFICES ASSUME Bad # {} PROVE FALSE
    OBVIOUS
  <2>1. PICK k \in Bad : \A m \in Bad : k <= m
    <3>1. Bad \in SUBSET Nat
      OBVIOUS
    <3> HIDE DEF Bad
    <3> QED
      BY <3>1, LeastOf
  <2>2. k \in 0..n /\ ~Holds(k)
    BY <2>1
  <2>3. CASE k = 0
    <3>1. x[0] = 0 /\ y[0] = 0 /\ z[0] = 0
      BY <1>1, <2>2, <2>3
    <3> QED
      BY <2>2, <2>3, <3>1
  <2>4. CASE k # 0
    <3>1. k - 1 \in 0..n /\ ~(k <= k - 1) /\ k \in 1..n
      BY <2>2, <2>4
    <3>2. Holds(k - 1)
      BY <2>1, <3>1
    <3>3. x[k] = x[k - 1] + a[k] /\ y[k] = y[k - 1] + b[k] /\ z[k] = z[k - 1] + c[k]
      BY <1>1, <2>2, <2>4
    <3>4. a[k] \in Int /\ b[k] \in Int /\ c[k] \in Int /\ a[k] >= b[k] - c[k]
          /\ (Equal => a[k] = b[k] - c[k])
      BY <3>1
    <3>5. Holds(k)
      <4> HIDE DEF Equal
      <4> QED
        BY <3>2, <3>3, <3>4
    <3> QED
      BY <2>2, <3>5
  <2> QED
    BY <2>3, <2>4
<1>3. n \in 0..n
  OBVIOUS
<1>4. Holds(n)
  BY <1>2, <1>3
<1> QED
  BY <1>4

-----------------------------------------------------------------------------
(* A receipt.                                                              *)
IsMeasure(seg) == seg.runtime \in Nat /\ seg.energy \subseteq Nat /\ \A x, y \in seg.energy : x = y

(* A quotient of integers is one.                                          *)
LEMMA Quotient ==
  ASSUME NEW x \in Int, NEW m \in Nat \ {0} PROVE x \div m \in Int
BY Divided

(* A part of 41 percent is less than the whole.                            *)
LEMMA WholeIsMore == ASSUME NEW e \in Nat PROVE (e * 100) \div 41 \in Int /\ (e * 100) \div 41 >= e
OBVIOUS

(* A receipt from a curve adds up.                                         *)
LEMMA CurveSavingAdds ==
  ASSUME NEW seg, IsMeasure(seg), NEW c, {c.stock, c.config, c.stock_s, c.config_s} \subseteq Nat \ {0},
         NEW s, s = CurveSaving(seg, c)
  PROVE  /\ s.stock \in Int /\ s.saved \in Int /\ s.saved >= 0
         /\ Measured(seg) => s.saved = Positive(s.stock - Unit * Only(seg.energy))
<1> DEFINE known == Measured(seg)
           used == IF known THEN Unit * Only(seg.energy)
                   ELSE (seg.runtime * Unit * c.config) \div c.config_s
           stock == IF known THEN (used * c.stock) \div c.config
                    ELSE (seg.runtime * Unit * c.stock) \div c.stock_s
<1>1. s = [stock |-> stock, saved |-> Positive(stock - used)]
  BY DEF CurveSaving
<1>2. known => Only(seg.energy) \in Nat
  BY DEF Only, IsMeasure, Measured
<1>3. used \in Int
  <2>1. CASE known
    BY <1>2, <2>1 DEF Unit
  <2>2. CASE ~known
    <3>1. PICK x \in Int, m \in Nat \ {0} : x = seg.runtime * Unit * c.config /\ m = c.config_s
      BY DEF Unit, IsMeasure
    <3> QED
      BY <2>2, <3>1, Quotient
  <2> QED
    BY <2>1, <2>2
<1>4. stock \in Int
  <2>1. CASE known
    <3>1. PICK x \in Int, m \in Nat \ {0} : x = used * c.stock /\ m = c.config
      <4> HIDE DEF used
      <4> QED
        BY <1>3
    <3> QED
      BY <2>1, <3>1, Quotient
  <2>2. CASE ~known
    <3>1. PICK x \in Int, m \in Nat \ {0} : x = seg.runtime * Unit * c.stock /\ m = c.stock_s
      BY DEF Unit, IsMeasure
    <3> QED
      BY <2>2, <3>1, Quotient
  <2> QED
    BY <2>1, <2>2
<1>5. known => used = Unit * Only(seg.energy)
  OBVIOUS
<1> HIDE DEF used, stock
<1> QED
  BY <1>1, <1>3, <1>4, <1>5 DEF Positive

AddsUp(e, seg) ==
  /\ e.stock \in Int /\ e.saved \in Int /\ e.optimized \in Int
  /\ seg.energy # {0} => e.saved = Positive(e.stock - e.optimized)

(* Any receipt of a burst adds up.                                         *)
LEMMA ReceiptAdds ==
  ASSUME Metered, NEW n, IsMeasure(segments[n]), NEW e, e = Receipt(n)
  PROVE  e.kind = "watch" /\ e.n = n /\ AddsUp(e, segments[n])
<1>1. PICK seg : seg = segments[n]
  OBVIOUS
<1>2. PICK s : s = Saving(seg, setup.objective, setup.curve)
  OBVIOUS
<1>3. PICK joules, runtime : joules = seg.energy /\ runtime = seg.runtime
  OBVIOUS
<1>4. e = [kind |-> "watch", n |-> n, stock |-> s.stock, saved |-> s.saved,
           optimized |-> IF joules # {} THEN Unit * Only(joules) ELSE s.stock - s.saved]
  BY <1>1, <1>2, <1>3 DEF Receipt
<1>5. runtime \in Nat /\ joules \subseteq Nat /\ (\A x, y \in joules : x = y) /\ IsMeasure(seg)
  BY <1>1, <1>3 DEF IsMeasure
<1> DEFINE known == Measured(seg)
<1>6. known <=> \E x \in joules : x > 0
  BY <1>3 DEF Measured
<1>7. /\ joules # {} => Only(joules) \in joules /\ Only(joules) \in Nat
      /\ known => joules # {}
      /\ ~known => joules = {} \/ joules = {0}
  <2>1. joules # {} => Only(joules) \in joules
    BY DEF Only
  <2>2. known => joules # {}
    BY <1>6
  <2>3. ASSUME ~known, NEW x \in joules PROVE joules = {0}
    <3>1. ~(x > 0) /\ x \in Nat
      BY <1>5, <1>6, <2>3
    <3>2. x = 0
      BY <3>1
    <3> QED
      BY <1>5, <3>2
  <2> QED
    BY <1>5, <2>1, <2>2, <2>3
<1>8. /\ s.stock \in Int /\ s.saved \in Int
      /\ known => s.saved = Positive(s.stock - Unit * Only(joules))
      /\ joules = {} => s.saved >= 0
  <2>1. CASE setup.curve # {}
    <3>1. PICK c \in setup.curve : c = Only(setup.curve)
      BY <2>1 DEF Only
    <3>2. {c.stock, c.config, c.stock_s, c.config_s} \subseteq Nat \ {0}
      BY SetupsAssumption DEF Metered
    <3>3. s = CurveSaving(seg, c)
      BY <1>2, <2>1, <3>1 DEF Saving
    <3>4. /\ s.stock \in Int /\ s.saved \in Int /\ s.saved >= 0
          /\ known => s.saved = Positive(s.stock - Unit * Only(seg.energy))
      BY <1>3, <1>5, <1>7, <3>2, <3>3, CurveSavingAdds
    <3> QED
      BY <1>3, <3>4
  <2>2. CASE setup.curve = {}
    <3>0. PICK u : u = Unit * Only(joules)
      OBVIOUS
    <3>1. PICK flat \in Nat, shield \in Nat, less \in Nat :
            /\ u = Unit * Only(joules) /\ flat = runtime * 13325 /\ shield = runtime * 1435
            /\ less = (IF setup.objective = "deadline" THEN 4100 ELSE 2665)
      BY <1>5, <3>0
    <3>2. s = IF setup.objective = "performance"
              THEN [stock |-> IF joules # {} THEN u + shield ELSE flat, saved |-> shield]
              ELSE IF setup.objective \in {"deadline", "balanced"}
              THEN [stock |-> flat, saved |-> IF known THEN Positive(flat - u) ELSE runtime * less]
              ELSE IF known THEN [stock |-> (u * 100) \div 41, saved |-> (u * 100) \div 41 - u]
              ELSE [stock |-> flat, saved |-> runtime * 10332]
      BY <1>2, <1>3, <1>6, <2>2, <3>1 DEF Saving
    <3>3. joules # {} => u \in Nat
      BY <1>7, <3>1 DEF Unit
    <3>4. runtime * less \in Nat /\ runtime * 10332 \in Nat
      BY <1>5, <3>1
    <3>5. CASE setup.objective = "performance"
      BY <1>7, <3>1, <3>2, <3>3, <3>5 DEF Positive
    <3>6. CASE setup.objective \in {"deadline", "balanced"}
      BY <1>7, <3>1, <3>2, <3>3, <3>4, <3>6 DEF Positive
    <3>7. CASE setup.objective # "performance" /\ setup.objective \notin {"deadline", "balanced"} /\ known
      <4>1. (u * 100) \div 41 \in Int /\ (u * 100) \div 41 >= u
        BY <1>7, <3>3, <3>7, WholeIsMore
      <4>2. PICK w \in Int : w = (u * 100) \div 41
        BY <4>1
      <4> QED
        BY <1>7, <3>1, <3>2, <3>3, <3>7, <4>1, <4>2 DEF Positive
    <3>8. CASE setup.objective # "performance" /\ setup.objective \notin {"deadline", "balanced"} /\ ~known
      BY <1>7, <3>1, <3>2, <3>4, <3>8
    <3> QED
      BY <3>5, <3>6, <3>7, <3>8
  <2> QED
    BY <2>1, <2>2
<1>9. e.optimized \in Int /\ e.stock = s.stock /\ e.saved = s.saved /\ e.kind = "watch" /\ e.n = n
  BY <1>4, <1>7, <1>8 DEF Unit
<1>10. joules # {0} => e.saved = Positive(e.stock - e.optimized)
  <2>1. CASE known
    BY <1>4, <1>7, <1>8, <2>1
  <2>2. CASE joules = {}
    BY <1>4, <1>8, <2>2 DEF Positive
  <2> QED
    BY <1>7, <2>1, <2>2
<1> QED
  BY <1>1, <1>3, <1>8, <1>9, <1>10 DEF AddsUp

-----------------------------------------------------------------------------
(* The bursts can be added up, and so can what is in the ledger.           *)
Accounted ==
  /\ \A i \in DOMAIN segments : IsMeasure(segments[i])
  /\ \A i \in DOMAIN ledger :
       \/ /\ ledger[i].kind = "demo"
          /\ ledger[i].stock = 0 /\ ledger[i].saved = 0 /\ ledger[i].optimized = 0
       \/ /\ ledger[i].kind = "watch" /\ ledger[i].n \in DOMAIN segments
          /\ AddsUp(ledger[i], segments[ledger[i].n])

(* A burst that ends can be added up.                                      *)
LEMMA SegmentMeasures ==
  ASSUME Measuring, d.cand # {}, d.last # {}
  PROVE  IsMeasure(Segment(d))
<1>1. PICK f \in d.cand, t \in d.last : f = Only(d.cand) /\ t = Only(d.last)
  BY DEF Only
<1>2. PICK s : s = Segment(d)
  OBVIOUS
<1>3. s.runtime = t.at - f.at /\ s.energy = Energy(f.uj, t.uj, setup.range, t.at - f.at)
  BY <1>1, <1>2 DEF Segment
<1>4. IsReading(f) /\ IsReading(t) /\ f.at <= t.at /\ Metered
  BY <1>1 DEF Measuring, Readings, Between, Apart
<1>5. s.runtime \in Nat
  BY <1>3, <1>4 DEF IsReading
<1>6. \A e \in s.energy : \E a \in f.uj, b \in t.uj : e \in Delta(a, b, setup.range)
  BY <1>3 DEF Energy
<1>7. setup.range \in {{}, Wrap}
  BY <1>4, RangesAre
<1>8. \A e \in s.energy : e \in Nat
  <2> SUFFICES ASSUME NEW e \in s.energy PROVE e \in Nat
    OBVIOUS
  <2>1. PICK a \in f.uj, b \in t.uj : e \in Delta(a, b, setup.range)
    BY <1>6
  <2>2. a \in 0..(MaxRange - 1) /\ b \in 0..(MaxRange - 1)
    BY <1>4 DEF IsReading
  <2> QED
    BY <1>7, <2>1, <2>2, DeltaTyped
<1>9. \A x, y \in s.energy : x = y
  <2> SUFFICES ASSUME NEW x \in s.energy, NEW y \in s.energy PROVE x = y
    OBVIOUS
  <2>1. PICK a \in f.uj, b \in t.uj : x \in Delta(a, b, setup.range)
    BY <1>6
  <2>2. y \in Delta(a, b, setup.range)
    <3>1. PICK v \in f.uj, w \in t.uj : y \in Delta(v, w, setup.range)
      BY <1>6
    <3>2. v = a /\ w = b
      BY <1>4 DEF IsReading
    <3> QED
      BY <3>1, <3>2
  <2>3. CASE setup.range = {}
    BY <2>1, <2>2, <2>3 DEF Delta
  <2>4. CASE setup.range = Wrap
    BY <2>1, <2>2, <2>4 DEF Delta, Wrap
  <2> QED
    BY <1>7, <2>3, <2>4
<1> QED
  BY <1>2, <1>5, <1>8, <1>9 DEF IsMeasure

(* A segment is added behind the others, which stay what they are.         *)
LEMMA SampleAccounts ==
  ASSUME SavingsInv, Accounted, NEW power, NEW r, NEW p, Sampled(power, r, p), ledger' = ledger
  PROVE  Accounted'
<1>1. /\ segments' = IF Closes(d, p, r) THEN Append(segments, Segment(d)) ELSE segments
      /\ IsSeq(segments) /\ Measuring
  BY DEF Sampled, OnIdle, SavingsInv, LedgerInv, Typed
<1>2. CASE ~Closes(d, p, r)
  BY <1>1, <1>2 DEF Accounted
<1>3. CASE Closes(d, p, r)
  <2>1. d.cand # {} /\ d.last # {}
    BY <1>1, <1>3 DEF Measuring, Detecting, Detects, HasReadings, Closes
  <2>2. PICK s : s = Segment(d)
    OBVIOUS
  <2>3. IsMeasure(s)
    BY <1>1, <2>1, <2>2, SegmentMeasures
  <2>4. PICK t : t = Append(segments, s)
    OBVIOUS
  <2>5. /\ \A i \in DOMAIN segments : t[i] = segments[i]
        /\ t[Len(segments) + 1] = s
        /\ \A i \in DOMAIN t : i \in DOMAIN segments \/ i = Len(segments) + 1
        /\ DOMAIN segments \subseteq DOMAIN t
    <3>1. IsSeq(t) /\ Len(t) = Len(segments) + 1 /\ \A i \in 1..Len(segments) : t[i] = segments[i]
      BY <1>1, <2>4, Appended
    <3>2. t[Len(segments) + 1] = s
      BY <1>1, <2>4, Appended
    <3> QED
      BY <1>1, <3>1, <3>2 DEF IsSeq
  <2>6. segments' = t
    BY <1>1, <1>3, <2>2, <2>4
  <2>7. \A i \in DOMAIN t : IsMeasure(t[i])
    BY <2>3, <2>5 DEF Accounted
  <2> QED
    BY <2>5, <2>6, <2>7 DEF Accounted
<1> QED
  BY <1>2, <1>3

(* What is put behind the others of the ledger can be added up.            *)
LEMMA EntryAccounts ==
  ASSUME SavingsInv, Accounted, segments' = segments, NEW e, ledger' = Append(ledger, e),
         \/ e.kind = "demo" /\ e.stock = 0 /\ e.saved = 0 /\ e.optimized = 0
         \/ e.kind = "watch" /\ e.n \in DOMAIN segments /\ AddsUp(e, segments[e.n])
  PROVE  Accounted'
<1>1. IsSeq(ledger)
  BY DEF SavingsInv, LedgerInv, Typed
<1>2. IsSeq(ledger') /\ Len(ledger') = Len(ledger) + 1 /\ \A i \in 1..Len(ledger) : ledger'[i] = ledger[i]
  BY <1>1, Appended
<1>3. ledger'[Len(ledger) + 1] = e
  BY <1>1, Appended
<1>4. /\ \A i \in DOMAIN ledger : ledger'[i] = ledger[i]
      /\ \A i \in DOMAIN ledger' : i \in DOMAIN ledger \/ ledger'[i] = e
  BY <1>1, <1>2, <1>3 DEF IsSeq
<1> SUFFICES ASSUME NEW i \in DOMAIN ledger', NEW x, x = ledger'[i]
             PROVE  \/ x.kind = "demo" /\ x.stock = 0 /\ x.saved = 0 /\ x.optimized = 0
                    \/ x.kind = "watch" /\ x.n \in DOMAIN segments /\ AddsUp(x, segments[x.n])
  BY DEF Accounted
<1> QED
  BY <1>4 DEF Accounted

(* Every step keeps it.                                                    *)
LEMMA AccountedStep == SavingsInv /\ Accounted /\ [Next]_vars => Accounted'
<1> SUFFICES ASSUME SavingsInv, Accounted, [Next]_vars PROVE Accounted'
  OBVIOUS
<1>1. Metered /\ Measuring /\ Bursts /\ IsSeq(segments)
  BY DEF SavingsInv, Measuring, LedgerInv, Typed
<1>2. CASE Sample
  <2>1. PICK power, r, p : Sampled(power, r, p)
    BY <1>1, <1>2, SampleIs DEF Measuring, Detecting
  <2> QED
    BY <1>2, <2>1, SampleAccounts DEF Sample
<1>3. CASE Insert
  <2>1. PICK e, n : n = Len(segments) /\ e = Receipt(n)
    OBVIOUS
  <2>2. n \in DOMAIN segments
    BY <1>1, <1>3, <2>1 DEF Bursts, Insert, IsSeq
  <2>3. IsMeasure(segments[n])
    BY <2>2 DEF Accounted
  <2>4. e.kind = "watch" /\ e.n = n /\ AddsUp(e, segments[n])
    BY <1>1, <2>1, <2>3, ReceiptAdds
  <2>5. segments' = segments /\ ledger' = Append(ledger, e)
    BY <1>3, <2>1 DEF Insert
  <2> QED
    BY <2>2, <2>4, <2>5, EntryAccounts
<1>4. ASSUME NEW h \in Handlers, SeedDemo(h) PROVE Accounted'
  <2>1. PICK e : e = Demo(pc[h])
    OBVIOUS
  <2>2. e.kind = "demo" /\ e.stock = 0 /\ e.saved = 0 /\ e.optimized = 0
    BY <2>1 DEF Demo
  <2>3. segments' = segments /\ ledger' = Append(ledger, e)
    BY <1>4, <2>1 DEF SeedDemo, unmeasured, service
  <2> QED
    BY <2>2, <2>3, EntryAccounts
<1>5. ASSUME segments' = segments, ledger' = ledger \/ ledger' = <<>> PROVE Accounted'
  BY <1>5 DEF Accounted
<1>6. CASE Reset \/ CheckOptIn \/ After \/ UNCHANGED vars
  BY <1>5, <1>6 DEF Reset, CheckOptIn, After, vars, service
<1>7. ASSUME NEW h \in Handlers, OptIn(h) \/ OptOut(h) \/ CountLedger(h) \/ Clear(h) PROVE Accounted'
  BY <1>5, <1>7 DEF OptIn, OptOut, CountLedger, Clear, unmeasured, service
<1> QED
  BY <1>2, <1>3, <1>4, <1>6, <1>7 DEF Next

(* Entries that add up one by one add up together.                         *)
LEMMA AccountsAddUp == IsSeq(ledger) /\ Accounted => ReceiptsAddUp
<1> SUFFICES ASSUME IsSeq(ledger), Accounted PROVE ReceiptsAddUp
  OBVIOUS
<1> DEFINE n == Len(ledger)
           Sound(e) == e.kind = "watch" => segments[e.n].energy # {0}
           a == [i \in DOMAIN ledger |-> ledger[i].saved]
           b == [i \in DOMAIN ledger |-> ledger[i].stock]
           c == [i \in DOMAIN ledger |-> ledger[i].optimized]
<1>1. n \in Nat /\ DOMAIN ledger = 1..n
  BY DEF IsSeq
<1>2. \A i \in 1..n : /\ ledger[i].saved \in Int /\ ledger[i].stock \in Int /\ ledger[i].optimized \in Int
                      /\ Sound(ledger[i]) => ledger[i].saved = Positive(ledger[i].stock - ledger[i].optimized)
  <2> SUFFICES ASSUME NEW i \in 1..n, NEW e, e = ledger[i]
               PROVE  /\ e.saved \in Int /\ e.stock \in Int /\ e.optimized \in Int
                      /\ Sound(e) => e.saved = Positive(e.stock - e.optimized)
    OBVIOUS
  <2>1. CASE e.kind = "demo" /\ e.stock = 0 /\ e.saved = 0 /\ e.optimized = 0
    BY <2>1 DEF Positive
  <2>2. CASE e.kind = "watch" /\ AddsUp(e, segments[e.n])
    BY <2>2 DEF AddsUp
  <2> QED
    BY <1>1, <2>1, <2>2 DEF Accounted
<1>3. \A e \in ToSet(ledger) : Sound(e) => e.saved = Positive(e.stock - e.optimized)
  BY <1>1, <1>2 DEF ToSet
<1>4. ASSUME \A e \in ToSet(ledger) : Sound(e)
      PROVE  /\ Total(a) >= Total(b) - Total(c)
             /\ (\A e \in ToSet(ledger) : ~(e.optimized > e.stock)) => Total(a) = Total(b) - Total(c)
  <2>1. PICK x : IsSum(x, a, n) /\ Total(a) = x[n]
    BY <1>1, TotalIs
  <2>2. PICK y : IsSum(y, b, n) /\ Total(b) = y[n]
    BY <1>1, TotalIs
  <2>3. PICK z : IsSum(z, c, n) /\ Total(c) = z[n]
    BY <1>1, TotalIs
  <2>4. \A i \in 1..n : /\ a[i] \in Int /\ b[i] \in Int /\ c[i] \in Int /\ a[i] >= b[i] - c[i]
                        /\ ~(c[i] > b[i]) => a[i] = b[i] - c[i]
    <3> SUFFICES ASSUME NEW i \in 1..n
                 PROVE  /\ a[i] \in Int /\ b[i] \in Int /\ c[i] \in Int /\ a[i] >= b[i] - c[i]
                        /\ ~(c[i] > b[i]) => a[i] = b[i] - c[i]
      OBVIOUS
    <3>1. PICK e : e = ledger[i]
      OBVIOUS
    <3>2. e \in ToSet(ledger)
      BY <1>1, <3>1 DEF ToSet
    <3>3. e.saved \in Int /\ e.stock \in Int /\ e.optimized \in Int /\ e.saved = Positive(e.stock - e.optimized)
      BY <1>2, <1>4, <3>1, <3>2
    <3>4. a[i] = e.saved /\ b[i] = e.stock /\ c[i] = e.optimized
      BY <1>1, <3>1
    <3> HIDE DEF a, b, c
    <3> QED
      BY <3>3, <3>4 DEF Positive
  <2>5. \A i \in 1..n : c[i] = ledger[i].optimized /\ b[i] = ledger[i].stock /\ ledger[i] \in ToSet(ledger)
    BY <1>1 DEF ToSet
  <2> HIDE DEF a, b, c, n
  <2>6. /\ x[n] >= y[n] - z[n]
        /\ (\A i \in 1..n : a[i] = b[i] - c[i]) => x[n] = y[n] - z[n]
    BY <1>1, <2>1, <2>2, <2>3, <2>4, SumsCompare
  <2>7. (\A e \in ToSet(ledger) : ~(e.optimized > e.stock)) => \A i \in 1..n : a[i] = b[i] - c[i]
    BY <2>4, <2>5
  <2> QED
    BY <2>1, <2>2, <2>3, <2>6, <2>7
<1>5. Summary.saved = Total(a) /\ Summary.stock = Total(b) /\ Summary.optimized = Total(c)
  BY DEF Summary
<1> HIDE DEF a, b, c
<1> QED
  BY <1>3, <1>4, <1>5 DEF ReceiptsAddUp

(* What the receipts say was saved adds up, whatever was measured and      *)
(* whatever had to be estimated (WatchService._on_idle,                    *)
(* Store.get_savings_summary).                                             *)
THEOREM LedgerAddsUp == Spec => []ReceiptsAddUp
<1>1. Init => Accounted
  <2>1. DOMAIN <<>> = {}
    OBVIOUS
  <2> QED
    BY <2>1 DEF Init, Accounted
<1>2. SavingsInv /\ Accounted => ReceiptsAddUp
  BY AccountsAddUp DEF SavingsInv, LedgerInv, Typed
<1> QED
  BY <1>1, <1>2, AccountedStep, SavingsStays, PTL DEF Spec

-----------------------------------------------------------------------------
(* The programs that measure.                                              *)

(* What a step may be.                                                     *)
Ops == {"begin", "apply", "run", "sample", "restore", "end", "stop"}

(* A step that is reached only after begin_session has thrown.             *)
Bereft(p, i) == i >= 7 /\ \E asked \in Asks : p = Single(asked)

(* The label of a run says of boost what was asked for.                    *)
Honest(step) == step.asked.boost # "user" => step.label.boost = step.asked.boost

(* What the i-th step of p is, and which may come after it.                *)
Fits(p, i) ==
  /\ p[i].op \in Ops /\ p[i].asked \in Settings /\ (p[i].op \in {"run", "sample"} => Honest(p[i]))
  /\ p[i].catch \in {0} \cup DOMAIN p /\ (p[i].catch # 0 => p[p[i].catch].op # "end")
  /\ p[i].op # "stop" => i + 1 \in DOMAIN p
  /\ p[i].op \in {"begin", "apply"} => HasHelper(p) /\ ~Bereft(p, i)
  /\ p[i].op = "begin" => p[i + 1].op = "apply"
  /\ p[i].op = "apply" => p[i + 1].op \in {"run", "sample"} /\ p[i + 1].asked = p[i].asked
  /\ p[i].op \in {"run", "sample"} => p[i + 1].op # "end"
  /\ p[i].op \in {"run", "sample"} /\ HasHelper(p) /\ ~Bereft(p, i) => p[i + 1].op \in {"apply", "restore"}
  /\ p[i].op = "restore" => p[i + 1].op = "end"
  /\ p[i].op = "end" => p[i + 1].op = "stop" \/ (p[i + 1].op = "begin" /\ p = Benchmark)
  /\ p[i].op # "stop" /\ ~Bereft(p, i) => ~Bereft(p, i + 1)
  /\ p[i].op = "sample" <=> (p = Benchmark /\ p[i].op \in {"run", "sample"})

(* A program of n steps, the first of which begins or runs.                *)
Made(p, n) ==
  /\ DOMAIN p = 1..n /\ (\A i \in 1..n : Fits(p, i))
  /\ p[1].op \in {"begin", "run"} /\ (HasHelper(p) => p[1].op = "begin")

(* The settings that the programs ask for.                                 *)
LEMMA AskedAre ==
  /\ User \in Settings /\ BoostOn \in Settings /\ BoostOff \in Settings
  /\ BoostOn.boost = "on" /\ BoostOff.boost = "off" /\ User.boost = "user" /\ Capped.boost = "off"
  /\ \A asked \in Asks : asked \in Settings /\ (asked.boost # "user" => Custom(asked).boost = asked.boost)
BY AsksAssumption DEF User, BoostOn, BoostOff, Capped, Settings, Custom

(* Only a single run is one.                                               *)
LEMMA OthersHaveMore ==
  ASSUME NEW p, p[1].catch # 7
  PROVE  \A i : ~Bereft(p, i)
BY DEF Bereft, Single, Ask, Do

(* A comparison.                                                           *)
LEMMA CompareMade == Made(Compare, 8)
<1>1. Compare # Benchmark
  BY DEF Compare, Benchmark, Ask, Do
<1>2. \A i : ~Bereft(Compare, i)
  BY OthersHaveMore DEF Compare, Ask, Do
<1>3. DOMAIN Compare = 1..8
  BY DEF Compare
<1>4. HasHelper(Compare)
  BY DEF Compare, HasHelper, Apply, Do
<1>5. ASSUME NEW i \in 1..8 PROVE Fits(Compare, i)
  <2>1. CASE i \in {1, 2, 3, 4}
    BY <1>1, <1>2, <1>3, <1>4, <2>1, AskedAre DEF Fits, Honest, Compare, Ask, Apply, Do, End, Ops
  <2>2. CASE i \in {5, 6, 7, 8}
    BY <1>1, <1>2, <1>3, <1>4, <2>2, AskedAre DEF Fits, Honest, Compare, Ask, Apply, Do, End, Ops
  <2> QED
    BY <2>1, <2>2
<1> QED
  BY <1>3, <1>4, <1>5 DEF Made, Compare, Ask, Do

(* Without a helper a comparison is two runs.                              *)
LEMMA BareCompareMade ==
  ASSUME NEW p, p = <<Do("run", User, BoostOn, 0), Do("run", User, Capped, 0), End>>
  PROVE  Made(p, 3)
<1>1. p # Benchmark
  BY DEF Benchmark, Ask, Do
<1>2. \A i : ~Bereft(p, i)
  BY OthersHaveMore DEF Do
<1>3. DOMAIN p = 1..3
  OBVIOUS
<1>4. ~HasHelper(p)
  BY DEF HasHelper, Do, Ask, End
<1>5. ASSUME NEW i \in 1..3 PROVE Fits(p, i)
  BY <1>1, <1>2, <1>3, <1>4, AskedAre DEF Fits, Honest, Do, Ask, End, Ops
<1> QED
  BY <1>3, <1>4, <1>5 DEF Made, Do

(* A single run of the server, with and without a session.                 *)
LEMMA SingleMade ==
  ASSUME NEW asked \in Asks
  PROVE  Made(Single(asked), 8)
<1> DEFINE p == Single(asked)
<1>1. p # Benchmark
  BY DEF Single, Benchmark, Ask, Do
<1>2. DOMAIN p = 1..8
  BY DEF Single
<1>3. HasHelper(p)
  BY DEF Single, HasHelper, Apply, Do
<1>4. \A i \in 1..8 : Bereft(p, i) <=> i >= 7
  BY DEF Bereft
<1>5. ASSUME NEW i \in 1..8 PROVE Fits(p, i)
  <2>1. CASE i \in {1, 2, 3, 4}
    <3>1. ~Bereft(p, i) /\ ~Bereft(p, i + 1)
      BY <1>4, <2>1
    <3> QED
      BY <1>1, <1>2, <1>3, <2>1, <3>1, AskedAre DEF Fits, Honest, Single, Ask, Apply, Do, End, Ops
  <2>2. CASE i \in {5, 6}
    <3>1. ~Bereft(p, i) /\ (i = 5 => ~Bereft(p, i + 1))
      BY <1>4, <2>2
    <3> QED
      BY <1>1, <1>2, <1>3, <2>2, <3>1, AskedAre DEF Fits, Honest, Single, Ask, Apply, Do, End, Ops
  <2>3. CASE i \in {7, 8}
    <3>1. Bereft(p, i)
      BY <1>4, <2>3
    <3> QED
      BY <1>1, <1>2, <1>3, <2>3, <3>1, AskedAre DEF Fits, Honest, Single, Ask, Apply, Do, End, Ops
  <2> QED
    BY <2>1, <2>2, <2>3
<1> QED
  BY <1>2, <1>3, <1>5 DEF Made, Single, Ask, Do

(* A run for which nothing is applied.                                     *)
LEMMA BareMade == Made(Bare, 2)
<1>1. Bare # Benchmark
  BY DEF Bare, Benchmark, Ask, Do
<1>2. \A i : ~Bereft(Bare, i)
  BY OthersHaveMore DEF Bare, Do
<1>3. DOMAIN Bare = 1..2
  BY DEF Bare
<1>4. ~HasHelper(Bare)
  BY DEF Bare, HasHelper, Ask, Do, End
<1>5. ASSUME NEW i \in 1..2 PROVE Fits(Bare, i)
  BY <1>1, <1>2, <1>3, <1>4, AskedAre DEF Fits, Honest, Bare, Ask, Do, End, Ops
<1> QED
  BY <1>3, <1>4, <1>5 DEF Made, Bare, Do

(* The benchmark, with its two sessions.                                   *)
LEMMA BenchmarkMade == Made(Benchmark, 11)
<1>1. \A i : ~Bereft(Benchmark, i)
  BY OthersHaveMore DEF Benchmark, Ask, Do
<1>2. DOMAIN Benchmark = 1..11
  BY DEF Benchmark
<1>3. HasHelper(Benchmark)
  BY DEF Benchmark, HasHelper, Apply, Do
<1>4. ASSUME NEW i \in 1..11 PROVE Fits(Benchmark, i)
  <2>1. CASE i \in {1, 2, 3}
    BY <1>1, <1>2, <1>3, <2>1, AskedAre DEF Fits, Honest, Benchmark, Ask, Apply, Do, End, Ops
  <2>2. CASE i \in {4, 5, 6}
    BY <1>1, <1>2, <1>3, <2>2, AskedAre DEF Fits, Honest, Benchmark, Ask, Apply, Do, End, Ops
  <2>3. CASE i \in {7, 8, 9}
    BY <1>1, <1>2, <1>3, <2>3, AskedAre DEF Fits, Honest, Benchmark, Ask, Apply, Do, End, Ops
  <2>4. CASE i \in {10, 11}
    BY <1>1, <1>2, <1>3, <2>4, AskedAre DEF Fits, Honest, Benchmark, Ask, Apply, Do, End, Ops
  <2> QED
    BY <2>1, <2>2, <2>3, <2>4
<1> QED
  BY <1>2, <1>3, <1>4 DEF Made, Benchmark, Ask, Do

(* All programs are.                                                       *)
LEMMA ProgramMade ==
  ASSUME NEW p \in Programs
  PROVE  /\ DOMAIN p \subseteq Nat \ {0} /\ 1 \in DOMAIN p /\ p # <<>>
         /\ \A i \in DOMAIN p : Fits(p, i)
         /\ p[1].op \in {"begin", "run"} /\ (HasHelper(p) => p[1].op = "begin")
         /\ ~Bereft(p, 1)
<1>1. /\ CompareCli(TRUE) = Compare
      /\ CompareCli(FALSE) = <<Do("run", User, BoostOn, 0), Do("run", User, Capped, 0), End>>
  BY DEF CompareCli
<1>2. Made(p, 8) \/ Made(p, 3) \/ Made(p, 2) \/ Made(p, 11)
  BY <1>1, CompareMade, BareCompareMade, SingleMade, BareMade, BenchmarkMade DEF Programs
<1>3. PICK n \in {2, 3, 8, 11} : Made(p, n)
  BY <1>2
<1>4. DOMAIN p = 1..n /\ 1 \in DOMAIN p
  BY <1>3 DEF Made
<1> QED
  BY <1>3, <1>4 DEF Made, Bereft

-----------------------------------------------------------------------------
(* Types.                                                                  *)

(* The helper, its watchdog and the counter.                               *)
HelperTyped ==
  /\ lease \in BOOLEAN /\ hw \in Settings /\ kept \subseteq Settings /\ lost \in BOOLEAN
  /\ age \in 0..Timeout /\ wd \in {"sleep", "decided"} /\ count \in 0..(MaxRange - 1)

(* The programs and their runs.                                            *)
Columns ==
  /\ prog \in [Clients -> Programs \cup {<<>>}] /\ place \in [Clients -> Nat]
  /\ source \in [Clients -> Sources \cup {"none"}]
  /\ phase \in [Clients -> {"ready", "running", "reported"}]
  /\ from \in [Clients -> SUBSET Nat] /\ last \in [Clients -> SUBSET Nat]
  /\ energy \in [Clients -> SUBSET Int] /\ span \in [Clients -> 0..Long]
  /\ under \in [Clients -> SUBSET Settings] /\ drawn \in [Clients -> Nat]
  /\ whole \in [Clients -> BOOLEAN]
  /\ spent \in [Clients -> 0..Timeout] /\ alone \in [Clients -> BOOLEAN]
  /\ broken \in [Clients -> BOOLEAN]

(* A program that has started is at one of its steps, and has a run only   *)
(* at one that measures.                                                   *)
AtStep(c) ==
  /\ place[c] # Stopped => prog[c] \in Programs /\ place[c] \in DOMAIN prog[c]
  /\ phase[c] # "ready" => Measures(c)
  /\ Bereft(prog[c], place[c]) => broken[c]

(* Together.                                                               *)
MeasureTyped == HelperTyped /\ Columns /\ \A c \in Clients : AtStep(c)

(* The step that a program is at.                                          *)
LEMMA StepIs ==
  ASSUME MeasureTyped, NEW c \in Clients, place[c] # Stopped
  PROVE  /\ prog[c] \in Programs /\ place[c] \in DOMAIN prog[c] /\ place[c] \in Nat \ {0}
         /\ Step(c) = prog[c][place[c]] /\ Fits(prog[c], place[c])
<1>1. prog[c] \in Programs /\ place[c] \in DOMAIN prog[c]
  BY DEF MeasureTyped, AtStep
<1> QED
  BY <1>1, ProgramMade DEF Step

(* What any step does to the helper.                                       *)
HelperMove ==
  \/ UNCHANGED helper
  \/ H!Open \/ H!Drop \/ H!Apply \/ PutBack
  \/ hw' = hw /\ lost' = TRUE /\ H!Release

(* The helper keeps its types.                                             *)
LEMMA MoveTyped ==
  ASSUME HelperTyped, HelperMove
  PROVE  lease' \in BOOLEAN /\ hw' \in Settings /\ kept' \subseteq Settings /\ lost' \in BOOLEAN
BY DEF HelperTyped, HelperMove, helper, H!Open, H!Drop, H!Apply, PutBack, H!Release

(* What a call of the helper does.                                         *)
LEMMA OperationIs ==
  ASSUME Columns, NEW c \in Clients, Operation(c)
  PROVE  /\ HelperMove /\ place[c] # Stopped
         /\ Step(c).op \in {"begin", "apply", "restore", "end"}
         /\ age' \in {age, 0} /\ spent' \in {spent, [spent EXCEPT ![c] = 0]}
<1>1. CASE BeginSession(c)
  BY <1>1 DEF BeginSession, At, HelperMove, helper
<1>2. CASE ApplyConfiguration(c)
  BY <1>2 DEF ApplyConfiguration, At, HelperMove, helper
<1>3. CASE Restore(c)
  BY <1>3 DEF Restore, At, HelperMove, helper
<1>4. CASE EndSession(c)
  BY <1>4 DEF EndSession, At, HelperMove, helper
<1> QED
  BY <1>1, <1>2, <1>3, <1>4 DEF Operation

(* A call, thrown or not, and where its program goes.                      *)
CallsTo(c, to) ==
  /\ place[c] # Stopped /\ Step(c).op \in {"begin", "apply", "restore", "end"} /\ phase[c] = "ready"
  /\ HelperMove /\ age' \in {age, 0} /\ spent' \in {spent, [spent EXCEPT ![c] = 0]}
  /\ Goto(c, to) /\ Undergo
  /\ UNCHANGED <<wd, count, prog, source, run, alone>>

(* A call that is answered goes on to the next step.                       *)
LEMMA CallIs ==
  ASSUME MeasureTyped, NEW c \in Clients, Call(c)
  PROVE  CallsTo(c, place[c] + 1) /\ broken' = broken /\ place[c] + 1 \in DOMAIN prog[c]
<1>1. Operation(c) /\ Goto(c, place[c] + 1) /\ Undergo
      /\ UNCHANGED <<wd, count, prog, source, run, alone, broken>>
  BY DEF Call
<1>2. /\ HelperMove /\ place[c] # Stopped
      /\ Step(c).op \in {"begin", "apply", "restore", "end"}
      /\ age' \in {age, 0} /\ spent' \in {spent, [spent EXCEPT ![c] = 0]}
  BY <1>1, OperationIs DEF MeasureTyped
<1>3. phase[c] = "ready" /\ place[c] + 1 \in DOMAIN prog[c]
  BY <1>2, StepIs DEF MeasureTyped, AtStep, Measures, Fits
<1> QED
  BY <1>1, <1>2, <1>3 DEF CallsTo

(* One that throws goes to where it is caught.                             *)
LEMMA ThrowIs ==
  ASSUME MeasureTyped, NEW c \in Clients, CallThrows(c)
  PROVE  /\ CallsTo(c, Step(c).catch) /\ broken' = [broken EXCEPT ![c] = TRUE]
         /\ Step(c).catch \in {0} \cup DOMAIN prog[c]
<1>1. Goto(c, Step(c).catch) /\ Undergo /\ broken' = [broken EXCEPT ![c] = TRUE]
      /\ UNCHANGED <<wd, count, prog, source, run, alone>>
  BY DEF CallThrows
<1>2. /\ HelperMove /\ place[c] # Stopped
      /\ Step(c).op \in {"begin", "apply", "restore", "end"}
      /\ age' \in {age, 0} /\ spent' \in {spent, [spent EXCEPT ![c] = 0]}
  <2>1. CASE Operation(c)
    BY <2>1, OperationIs DEF MeasureTyped
  <2>2. CASE UNCHANGED <<helper, age, spent>>
    BY <2>2 DEF CallThrows, HelperMove, helper, Operation, BeginSession, ApplyConfiguration, Restore, EndSession, At
  <2> QED
    BY <2>1, <2>2 DEF CallThrows
<1>3. phase[c] = "ready" /\ Step(c).catch \in {0} \cup DOMAIN prog[c]
  BY <1>2, StepIs DEF MeasureTyped, AtStep, Measures, Fits
<1> QED
  BY <1>1, <1>2, <1>3 DEF CallsTo

(* Who stays where it is keeps its place in its program.                   *)
LEMMA Stays ==
  ASSUME NEW c \in Clients, AtStep(c), prog'[c] = prog[c], place'[c] = place[c],
         phase'[c] = "ready" \/ phase'[c] = phase[c] \/ Measures(c), broken[c] => broken'[c]
  PROVE  AtStep(c)'
BY DEF AtStep, Measures, Step

(* It keeps it too when it goes to another step with nothing measured.     *)
LEMMA Goes ==
  ASSUME NEW c \in Clients, phase'[c] = "ready", Bereft(prog'[c], place'[c]) => broken'[c],
         place'[c] # Stopped => prog'[c] \in Programs /\ place'[c] \in DOMAIN prog'[c]
  PROVE  AtStep(c)'
BY DEF AtStep

(* A call keeps the types.                                                 *)
LEMMA CallTyped ==
  ASSUME MeasureTyped, NEW c \in Clients, NEW to \in {0} \cup DOMAIN prog[c], CallsTo(c, to),
         broken' = broken \/ broken' = [broken EXCEPT ![c] = TRUE],
         Bereft(prog[c], to) => broken'[c]
  PROVE  MeasureTyped'
<1>1. HelperTyped'
  <2>1. lease' \in BOOLEAN /\ hw' \in Settings /\ kept' \subseteq Settings /\ lost' \in BOOLEAN
    BY MoveTyped DEF MeasureTyped, CallsTo
  <2>2. age' \in 0..Timeout /\ wd' = wd /\ count' = count
    BY MeasureAssumption DEF MeasureTyped, HelperTyped, CallsTo
  <2> QED
    BY <2>1, <2>2 DEF MeasureTyped, HelperTyped
<1>2. prog[c] \in Programs /\ to \in Nat
  BY StepIs, ProgramMade DEF MeasureTyped, CallsTo
<1>3. /\ UNCHANGED <<prog, source, phase, from, last, energy, span, drawn, whole, alone>>
      /\ place' = [place EXCEPT ![c] = to] /\ spent' \in {spent, [spent EXCEPT ![c] = 0]}
      /\ under' = [o \in Clients |->
                     IF alone[o] /\ Running(o) THEN under[o] \cup {hw'} ELSE under[o]]
  BY DEF CallsTo, run, Goto, Undergo
<1>4. Columns'
  <2>1. spent' \in [Clients -> 0..Timeout]
    <3>1. spent \in [Clients -> 0..Timeout] /\ 0 \in 0..Timeout
      BY MeasureAssumption DEF MeasureTyped, Columns
    <3>2. [spent EXCEPT ![c] = 0] \in [Clients -> 0..Timeout]
      BY <3>1
    <3> QED
      BY <1>3, <3>1, <3>2
  <2>2. under' \in [Clients -> SUBSET Settings]
    <3>1. hw' \in Settings /\ \A o \in Clients : under[o] \subseteq Settings
      BY <1>1 DEF HelperTyped, MeasureTyped, Columns
    <3> QED
      BY <1>3, <3>1
  <2>3. place' \in [Clients -> Nat] /\ broken' \in [Clients -> BOOLEAN]
    BY <1>2, <1>3 DEF MeasureTyped, Columns
  <2> QED
    BY <1>3, <2>1, <2>2, <2>3 DEF MeasureTyped, Columns
<1>5. ASSUME NEW o \in Clients PROVE AtStep(o)'
  <2>1. CASE o = c
    <3>1. place'[c] = to /\ phase'[c] = "ready" /\ prog'[c] = prog[c]
      BY <1>3 DEF CallsTo, MeasureTyped, Columns
    <3> QED
      BY <1>2, <2>1, <3>1, Goes DEF Stopped
  <2>2. CASE o # c
    <3>1. place'[o] = place[o] /\ broken'[o] = broken[o]
      BY <1>3, <2>2 DEF MeasureTyped, Columns
    <3> QED
      BY <1>3, <3>1, Stays DEF MeasureTyped
  <2> QED
    BY <2>1, <2>2
<1> QED
  BY <1>1, <1>4, <1>5 DEF MeasureTyped

(* Programs start, ...                                                     *)
LEMMA StartTyped ==
  ASSUME MeasureTyped, NEW c \in Clients, Start(c)
  PROVE  MeasureTyped'
<1>1. PICK p \in Programs, s \in Sources :
        prog' = [prog EXCEPT ![c] = p] /\ source' = [source EXCEPT ![c] = s]
  BY DEF Start
<1>2. /\ UNCHANGED <<lease, hw, kept, lost, age, wd, count, phase, from, last, energy, span, drawn, whole, under, spent, broken>>
      /\ prog[c] = <<>> /\ place' = [place EXCEPT ![c] = 1]
  BY DEF Start, helper, run, Goto
<1>3. place[c] = Stopped /\ phase[c] = "ready"
  BY <1>2, ProgramMade DEF MeasureTyped, AtStep, Measures, Columns
<1>4. alone' \in [Clients -> BOOLEAN]
  <2> DEFINE rest == ~lease /\ kept = {} /\ wd = "sleep" /\ \A o \in Clients : place[o] = Stopped
             holds(o) == IF o = c THEN rest ELSE alone[o] /\ place[o] = Stopped
  <2>1. alone' = [o \in Clients |-> holds(o)]
    BY DEF Start
  <2>2. \A o \in Clients : holds(o) \in BOOLEAN
    OBVIOUS
  <2> HIDE DEF holds
  <2> QED
    BY <2>1, <2>2
<1>5. HelperTyped' /\ Columns'
  BY <1>1, <1>2, <1>4 DEF MeasureTyped, HelperTyped, Columns
<1>6. ASSUME NEW o \in Clients PROVE AtStep(o)'
  <2>1. CASE o = c
    <3>1. prog'[c] = p /\ place'[c] = 1 /\ phase'[c] = "ready"
      BY <1>1, <1>2, <1>3 DEF MeasureTyped, Columns
    <3> QED
      BY <2>1, <3>1, Goes, ProgramMade
  <2>2. CASE o # c
    BY <1>1, <1>2, <2>2, Stays DEF MeasureTyped, Columns
  <2> QED
    BY <2>1, <2>2
<1> QED
  BY <1>5, <1>6 DEF MeasureTyped

(* A reading is what the counter shows, or what stands in for it.          *)
LEMMA ReadingIs ==
  ASSUME NEW c, NEW uj \in 0..(MaxRange - 1), NEW reading \in Reads(c, uj)
  PROVE  /\ reading \subseteq 0..(MaxRange - 1) /\ reading \subseteq Nat
         /\ \A x, y \in reading : x = y
         /\ IF source[c] = "synthetic" THEN reading = {MaxRange - 1} ELSE reading \subseteq {uj}
BY MeterAssumption DEF Reads

(* The counter stays in its range.                                         *)
LEMMA CounterTyped ==
  ASSUME HelperTyped, NEW power \in Powers
  PROVE  Advance(count, power) \in 0..(MaxRange - 1) /\ power \in Nat /\ power <= Ceiling /\ power > 0
<1>1. count \in Int /\ power \in Nat /\ power <= Ceiling /\ power > 0
  BY MeasureAssumption, MeterAssumption DEF HelperTyped
<1>2. count + power \in Int
  BY <1>1
<1>3. (count + power) % MaxRange \in 0..(MaxRange - 1)
  BY <1>2, MeterAssumption, Divided
<1> QED
  BY <1>1, <1>3 DEF Advance

(* ... launch their runs, ...                                              *)
LEMMA LaunchTyped ==
  ASSUME MeasureTyped, NEW c \in Clients, Launch(c)
  PROVE  MeasureTyped'
<1>1. count' \in 0..(MaxRange - 1)
  BY StartsAssumption DEF Launch, MeasureTyped, HelperTyped
<1>2. PICK reading \in Reads(c, count') :
        from' = [from EXCEPT ![c] = reading] /\ last' = [last EXCEPT ![c] = reading]
  BY DEF Launch
<1>3. reading \subseteq Nat
  BY <1>1, <1>2, ReadingIs
<1>4. /\ UNCHANGED <<lease, hw, kept, lost, age, wd, prog, place, source, energy, whole, spent, alone, broken>>
      /\ phase' = [phase EXCEPT ![c] = "running"] /\ span' = [span EXCEPT ![c] = 0]
      /\ under' = [under EXCEPT ![c] = IF alone[c] THEN {hw} ELSE {}]
      /\ drawn' = [drawn EXCEPT ![c] = 0]
      /\ Measures(c)
  BY DEF Launch, helper, history
<1>5. (IF alone[c] THEN {hw} ELSE {}) \in SUBSET Settings /\ 0 \in 0..Long /\ 0 \in Nat
  BY MeasureAssumption DEF MeasureTyped, HelperTyped
<1>6. HelperTyped' /\ Columns'
  BY <1>1, <1>2, <1>3, <1>4, <1>5 DEF MeasureTyped, HelperTyped, Columns
<1>7. ASSUME NEW o \in Clients PROVE AtStep(o)'
  BY <1>4, Stays DEF MeasureTyped, Columns
<1> QED
  BY <1>6, <1>7 DEF MeasureTyped

(* ... report what they drew, ...                                          *)
LEMMA EnergyTyped ==
  ASSUME MeasureTyped, NEW c \in Clients, NEW reading \in Reads(c, count)
  PROVE  /\ TotalEnergy(c, reading) \subseteq Int
         /\ Energy(from[c], reading, Wrap, span[c]) \subseteq Int
<1>1. reading \subseteq Int /\ from[c] \subseteq Int /\ last[c] \subseteq Int
  <2>1. reading \subseteq Nat
    BY ReadingIs DEF MeasureTyped, HelperTyped
  <2> QED
    BY <2>1 DEF MeasureTyped, Columns
<1>2. TotalEnergy(c, reading) \subseteq Int
  <2> DEFINE Up(readings) == UNION {{b - a : b \in {x \in readings : x > a}} : a \in from[c]}
  <2>1. ASSUME NEW readings \in SUBSET Int PROVE Up(readings) \subseteq Int
    BY <1>1
  <2>2. Up(reading) \subseteq Int /\ Up(last[c]) \subseteq Int
    BY <1>1, <2>1
  <2>3. TotalEnergy(c, reading) \in {Up(reading), Up(last[c]), {0}}
    BY DEF TotalEnergy
  <2> HIDE DEF Up
  <2> QED
    BY <2>2, <2>3
<1>3. ASSUME NEW a \in from[c], NEW b \in reading PROVE Delta(a, b, Wrap) \subseteq Int
  <2>1. Delta(a, b, Wrap) = {(b - a) % MaxRange}
    BY DEF Delta, Wrap
  <2>2. PICK t \in Int : t = b - a
    BY <1>1
  <2>3. t % MaxRange \in Int
    BY MeterAssumption, Divided
  <2> QED
    BY <2>1, <2>2, <2>3
<1> QED
  BY <1>2, <1>3 DEF Energy

(* The counter keeps its range when a run leaves it.                       *)
LEMMA LeaveTyped ==
  ASSUME HelperTyped, NEW c \in Clients, Leave(c)
  PROVE  count' \in 0..(MaxRange - 1)
BY MeterAssumption DEF HelperTyped, Leave

(* ... and so does the program that reports, ...                           *)
LEMMA ReportTyped ==
  ASSUME MeasureTyped, NEW c \in Clients, Report(c)
  PROVE  MeasureTyped'
<1>1. PICK e \in SUBSET Int, w \in BOOLEAN :
        energy' = [energy EXCEPT ![c] = e] /\ whole' = [whole EXCEPT ![c] = w]
  <2>1. PICK reading \in Reads(c, count) :
          /\ whole' = [whole EXCEPT ![c] = Whole(c, reading)]
          /\ energy' = [energy EXCEPT ![c] = IF At(c, "sample") THEN TotalEnergy(c, reading)
                                             ELSE Energy(from[c], reading, Wrap, span[c])]
    BY DEF Report
  <2>2. Whole(c, reading) \in BOOLEAN
    BY DEF Whole
  <2> QED
    BY <2>1, <2>2, EnergyTyped
<1>2. /\ UNCHANGED <<lease, hw, kept, lost, age, wd, prog, place, source, under, drawn, spent, alone, broken>>
      /\ phase' = [phase EXCEPT ![c] = "reported"] /\ span' = [span EXCEPT ![c] = 0]
      /\ from' = [from EXCEPT ![c] = {}] /\ last' = [last EXCEPT ![c] = {}]
      /\ Measures(c) /\ Leave(c)
  BY DEF Report, helper, history
<1>3. count' \in 0..(MaxRange - 1) /\ 0 \in 0..Long
  BY <1>2, LeaveTyped, MeasureAssumption DEF MeasureTyped
<1>4. HelperTyped' /\ Columns'
  BY <1>1, <1>2, <1>3 DEF MeasureTyped, HelperTyped, Columns
<1>5. ASSUME NEW o \in Clients PROVE AtStep(o)'
  BY <1>2, Stays DEF MeasureTyped, Columns
<1> QED
  BY <1>4, <1>5 DEF MeasureTyped

(* ... go on, ...                                                          *)
LEMMA NextRunTyped ==
  ASSUME MeasureTyped, NEW c \in Clients, NextRun(c)
  PROVE  MeasureTyped'
<1>1. /\ UNCHANGED <<lease, hw, kept, lost, age, wd, count, prog, source, from, last, span, spent, alone, broken>>
      /\ phase' = [phase EXCEPT ![c] = "ready"] /\ place' = [place EXCEPT ![c] = place[c] + 1]
      /\ energy' = [energy EXCEPT ![c] = {}] /\ drawn' = [drawn EXCEPT ![c] = 0]
      /\ under' = [under EXCEPT ![c] = {}] /\ whole' = [whole EXCEPT ![c] = FALSE]
      /\ Measures(c)
  BY DEF NextRun, helper, history, Goto
<1>2. /\ prog[c] \in Programs /\ place[c] + 1 \in DOMAIN prog[c] /\ place[c] + 1 \in Nat
      /\ Bereft(prog[c], place[c] + 1) => Bereft(prog[c], place[c])
  BY <1>1, StepIs DEF Measures, Fits
<1>3. HelperTyped' /\ Columns'
  BY <1>1, <1>2 DEF MeasureTyped, HelperTyped, Columns
<1>4. ASSUME NEW o \in Clients PROVE AtStep(o)'
  <2>1. CASE o = c
    <3>1. place'[c] = place[c] + 1 /\ phase'[c] = "ready" /\ prog'[c] = prog[c] /\ broken'[c] = broken[c]
      BY <1>1 DEF MeasureTyped, Columns
    <3>2. Bereft(prog[c], place[c]) => broken[c]
      BY DEF MeasureTyped, AtStep
    <3> QED
      BY <1>2, <2>1, <3>1, <3>2, Goes
  <2>2. CASE o # c
    BY <1>1, <2>2, Stays DEF MeasureTyped, Columns
  <2> QED
    BY <2>1, <2>2
<1> QED
  BY <1>3, <1>4 DEF MeasureTyped

(* ... and stop.                                                           *)
LEMMA StopTyped ==
  ASSUME MeasureTyped, NEW c \in Clients, Stop(c)
  PROVE  MeasureTyped'
<1>1. /\ UNCHANGED <<lease, hw, kept, lost, age, wd, prog, source, spent, alone>>
      /\ phase' = [phase EXCEPT ![c] = "ready"] /\ place' = [place EXCEPT ![c] = 0]
      /\ from' = [from EXCEPT ![c] = {}] /\ last' = [last EXCEPT ![c] = {}]
      /\ energy' = [energy EXCEPT ![c] = {}] /\ span' = [span EXCEPT ![c] = 0]
      /\ under' = [under EXCEPT ![c] = {}] /\ whole' = [whole EXCEPT ![c] = FALSE]
      /\ drawn' = [drawn EXCEPT ![c] = 0]
      /\ broken' = [broken EXCEPT ![c] = broken[c] \/ Step(c).op # "stop"]
      /\ Leave(c)
  BY DEF Stop, helper, Goto, Stopped
<1>2. count' \in 0..(MaxRange - 1) /\ 0 \in 0..Long
  BY <1>1, LeaveTyped, MeasureAssumption DEF MeasureTyped
<1>3. (broken[c] \/ Step(c).op # "stop") \in BOOLEAN
  OBVIOUS
<1>4. HelperTyped' /\ Columns'
  BY <1>1, <1>2, <1>3 DEF MeasureTyped, HelperTyped, Columns
<1>5. ASSUME NEW o \in Clients PROVE AtStep(o)'
  <2>1. CASE o = c
    <3>1. place'[c] = 0 /\ phase'[c] = "ready"
      BY <1>1 DEF MeasureTyped, Columns
    <3> QED
      BY <2>1, <3>1, Goes DEF Bereft, Stopped
  <2>2. CASE o # c
    BY <1>1, <2>2, Stays DEF MeasureTyped, Columns
  <2> QED
    BY <2>1, <2>2
<1> QED
  BY <1>4, <1>5 DEF MeasureTyped

(* A second passes for everybody who runs.                                 *)
LEMMA TickTyped ==
  ASSUME MeasureTyped, Tick
  PROVE  MeasureTyped'
<1>1. PICK power \in Powers :
        /\ count' = Advance(count, power)
        /\ drawn' = [c \in Clients |-> drawn[c] + IF Running(c) THEN power ELSE 0]
        /\ last' \in [Clients -> UNION {Followed(c, Advance(count, power)) : c \in Clients}]
        /\ \A c \in Clients : last'[c] \in Followed(c, Advance(count, power))
  BY DEF Tick
<1>2. /\ \A c \in Clients : Running(c) => span[c] < Long
      /\ age' = IF Beats THEN 0 ELSE IF age < Timeout THEN age + 1 ELSE age
      /\ span' = [c \in Clients |-> IF Running(c) THEN span[c] + 1 ELSE span[c]]
      /\ spent' = [c \in Clients |->
                     IF Running(c) /\ spent[c] < Timeout THEN spent[c] + 1 ELSE spent[c]]
      /\ UNCHANGED <<lease, hw, kept, lost, wd, prog, place, source, phase, from, energy, under, whole, alone, broken>>
  BY DEF Tick, helper
<1>3. count' \in 0..(MaxRange - 1) /\ power \in Nat
  BY <1>1, CounterTyped DEF MeasureTyped
<1>4. age' \in 0..Timeout
  BY <1>2, MeasureAssumption DEF MeasureTyped, HelperTyped
<1>5. drawn' \in [Clients -> Nat]
  <2>1. ASSUME NEW c \in Clients PROVE drawn[c] + (IF Running(c) THEN power ELSE 0) \in Nat
    BY <1>3 DEF MeasureTyped, Columns
  <2> QED
    BY <1>1, <2>1
<1>6. span' \in [Clients -> 0..Long]
  BY <1>2, MeasureAssumption DEF MeasureTyped, Columns
<1>7. spent' \in [Clients -> 0..Timeout]
  BY <1>2, MeasureAssumption DEF MeasureTyped, Columns
<1>8. last' \in [Clients -> SUBSET Nat]
  <2>1. ASSUME NEW c \in Clients PROVE last'[c] \in SUBSET Nat
    <3>1. last'[c] = last[c] \/ last'[c] = {count'}
      BY <1>1 DEF Followed
    <3> QED
      BY <1>3, <3>1 DEF MeasureTyped, Columns
  <2> QED
    BY <1>1, <2>1
<1>9. HelperTyped' /\ Columns'
  BY <1>2, <1>3, <1>4, <1>5, <1>6, <1>7, <1>8 DEF MeasureTyped, HelperTyped, Columns
<1>10. ASSUME NEW o \in Clients PROVE AtStep(o)'
  BY <1>2, Stays DEF MeasureTyped
<1> QED
  BY <1>9, <1>10 DEF MeasureTyped

(* The watchdog leaves the programs where they are.                        *)
LEMMA WatchdogTyped ==
  ASSUME MeasureTyped, Wait \/ Decide \/ Act
  PROVE  MeasureTyped'
<1>1. /\ UNCHANGED <<count, prog, place, source, phase, from, last, energy, span, drawn, whole, spent, alone, broken>>
      /\ HelperMove
      /\ age' \in {age, Timeout} /\ wd' \in {wd, "sleep", "decided"}
      /\ under' = under \/ Undergo
  BY DEF Wait, Decide, Act, run, history, HelperMove, helper
<1>2. lease' \in BOOLEAN /\ hw' \in Settings /\ kept' \subseteq Settings /\ lost' \in BOOLEAN
  BY <1>1, MoveTyped DEF MeasureTyped
<1>3. under' \in [Clients -> SUBSET Settings]
  <2>1. CASE Undergo
    <3>1. \A o \in Clients : under[o] \subseteq Settings
      BY DEF MeasureTyped, Columns
    <3> QED
      BY <1>2, <2>1, <3>1 DEF Undergo
  <2> QED
    BY <1>1, <2>1 DEF MeasureTyped, Columns
<1>4. HelperTyped'
  BY <1>1, <1>2, MeasureAssumption DEF MeasureTyped, HelperTyped
<1>5. Columns'
  BY <1>1, <1>3 DEF MeasureTyped, Columns
<1>6. ASSUME NEW o \in Clients PROVE AtStep(o)'
  BY <1>1, Stays DEF MeasureTyped
<1> QED
  BY <1>4, <1>5, <1>6 DEF MeasureTyped

(* Every step keeps the types.                                             *)
LEMMA MeasureTypedStep == MeasureTyped /\ [MNext]_mvars => MeasureTyped'
<1> SUFFICES ASSUME MeasureTyped, [MNext]_mvars PROVE MeasureTyped'
  OBVIOUS
<1>1. ASSUME NEW c \in Clients, Call(c) PROVE MeasureTyped'
  <2>1. CallsTo(c, place[c] + 1) /\ broken' = broken /\ place[c] + 1 \in DOMAIN prog[c]
    BY <1>1, CallIs
  <2>2. Bereft(prog[c], place[c] + 1) => broken'[c]
    <3>1. place[c] # Stopped /\ Step(c).op \in {"begin", "apply", "restore", "end"}
      BY <2>1 DEF CallsTo
    <3>2. Bereft(prog[c], place[c] + 1) => Bereft(prog[c], place[c])
      BY <3>1, StepIs DEF Fits
    <3> QED
      BY <2>1, <3>2 DEF MeasureTyped, AtStep
  <2> QED
    BY <2>1, <2>2, CallTyped
<1>2. ASSUME NEW c \in Clients, CallThrows(c) PROVE MeasureTyped'
  <2>1. /\ CallsTo(c, Step(c).catch) /\ broken' = [broken EXCEPT ![c] = TRUE]
        /\ Step(c).catch \in {0} \cup DOMAIN prog[c]
    BY <1>2, ThrowIs
  <2>2. broken'[c]
    BY <2>1 DEF MeasureTyped, Columns
  <2> QED
    BY <2>1, <2>2, CallTyped
<1>3. ASSUME NEW c \in Clients, Start(c) \/ Launch(c) \/ Report(c) \/ NextRun(c) \/ Stop(c) PROVE MeasureTyped'
  BY <1>3, StartTyped, LaunchTyped, ReportTyped, NextRunTyped, StopTyped
<1>4. CASE UNCHANGED mvars
  <2>1. UNCHANGED <<lease, hw, kept, lost, age, wd, count, prog, place, source, phase, from, last, energy,
                    span, under, drawn, whole, spent, alone, broken>>
    BY <1>4 DEF mvars, helper, run, history
  <2> QED
    BY <2>1 DEF MeasureTyped, HelperTyped, Columns, AtStep, Measures, Step
<1> QED
  BY <1>1, <1>2, <1>3, <1>4, TickTyped, WatchdogTyped DEF MNext

(* The types hold at first.                                                *)
LEMMA MeasureTypedInit == MInit => MeasureTyped
<1> SUFFICES ASSUME MInit PROVE MeasureTyped
  OBVIOUS
<1>1. HelperTyped
  <2>1. 0 \in 0..Timeout /\ 0 \in 0..(MaxRange - 1)
    BY MeterAssumption, MeasureAssumption
  <2> QED
    BY <2>1, AskedAre DEF MInit, HelperTyped
<1>2. Columns
  BY MeasureAssumption DEF MInit, Columns, Stopped
<1>3. ASSUME NEW c \in Clients PROVE AtStep(c)
  BY DEF MInit, AtStep, Bereft, Stopped
<1> QED
  BY <1>1, <1>2, <1>3 DEF MeasureTyped

-----------------------------------------------------------------------------
(* The user's settings.                                                    *)

(* The original that is kept is the user's, and without one the user's     *)
(* settings are in force.                                                  *)
UserHeld == ~lost => kept \subseteq {User} /\ (kept = {} => hw = User)

(* Every step is a move of the helper, or leaves it alone.                 *)
LEMMA MeasureMoves ==
  ASSUME MeasureTyped, [MNext]_mvars
  PROVE  HelperMove
<1>1. ASSUME NEW c \in Clients, Call(c) \/ CallThrows(c) PROVE HelperMove
  BY <1>1, CallIs, ThrowIs DEF CallsTo
<1>2. ASSUME NEW c \in Clients, Start(c) \/ Launch(c) \/ Report(c) \/ NextRun(c) \/ Stop(c) PROVE HelperMove
  BY <1>2 DEF Start, Launch, Report, NextRun, Stop, HelperMove
<1>3. CASE Tick \/ Wait \/ Decide \/ Act
  BY <1>3 DEF Tick, Wait, Decide, Act, HelperMove, helper
<1>4. CASE UNCHANGED mvars
  BY <1>4 DEF mvars, HelperMove
<1> QED
  BY <1>1, <1>2, <1>3, <1>4 DEF MNext

(* Every step keeps the user's settings in force or kept.                  *)
LEMMA UserHeldStep ==
  ASSUME MeasureTyped, UserHeld, [MNext]_mvars
  PROVE  UserHeld'
<1>1. HelperMove
  BY MeasureMoves
<1> QED
  BY <1>1 DEF UserHeld, HelperMove, helper, H!Open, H!Drop, H!Apply, PutBack, H!Release

-----------------------------------------------------------------------------
(* Energy.                                                                 *)

(* A program has read the counter once before its run.                     *)
Begins(c) ==
  /\ from[c] \subseteq 0..(MaxRange - 1)
  /\ \A x, y \in from[c] : x = y

(* While it runs: the counter is as far on as what was drawn.              *)
RunsOn(c) ==
  /\ drawn[c] <= span[c] * Ceiling /\ (span[c] > 0 => drawn[c] > 0)
  /\ IF source[c] = "synthetic" THEN from[c] = {MaxRange - 1}
     ELSE \A x \in from[c] : count = (x + drawn[c]) % MaxRange
  /\ \A x \in from[c], y \in last[c] : y - x <= drawn[c]

(* What it has reported.                                                   *)
Reports(c) ==
  source[c] # "synthetic" =>
    /\ whole[c] => energy[c] = {drawn[c]}
    /\ ~whole[c] /\ At(c, "run") => energy[c] = {}
    /\ \A e \in energy[c] \ {0} : e <= drawn[c]

(* The invariant of a program's meter.                                     *)
Metering(c) ==
  /\ Begins(c)
  /\ phase[c] = "running" => RunsOn(c)
  /\ phase[c] = "reported" => Reports(c)

(* A program that has not run yet, or does not any more.                   *)
LEMMA MeterAtRest ==
  ASSUME NEW c, Begins(c)', phase'[c] = "ready"
  PROVE  Metering(c)'
BY DEF Metering

(* A run of which nothing changes.                                         *)
LEMMA MeterAlike ==
  ASSUME NEW c, Metering(c), UNCHANGED <<from[c], phase[c], drawn[c], span[c], source[c], last[c], energy[c], whole[c]>>,
         phase[c] = "running" => count' = count,
         phase[c] = "reported" => UNCHANGED <<place[c], prog[c]>>
  PROVE  Metering(c)'
BY DEF Metering, Begins, RunsOn, Reports, At, Step

(* A run begins with the reading that is taken.                            *)
LEMMA LaunchMeters ==
  ASSUME MeasureTyped, NEW c \in Clients, Launch(c)
  PROVE  Metering(c)'
<1>1. PICK reading \in Reads(c, count') :
        from' = [from EXCEPT ![c] = reading] /\ last' = [last EXCEPT ![c] = reading]
  BY DEF Launch
<1>2. /\ from'[c] = reading /\ last'[c] = reading /\ phase'[c] = "running" /\ span'[c] = 0 /\ drawn'[c] = 0
      /\ source'[c] = source[c]
  BY <1>1 DEF Launch, MeasureTyped, Columns
<1>3. count' \in 0..(MaxRange - 1)
  BY LaunchTyped DEF MeasureTyped, HelperTyped
<1>4. /\ reading \subseteq 0..(MaxRange - 1) /\ reading \subseteq Nat
      /\ \A x, y \in reading : x = y
      /\ IF source[c] = "synthetic" THEN reading = {MaxRange - 1} ELSE reading \subseteq {count'}
  BY <1>3, ReadingIs
<1>5. ASSUME NEW x \in 0..(MaxRange - 1) PROVE (x + 0) % MaxRange = x
  BY MeterAssumption, RemainderOfSmall
<1>6. 0 * Ceiling = 0
  BY MeterAssumption
<1>7. Begins(c)'
  BY <1>2, <1>4 DEF Begins
<1>8. RunsOn(c)'
  <2>1. \A x \in reading, y \in reading : y - x <= 0
    BY <1>4
  <2>2. source[c] # "synthetic" => \A x \in reading : count' = (x + 0) % MaxRange
    BY <1>3, <1>4, <1>5
  <2>3. drawn'[c] <= span'[c] * Ceiling /\ (span'[c] > 0 => drawn'[c] > 0)
    BY <1>2, <1>6
  <2>4. \A x \in from'[c], y \in last'[c] : y - x <= drawn'[c]
    BY <1>2, <2>1
  <2>5. CASE source[c] = "synthetic"
    BY <1>2, <1>4, <2>3, <2>4, <2>5 DEF RunsOn
  <2>6. CASE source[c] # "synthetic"
    <3>1. \A x \in from'[c] : count' = (x + drawn'[c]) % MaxRange
      BY <1>2, <2>2, <2>6
    <3> QED
      BY <1>2, <2>3, <2>4, <2>6, <3>1 DEF RunsOn
  <2> QED
    BY <2>5, <2>6
<1> QED
  BY <1>2, <1>7, <1>8 DEF Metering

(* The others go on.                                                       *)
LEMMA LaunchElsewhere ==
  ASSUME MeasureTyped, NEW c \in Clients, Launch(c), NEW o \in Clients, o # c, Metering(o)
  PROVE  Metering(o)'
<1>1. UNCHANGED <<from[o], phase[o], drawn[o], span[o], source[o], last[o], energy[o], whole[o], place[o], prog[o]>>
  BY DEF Launch, MeasureTyped, Columns
<1>2. phase[o] = "running" => Running(o)
  BY DEF MeasureTyped, AtStep, Measures, Running
<1>3. Running(o) => count' = count
  BY DEF Launch
<1> QED
  BY <1>1, <1>2, <1>3, MeterAlike

(* A second more: the counter goes on, over a wrap too, and who follows it *)
(* sees no more than was drawn.                                            *)
LEMMA TickMeters ==
  ASSUME MeasureTyped, Tick, NEW c \in Clients, Metering(c)
  PROVE  Metering(c)'
<1>1. PICK power \in Powers :
        /\ count' = Advance(count, power)
        /\ drawn' = [o \in Clients |-> drawn[o] + IF Running(o) THEN power ELSE 0]
        /\ \A o \in Clients : last'[o] \in Followed(o, Advance(count, power))
  BY DEF Tick
<1>2. /\ span' = [o \in Clients |-> IF Running(o) THEN span[o] + 1 ELSE span[o]]
      /\ UNCHANGED <<prog, place, source, phase, from, energy, whole>>
  BY DEF Tick
<1>3. power \in Nat /\ power <= Ceiling /\ power > 0 /\ count' \in 0..(MaxRange - 1)
  BY <1>1, CounterTyped DEF MeasureTyped
<1>4. CASE ~Running(c)
  <2>1. phase[c] # "running"
    BY <1>4 DEF MeasureTyped, AtStep, Measures, Running
  <2>2. drawn'[c] = drawn[c]
    BY <1>1, <1>4 DEF MeasureTyped, Columns
  <2> QED
    BY <1>2, <2>1, <2>2 DEF Metering, Begins, Reports, At, Step
<1>5. CASE Running(c)
  <2>1. drawn'[c] = drawn[c] + power /\ span'[c] = span[c] + 1 /\ phase[c] = "running"
    BY <1>1, <1>2, <1>5 DEF Running
  <2>2. RunsOn(c) /\ Begins(c)
    BY <2>1 DEF Metering
  <2>3. drawn[c] \in Nat /\ span[c] \in Nat /\ from[c] \subseteq Nat /\ last[c] \subseteq Nat
    BY MeasureAssumption DEF MeasureTyped, Columns
  <2>4. drawn'[c] <= span'[c] * Ceiling /\ drawn'[c] > 0
    <3>1. (span[c] + 1) * Ceiling = (span[c] * Ceiling) + Ceiling
      BY <2>3, MeterAssumption
    <3>2. span[c] * Ceiling \in Nat /\ Ceiling \in Nat
      BY <2>3, MeterAssumption
    <3>3. drawn'[c] > 0
      BY <1>3, <2>1, <2>3
    <3> QED
      BY <1>3, <2>1, <2>2, <2>3, <3>1, <3>2, <3>3 DEF RunsOn
  <2>5. ASSUME source[c] # "synthetic", NEW x \in from[c]
        PROVE  count' = (x + drawn'[c]) % MaxRange /\ count' - x <= drawn'[c]
    <3>1. count = (x + drawn[c]) % MaxRange
      BY <2>2, <2>5 DEF RunsOn
    <3>2. PICK u \in Nat : u = x + drawn[c]
      BY <2>3
    <3>3. ((u % MaxRange) + power) % MaxRange = (u + power) % MaxRange
      <4>1. u \in Int /\ power \in Int /\ MaxRange \in Nat \ {0}
        BY <1>3, MeterAssumption
      <4> QED
        BY <4>1, RemainderAdds
    <3>4. u + power = x + drawn'[c] /\ u + power \in Nat
      BY <1>3, <2>1, <2>3, <3>2
    <3>5. count' = (x + drawn'[c]) % MaxRange
      BY <1>1, <3>1, <3>2, <3>3, <3>4 DEF Advance
    <3>6. (u + power) % MaxRange <= u + power
      BY <3>4, MeterAssumption, RemainderIsLess
    <3> QED
      BY <1>3, <2>1, <2>3, <3>4, <3>5, <3>6
  <2>6. ASSUME NEW x \in from[c], NEW y \in last'[c] PROVE y - x <= drawn'[c]
    <3>1. last'[c] = last[c] \/ last'[c] = {count'}
      BY <1>1 DEF Followed
    <3>2. CASE y \in last[c]
      BY <1>3, <2>1, <2>2, <2>3, <3>2 DEF RunsOn
    <3>3. CASE y = count' /\ source[c] # "synthetic"
      BY <2>5, <3>3
    <3>4. CASE y = count' /\ source[c] = "synthetic"
      <4>1. x = MaxRange - 1
        BY <2>2, <3>4 DEF RunsOn
      <4> QED
        BY <1>3, <2>1, <2>3, <3>4, <4>1
    <3> QED
      BY <3>1, <3>2, <3>3, <3>4
  <2>7. RunsOn(c)'
    <3>1. source'[c] = source[c] /\ from'[c] = from[c]
      BY <1>2
    <3> QED
      BY <2>2, <2>4, <2>5, <2>6, <3>1 DEF RunsOn
  <2> QED
    BY <1>2, <2>1, <2>2, <2>7 DEF Metering, Begins
<1> QED
  BY <1>4, <1>5

(* A run draws less than a wrap of the counter.                            *)
LEMMA DrawnIsLess ==
  ASSUME MeasureTyped, NEW c \in Clients, RunsOn(c)
  PROVE  drawn[c] \in Nat /\ drawn[c] < MaxRange
<1>1. drawn[c] \in Nat /\ span[c] \in Nat /\ Long \in Nat /\ span[c] <= Long
  BY MeasureAssumption DEF MeasureTyped, Columns
<1>2. Ceiling \in Nat /\ MaxRange \in Nat
  BY MeterAssumption
<1>3. span[c] * Ceiling <= Long * Ceiling
  BY <1>1, <1>2, ProductGrows
<1>4. span[c] * Ceiling \in Nat /\ Long * Ceiling \in Nat /\ Long * Ceiling < MaxRange
  BY <1>1, <1>2, OneWrapAssumption
<1>5. drawn[c] <= span[c] * Ceiling
  BY DEF RunsOn
<1> QED
  BY <1>1, <1>2, <1>3, <1>4, <1>5

(* A later reading is never further from the first than what was drawn.    *)
LEMMA LaterReading ==
  ASSUME MeasureTyped, NEW c \in Clients, Begins(c), RunsOn(c), NEW reading \in Reads(c, count),
         NEW a \in from[c], NEW b \in reading
  PROVE  /\ a \in 0..(MaxRange - 1) /\ b \in 0..(MaxRange - 1) /\ b - a <= drawn[c]
         /\ IF source[c] = "synthetic" THEN b = a ELSE b = (a + drawn[c]) % MaxRange
<1>1. a \in 0..(MaxRange - 1) /\ a \in Nat /\ drawn[c] \in Nat
  BY DEF Begins, MeasureTyped, Columns
<1>2. /\ reading \subseteq 0..(MaxRange - 1)
      /\ IF source[c] = "synthetic" THEN reading = {MaxRange - 1} ELSE reading \subseteq {count}
  BY ReadingIs DEF MeasureTyped, HelperTyped
<1>3. CASE source[c] = "synthetic"
  <2>1. a = MaxRange - 1 /\ b = MaxRange - 1
    BY <1>2, <1>3 DEF RunsOn
  <2> QED
    BY <1>1, <1>3, <2>1
<1>4. CASE source[c] # "synthetic"
  <2>1. b = count /\ count = (a + drawn[c]) % MaxRange
    BY <1>2, <1>4 DEF RunsOn
  <2>2. PICK t \in Nat : t = a + drawn[c]
    BY <1>1
  <2>3. t % MaxRange \in Nat /\ t % MaxRange <= t
    BY <2>2, MeterAssumption, RemainderIsLess
  <2> QED
    BY <1>1, <1>2, <1>4, <2>1, <2>2, <2>3
<1> QED
  BY <1>3, <1>4

(* The benchmark's total is a difference of readings, or zero.             *)
LEMMA TotalIsDrawn ==
  ASSUME MeasureTyped, NEW c \in Clients, Begins(c), RunsOn(c), NEW reading \in Reads(c, count),
         NEW e \in TotalEnergy(c, reading)
  PROVE  e <= drawn[c]
<1> DEFINE Up(readings) == UNION {{b - a : b \in {x \in readings : x > a}} : a \in from[c]}
<1>1. Up(reading) # {} => e \in Up(reading)
  BY DEF TotalEnergy
<1>2. e \in Up(reading) \/ e \in Up(last[c]) \/ e = 0
  BY DEF TotalEnergy
<1>3. CASE e \in Up(reading)
  <2>1. PICK a \in from[c], b \in reading : e = b - a
    BY <1>3
  <2> QED
    BY <2>1, LaterReading
<1>4. CASE e \in Up(last[c])
  <2>1. PICK a \in from[c], b \in last[c] : e = b - a
    BY <1>4
  <2> QED
    BY <2>1 DEF RunsOn
<1>5. CASE e = 0
  BY <1>5 DEF MeasureTyped, Columns
<1> QED
  BY <1>2, <1>3, <1>4, <1>5

(* It is the whole difference if the counter did not wrap.                 *)
LEMMA TotalIsWhole ==
  ASSUME MeasureTyped, NEW c \in Clients, Begins(c), RunsOn(c), span[c] > 0, NEW reading \in Reads(c, count),
         source[c] # "synthetic", NEW a \in from[c], NEW b \in reading, a + drawn[c] < MaxRange
  PROVE  TotalEnergy(c, reading) = {drawn[c]}
<1>1. a \in 0..(MaxRange - 1) /\ b = (a + drawn[c]) % MaxRange
  BY LaterReading
<1>2. drawn[c] \in Nat /\ drawn[c] > 0
  BY DEF RunsOn, MeasureTyped, Columns
<1>3. b = a + drawn[c]
  <2>1. a + drawn[c] \in 0..(MaxRange - 1)
    BY <1>1, <1>2, MeterAssumption
  <2> QED
    BY <1>1, <2>1, MeterAssumption, RemainderOfSmall
<1>4. from[c] = {a} /\ reading = {b}
  <2>1. \A x, y \in reading : x = y
    BY ReadingIs DEF MeasureTyped, HelperTyped
  <2> QED
    BY <2>1 DEF Begins
<1>5. UNION {{y - x : y \in {z \in reading : z > x}} : x \in from[c]} = {drawn[c]}
  <2>1. {z \in reading : z > a} = {b} /\ b - a = drawn[c]
    BY <1>1, <1>2, <1>3, <1>4
  <2> QED
    BY <1>4, <2>1
<1> QED
  BY <1>5 DEF TotalEnergy

(* The runner's difference is all of it, over a wrap too, ...              *)
LEMMA EnergyIsAll ==
  ASSUME MeasureTyped, NEW c \in Clients, Begins(c), RunsOn(c), NEW reading \in Reads(c, count),
         source[c] # "synthetic"
  PROVE  Energy(from[c], reading, Wrap, span[c]) = IF from[c] = {} \/ reading = {} THEN {} ELSE {drawn[c]}
<1>1. drawn[c] \in Nat /\ drawn[c] < MaxRange
  BY DrawnIsLess
<1>2. ASSUME NEW a \in from[c], NEW b \in reading PROVE Delta(a, b, Wrap) = {drawn[c]}
  <2>1. a \in 0..(MaxRange - 1) /\ b = (a + drawn[c]) % MaxRange
    BY <1>2, LaterReading
  <2>2. Delta(a, b, Wrap) = {(b - a) % MaxRange}
    BY DEF Delta, Wrap
  <2>3. Wrap \in {{}, Wrap} /\ (b - a) % MaxRange \in Delta(a, b, Wrap)
    BY <2>2
  <2>4. (b - a) % MaxRange = drawn[c]
    BY <1>1, <2>1, <2>3, DeltaIs
  <2> QED
    BY <2>2, <2>4
<1>3. Plausible(drawn[c], span[c])
  <2>1. drawn[c] <= span[c] * Ceiling /\ span[c] \in Nat /\ Ceiling \in Nat
    BY MeterAssumption, MeasureAssumption DEF RunsOn, MeasureTyped, Columns
  <2>2. span[c] * Ceiling = Ceiling * span[c]
    BY <2>1
  <2> QED
    BY <2>1, <2>2 DEF Plausible
<1>4. ASSUME NEW a \in from[c], NEW b \in reading
      PROVE  {e \in Delta(a, b, Wrap) : Plausible(e, span[c])} = {drawn[c]}
  BY <1>2, <1>3
<1>5. CASE from[c] = {} \/ reading = {}
  BY <1>5 DEF Energy
<1>6. CASE ~(from[c] = {} \/ reading = {})
  <2> DEFINE parts == {{e \in Delta(a, b, Wrap) : Plausible(e, span[c])} : a \in from[c], b \in reading}
  <2>1. parts = {{drawn[c]}}
    BY <1>4, <1>6
  <2>2. Energy(from[c], reading, Wrap, span[c]) = UNION parts
    BY DEF Energy
  <2> HIDE DEF parts
  <2>3. UNION parts = {drawn[c]}
    BY <2>1
  <2> QED
    BY <1>6, <2>2, <2>3
<1> QED
  BY <1>5, <1>6

(* ... and that is what a run reports.                                     *)
LEMMA ReportMeters ==
  ASSUME MeasureTyped, NEW c \in Clients, Report(c), Metering(c)
  PROVE  Metering(c)'
<1>1. PICK reading \in Reads(c, count) :
        /\ whole' = [whole EXCEPT ![c] = Whole(c, reading)]
        /\ energy' = [energy EXCEPT ![c] = IF At(c, "sample") THEN TotalEnergy(c, reading)
                                           ELSE Energy(from[c], reading, Wrap, span[c])]
  BY DEF Report
<1>2. /\ energy'[c] = IF At(c, "sample") THEN TotalEnergy(c, reading)
                      ELSE Energy(from[c], reading, Wrap, span[c])
      /\ whole'[c] = Whole(c, reading)
      /\ phase'[c] = "reported" /\ from'[c] = {} /\ UNCHANGED <<drawn, source, prog, place>>
  BY <1>1 DEF Report, MeasureTyped, Columns
<1>3. RunsOn(c) /\ Begins(c) /\ span[c] > 0 /\ Measures(c)
  BY DEF Report, Metering
<1>4. At(c, "run")' = At(c, "run") /\ drawn'[c] = drawn[c] /\ source'[c] = source[c]
  BY <1>2 DEF At, Step
<1>5. At(c, "run") <=> ~At(c, "sample")
  BY <1>3 DEF At, Measures
<1>6. Reports(c)'
  <2> SUFFICES ASSUME source[c] # "synthetic"
               PROVE  /\ Whole(c, reading) => energy'[c] = {drawn[c]}
                      /\ ~Whole(c, reading) /\ At(c, "run") => energy'[c] = {}
                      /\ \A e \in energy'[c] \ {0} : e <= drawn[c]
    BY <1>2, <1>4 DEF Reports
  <2>1. CASE At(c, "sample")
    <3>1. energy'[c] = TotalEnergy(c, reading)
      BY <1>2, <2>1
    <3>2. \A e \in energy'[c] : e <= drawn[c]
      BY <1>1, <1>3, <3>1, TotalIsDrawn
    <3>3. Whole(c, reading) => energy'[c] = {drawn[c]}
      BY <1>1, <1>3, <2>1, <3>1, TotalIsWhole DEF Whole
    <3> QED
      BY <1>5, <2>1, <3>2, <3>3
  <2>2. CASE ~At(c, "sample")
    <3>1. energy'[c] = IF from[c] = {} \/ reading = {} THEN {} ELSE {drawn[c]}
      BY <1>1, <1>2, <1>3, <2>2, EnergyIsAll
    <3>2. Whole(c, reading) <=> ~(from[c] = {} \/ reading = {})
      BY <2>2 DEF Whole
    <3>3. drawn[c] <= drawn[c]
      BY DEF MeasureTyped, Columns
    <3> QED
      BY <3>1, <3>2, <3>3
  <2> QED
    BY <2>1, <2>2
<1> QED
  BY <1>2, <1>6 DEF Metering, Begins

(* Who leaves the counter leaves it to the others as it is.                *)
LEMMA LeaveElsewhere ==
  ASSUME MeasureTyped, NEW c \in Clients, Leave(c), NEW o \in Clients, o # c, Metering(o),
         UNCHANGED <<from[o], phase[o], drawn[o], span[o], source[o], last[o], energy[o], whole[o], place[o], prog[o]>>
  PROVE  Metering(o)'
<1>1. phase[o] = "running" => Running(o)
  BY DEF MeasureTyped, AtStep, Measures, Running
<1>2. phase[o] = "running" => count' = count
  BY <1>1 DEF Leave
<1> QED
  BY <1>2, MeterAlike

(* A call, and the watchdog, leave what is measured alone.                 *)
LEMMA CallMeters ==
  ASSUME MeasureTyped, NEW c \in Clients, NEW to, CallsTo(c, to), NEW o \in Clients, Metering(o)
  PROVE  Metering(o)'
<1>1. UNCHANGED <<from, phase, drawn, span, source, last, energy, whole, prog, count>> /\ phase[c] = "ready"
      /\ place' = [place EXCEPT ![c] = to]
  BY DEF CallsTo, run, Goto
<1>2. phase[o] = "reported" => place'[o] = place[o]
  BY <1>1 DEF MeasureTyped, Columns
<1> QED
  BY <1>1, <1>2, MeterAlike

(* Every step keeps what is read and what is reported.                     *)
LEMMA MeteringStep ==
  ASSUME MeasureTyped, \A c \in Clients : Metering(c), [MNext]_mvars, NEW o \in Clients
  PROVE  Metering(o)'
<1>1. ASSUME NEW c \in Clients, Start(c) PROVE Metering(o)'
  <2>1. /\ UNCHANGED <<phase, from, last, energy, span, drawn, whole, count>> /\ prog[c] = <<>>
        /\ place' = [place EXCEPT ![c] = 1]
        /\ \E p \in Programs, s \in Sources :
             prog' = [prog EXCEPT ![c] = p] /\ source' = [source EXCEPT ![c] = s]
    BY <1>1 DEF Start, run, Goto
  <2>2. CASE o = c
    <3>1. phase[c] = "ready"
      BY <2>1, ProgramMade DEF MeasureTyped, AtStep, Measures, Columns
    <3> QED
      BY <2>1, <2>2, <3>1 DEF Metering, Begins
  <2>3. CASE o # c
    <3>1. prog'[o] = prog[o] /\ source'[o] = source[o] /\ place'[o] = place[o]
      BY <2>1, <2>3 DEF MeasureTyped, Columns
    <3> QED
      BY <2>1, <3>1, MeterAlike
  <2> QED
    BY <2>2, <2>3
<1>2. ASSUME NEW c \in Clients, Call(c) \/ CallThrows(c) PROVE Metering(o)'
  <2>1. PICK to : CallsTo(c, to)
    BY <1>2, CallIs, ThrowIs
  <2> QED
    BY <2>1, CallMeters
<1>3. ASSUME NEW c \in Clients, Launch(c) PROVE Metering(o)'
  BY <1>3, LaunchMeters, LaunchElsewhere
<1>4. ASSUME NEW c \in Clients, Report(c) PROVE Metering(o)'
  <2>1. CASE o # c
    <3>1. Leave(c) /\ UNCHANGED <<from[o], phase[o], drawn[o], span[o], source[o], last[o], energy[o], whole[o], place[o], prog[o]>>
      BY <1>4, <2>1 DEF Report, MeasureTyped, Columns
    <3> QED
      BY <2>1, <3>1, LeaveElsewhere
  <2> QED
    BY <1>4, <2>1, ReportMeters
<1>5. ASSUME NEW c \in Clients, NextRun(c) PROVE Metering(o)'
  <2>1. /\ phase' = [phase EXCEPT ![c] = "ready"] /\ place' = [place EXCEPT ![c] = place[c] + 1]
        /\ energy' = [energy EXCEPT ![c] = {}] /\ drawn' = [drawn EXCEPT ![c] = 0]
        /\ whole' = [whole EXCEPT ![c] = FALSE]
        /\ UNCHANGED <<count, prog, source, from, last, span>>
    BY <1>5 DEF NextRun, Goto
  <2>2. CASE o = c
    BY <2>1, <2>2 DEF MeasureTyped, Columns, Metering, Begins
  <2>3. CASE o # c
    <3>1. UNCHANGED <<phase[o], place[o], energy[o], drawn[o], whole[o]>>
      BY <2>1, <2>3 DEF MeasureTyped, Columns
    <3> QED
      BY <2>1, <3>1, MeterAlike
  <2> QED
    BY <2>2, <2>3
<1>6. ASSUME NEW c \in Clients, Stop(c) PROVE Metering(o)'
  <2>1. /\ phase' = [phase EXCEPT ![c] = "ready"] /\ place' = [place EXCEPT ![c] = Stopped]
        /\ from' = [from EXCEPT ![c] = {}] /\ last' = [last EXCEPT ![c] = {}]
        /\ energy' = [energy EXCEPT ![c] = {}] /\ span' = [span EXCEPT ![c] = 0]
        /\ whole' = [whole EXCEPT ![c] = FALSE]
        /\ drawn' = [drawn EXCEPT ![c] = 0] /\ Leave(c) /\ UNCHANGED <<prog, source>>
    BY <1>6 DEF Stop, Goto
  <2>2. CASE o = c
    BY <2>1, <2>2 DEF MeasureTyped, Columns, Metering, Begins
  <2>3. CASE o # c
    <3>1. UNCHANGED <<from[o], phase[o], drawn[o], span[o], source[o], last[o], energy[o], whole[o], place[o], prog[o]>>
      BY <2>1, <2>3 DEF MeasureTyped, Columns
    <3> QED
      BY <2>1, <2>3, <3>1, LeaveElsewhere
  <2> QED
    BY <2>2, <2>3
<1>7. CASE Tick
  BY <1>7, TickMeters
<1>8. CASE Wait \/ Decide \/ Act \/ UNCHANGED mvars
  <2>1. UNCHANGED <<from, phase, drawn, span, source, last, energy, whole, place, prog, count>>
    BY <1>8 DEF Wait, Decide, Act, run, mvars
  <2> QED
    BY <2>1, MeterAlike
<1> QED
  BY <1>1, <1>2, <1>3, <1>4, <1>5, <1>6, <1>7, <1>8 DEF MNext

(* That of all of them.                                                    *)
MeteringInv == MeasureTyped /\ \A c \in Clients : Metering(c)

(* Measuring: every variable keeps its type, and a program that runs is at *)
(* one of its steps.                                                       *)
THEOREM MeasureTypes == MSpec => []MeasureTyped
<1> QED
  BY MeasureTypedInit, MeasureTypedStep, PTL DEF MSpec

(* Where there is a counter, a run of the runner reports what was drawn    *)
(* while it ran, over a wrap too, or nothing for want of a reading, and    *)
(* the benchmark the same if the counter did not wrap, and never more than *)
(* was drawn, however the programs interleave.                             *)
THEOREM EnergyWasDrawn == MSpec => []EnergyIsDrawn
<1>1. MInit => MeteringInv
  <2> SUFFICES ASSUME MInit PROVE MeteringInv
    OBVIOUS
  <2>1. ASSUME NEW c \in Clients PROVE Metering(c)
    BY DEF MInit, Metering, Begins
  <2> QED
    BY <2>1, MeasureTypedInit DEF MeteringInv
<1>2. MeteringInv /\ [MNext]_mvars => MeteringInv'
  <2> SUFFICES ASSUME MeteringInv, [MNext]_mvars PROVE MeteringInv'
    OBVIOUS
  <2>1. MeasureTyped'
    BY MeasureTypedStep DEF MeteringInv
  <2>2. ASSUME NEW c \in Clients PROVE Metering(c)'
    BY MeteringStep DEF MeteringInv
  <2> QED
    BY <2>1, <2>2 DEF MeteringInv
<1>3. MeteringInv => EnergyIsDrawn
  BY DEF MeteringInv, Metering, Reports, EnergyIsDrawn
<1> QED
  BY <1>1, <1>2, <1>3, PTL DEF MSpec

-----------------------------------------------------------------------------
(* Programs that have the helper for themselves.                           *)

(* A program that started with the helper at rest and goes on has it for   *)
(* itself.  It keeps the lease while an original is kept, and reaches      *)
(* end_session only after a restoration.                                   *)
ByItself(c) ==
  (alone[c] /\ place[c] # Stopped) =>
    /\ \A o \in Clients : o # c => place[o] = Stopped
    /\ kept # {} => lease
    /\ At(c, "end") => kept = {}

(* It has lost its session to the watchdog, which the benchmark never      *)
(* does.                                                                   *)
Outlived(c) == spent[c] = Timeout /\ prog[c] # Benchmark

(* What it may be measured under: what it asked for, or once it has, what  *)
(* was put back.                                                           *)
Fair(c, settings) ==
  AsAsked(Step(c), settings) \/ (Outlived(c) /\ (settings = User \/ lost))

(* Its runs are.                                                           *)
Labelled(c) ==
  (alone[c] /\ ~broken[c] /\ place[c] # Stopped /\ HasHelper(prog[c])) =>
    /\ At(c, "begin") => ~lease /\ wd = "sleep"
    /\ ~At(c, "begin") => age <= spent[c] /\ (wd = "decided" => Outlived(c))
    /\ prog[c] = Benchmark /\ ~At(c, "begin") => age = 0
    /\ Step(c).op \in {"apply", "run", "sample"} => lease \/ Outlived(c)
    /\ Measures(c) => Fair(c, hw)
    /\ phase[c] # "ready" => \A settings \in under[c] : Fair(c, settings)

(* While another program goes on, c has not the helper for itself.         *)
LEMMA OthersRest ==
  ASSUME NEW c \in Clients, ByItself(c), NEW o \in Clients, o # c, place[o] # Stopped,
         place'[c] = place[c], alone'[c] = alone[c]
  PROVE  ByItself(c)' /\ Labelled(c)'
BY DEF ByItself, Labelled

(* Where a call goes.                                                      *)
LEMMA CallGoes ==
  ASSUME MeasureTyped, NEW c \in Clients, NEW to, CallsTo(c, to)
  PROVE  /\ place[c] # Stopped /\ phase[c] = "ready" /\ phase'[c] = "ready"
         /\ place'[c] = to /\ \A o \in Clients : o # c => place'[o] = place[o]
         /\ Step(c)' = prog[c][to]
         /\ UNCHANGED <<wd, prog, alone>>
<1>1. place' = [place EXCEPT ![c] = to] /\ UNCHANGED <<phase, prog, wd, alone>>
      /\ place[c] # Stopped /\ phase[c] = "ready"
  BY DEF CallsTo, Goto, run
<1> QED
  BY <1>1 DEF MeasureTyped, Columns, Step

(* What a call does to the lease of a program that has it for itself.      *)
LEMMA CallKeepsLease ==
  ASSUME NEW c \in Clients, ByItself(c), alone[c], place[c] # Stopped,
         Operation(c) \/ UNCHANGED helper
  PROVE  kept' # {} => lease'
<1>1. (kept # {} => lease) /\ (At(c, "end") => kept = {})
  BY DEF ByItself
<1>2. CASE UNCHANGED helper
  BY <1>1, <1>2 DEF helper
<1>3. CASE BeginSession(c)
  BY <1>1, <1>3 DEF BeginSession, helper, H!Open
<1>4. CASE ApplyConfiguration(c)
  BY <1>1, <1>4 DEF ApplyConfiguration, helper, H!Apply
<1>5. CASE Restore(c)
  BY <1>1, <1>5 DEF Restore, helper, PutBack, H!Release
<1>6. CASE EndSession(c)
  BY <1>1, <1>6 DEF EndSession, helper, H!Drop
<1> QED
  BY <1>2, <1>3, <1>4, <1>5, <1>6 DEF Operation

(* Every original is gone after a restoration.                             *)
LEMMA RestoreClears ==
  ASSUME NEW c \in Clients, Restore(c)
  PROVE  kept' = {}
BY DEF Restore, helper, PutBack, H!Release

(* The steps of a program that calls: those of the others do not change.   *)
LEMMA CallByItself ==
  ASSUME MeasureTyped, NEW c \in Clients, ByItself(c), Call(c)
  PROVE  ByItself(c)'
<1>1. CallsTo(c, place[c] + 1)
  BY CallIs
<1>2. /\ place[c] # Stopped /\ \A o \in Clients : o # c => place'[o] = place[o]
      /\ Step(c)' = prog[c][place[c] + 1] /\ alone' = alone
  BY <1>1, CallGoes
<1>3. Fits(prog[c], place[c]) /\ Step(c) = prog[c][place[c]]
  BY <1>2, StepIs
<1>4. Operation(c)
  BY DEF Call
<1>5. alone[c] => (kept' # {} => lease')
  BY <1>2, <1>4, CallKeepsLease
<1>6. Step(c).op \in {"begin", "apply", "restore", "end"}
  BY <1>1 DEF CallsTo
<1>7. At(c, "end")' => Step(c).op = "restore"
  <2>1. CASE Step(c).op = "begin"
    BY <1>2, <1>3, <2>1 DEF Fits, At
  <2>2. CASE Step(c).op = "apply"
    BY <1>2, <1>3, <2>2 DEF Fits, At
  <2>3. CASE Step(c).op = "end"
    BY <1>2, <1>3, <2>3 DEF Fits, At
  <2> QED
    BY <1>6, <2>1, <2>2, <2>3
<1>8. Step(c).op = "restore" => kept' = {}
  <2>1. Step(c).op = "restore" => Restore(c)
    BY <1>4 DEF Operation, BeginSession, ApplyConfiguration, EndSession, At
  <2> QED
    BY <2>1, RestoreClears
<1> QED
  BY <1>2, <1>5, <1>7, <1>8 DEF ByItself

(* A call that throws does not lead to end_session.                        *)
LEMMA ThrowByItself ==
  ASSUME MeasureTyped, NEW c \in Clients, ByItself(c), CallThrows(c)
  PROVE  ByItself(c)' /\ (alone[c] => (kept' # {} => lease'))
<1>1. CallsTo(c, Step(c).catch)
  BY ThrowIs
<1>2. /\ place[c] # Stopped /\ \A o \in Clients : o # c => place'[o] = place[o]
      /\ place'[c] = Step(c).catch /\ Step(c)' = prog[c][Step(c).catch] /\ alone' = alone
  BY <1>1, CallGoes
<1>3. Fits(prog[c], place[c]) /\ Step(c) = prog[c][place[c]]
  BY <1>2, StepIs
<1>4. Operation(c) \/ UNCHANGED helper
  BY DEF CallThrows, helper
<1>5. alone[c] => (kept' # {} => lease')
  BY <1>2, <1>4, CallKeepsLease
<1>6. ~At(c, "end")'
  BY <1>2, <1>3 DEF Fits, At, Stopped
<1> QED
  BY <1>2, <1>5, <1>6 DEF ByItself

(* What is asked for is in force after it was applied.                     *)
LEMMA AskedRemain ==
  ASSUME NEW asked, NEW step, step.asked = asked, Honest(step)
  PROVE  AsAsked(step, Over(asked))
BY DEF AsAsked, Over, Honest

(* The calls of a program that has the helper for itself, one by one.      *)
LEMMA CallLabelled ==
  ASSUME MeasureTyped, UserHeld, NEW c \in Clients, ByItself(c), Labelled(c), Call(c)
  PROVE  Labelled(c)'
<1> SUFFICES ASSUME alone'[c], ~broken'[c], place'[c] # Stopped, HasHelper(prog'[c]) PROVE Labelled(c)'
  BY DEF Labelled
<1>1. CallsTo(c, place[c] + 1) /\ broken' = broken
  BY CallIs
<1>2. /\ place[c] # Stopped /\ phase'[c] = "ready" /\ place'[c] = place[c] + 1
      /\ Step(c)' = prog[c][place[c] + 1] /\ UNCHANGED <<wd, prog, alone>>
  BY <1>1, CallGoes
<1>3. Fits(prog[c], place[c]) /\ Step(c) = prog[c][place[c]]
  BY <1>2, StepIs
<1>4. /\ At(c, "begin") => ~lease /\ wd = "sleep"
      /\ ~At(c, "begin") => age <= spent[c] /\ (wd = "decided" => Outlived(c))
      /\ prog[c] = Benchmark /\ ~At(c, "begin") => age = 0
      /\ Step(c).op \in {"apply", "run", "sample"} => lease \/ Outlived(c)
  BY <1>1, <1>2 DEF Labelled
<1>5. \A op : At(c, op)' <=> prog[c][place[c] + 1].op = op
  BY <1>2 DEF At
<1>6. Measures(c)' <=> prog[c][place[c] + 1].op \in {"run", "sample"}
  BY <1>2 DEF Measures
<1>7. CASE BeginSession(c)
  <2>1. Step(c).op = "begin" /\ At(c, "begin")
    BY <1>7 DEF BeginSession, At
  <2>2. prog[c][place[c] + 1].op = "apply"
    BY <1>3, <2>1 DEF Fits
  <2>3. lease' /\ age' = 0 /\ spent'[c] = 0 /\ wd' = "sleep"
    BY <1>2, <1>4, <1>7, <2>1 DEF BeginSession, H!Open, MeasureTyped, Columns
  <2> QED
    BY <1>2, <1>5, <1>6, <2>2, <2>3 DEF Labelled
<1>8. CASE ApplyConfiguration(c)
  <2>1. Step(c).op = "apply" /\ ~At(c, "begin")
    BY <1>8 DEF ApplyConfiguration, At
  <2>2. prog[c][place[c] + 1].op \in {"run", "sample"} /\ prog[c][place[c] + 1].asked = Step(c).asked
    BY <1>3, <2>1 DEF Fits
  <2>3. UNCHANGED <<age, spent, wd>> /\ (Outlived(c)' <=> Outlived(c))
    BY <1>2, <1>8 DEF ApplyConfiguration, Outlived
  <2>4. lease' \/ Outlived(c)
    BY <1>4, <1>8, <2>1 DEF ApplyConfiguration, H!Apply
  <2>5. Fair(c, hw)'
    <3>1. CASE lease
      <4>1. hw' = Over(Step(c).asked)
        BY <1>8, <3>1 DEF ApplyConfiguration
      <4>2. Honest(Step(c)') /\ Step(c)'.asked = Step(c).asked
        <5>1. Fits(prog[c], place[c] + 1)
          BY <1>1, <1>2, CallIs, StepIs, ProgramMade
        <5> QED
          BY <1>2, <2>2, <5>1 DEF Fits
      <4>3. AsAsked(Step(c)', hw')
        BY <4>1, <4>2, AskedRemain
      <4> QED
        BY <4>3 DEF Fair
    <3>2. CASE ~lease
      <4>1. Outlived(c) /\ hw' = hw /\ lost' = lost
        BY <1>4, <1>8, <2>1, <3>2 DEF ApplyConfiguration, helper
      <4>2. kept = {}
        BY <1>2, <3>2 DEF ByItself
      <4>3. hw = User \/ lost
        BY <4>2 DEF UserHeld
      <4> QED
        BY <2>3, <4>1, <4>3 DEF Fair
    <3> QED
      BY <3>1, <3>2
  <2> QED
    BY <1>2, <1>4, <1>5, <1>6, <2>1, <2>2, <2>3, <2>4, <2>5 DEF Labelled
<1>9. CASE Restore(c)
  <2>1. Step(c).op = "restore" /\ ~At(c, "begin")
    BY <1>9 DEF Restore, At
  <2>2. prog[c][place[c] + 1].op = "end"
    BY <1>3, <2>1 DEF Fits
  <2>3. UNCHANGED <<age, spent, wd>> /\ (Outlived(c)' <=> Outlived(c))
    BY <1>2, <1>9 DEF Restore, Outlived
  <2> QED
    BY <1>2, <1>4, <1>5, <1>6, <2>1, <2>2, <2>3 DEF Labelled
<1>10. CASE EndSession(c)
  <2>1. Step(c).op = "end" /\ ~At(c, "begin")
    BY <1>10 DEF EndSession, At
  <2>2. \/ prog[c][place[c] + 1].op = "stop"
        \/ prog[c][place[c] + 1].op = "begin" /\ prog[c] = Benchmark
    BY <1>3, <2>1 DEF Fits
  <2>3. UNCHANGED <<age, spent, wd>> /\ (Outlived(c)' <=> Outlived(c)) /\ ~lease'
    BY <1>2, <1>10 DEF EndSession, Outlived, H!Drop, helper, MeasureTyped, HelperTyped
  <2>4. prog[c] = Benchmark => wd' = "sleep"
    BY <1>4, <2>1, <2>3 DEF Outlived, MeasureTyped, HelperTyped
  <2> QED
    BY <1>2, <1>4, <1>5, <1>6, <2>1, <2>2, <2>3, <2>4 DEF Labelled
<1> QED
  BY <1>7, <1>8, <1>9, <1>10 DEF Call, Operation

(* It starts at rest: nobody else is under way, and nothing is kept.       *)
LEMMA StartAlone ==
  ASSUME MeasureTyped, NEW c \in Clients, Start(c), NEW o \in Clients
  PROVE  ByItself(o)' /\ Labelled(o)'
<1>1. PICK p \in Programs : prog' = [prog EXCEPT ![c] = p]
  BY DEF Start
<1>2. /\ UNCHANGED <<lease, kept, wd, phase>> /\ prog[c] = <<>> /\ place' = [place EXCEPT ![c] = 1]
      /\ alone' = [i \in Clients |->
           IF i = c THEN ~lease /\ kept = {} /\ wd = "sleep" /\ \A j \in Clients : place[j] = Stopped
           ELSE alone[i] /\ place[i] = Stopped]
  BY DEF Start, helper, run, Goto
<1>3. phase'[c] = "ready"
  BY <1>2, ProgramMade DEF MeasureTyped, AtStep, Measures, Columns
<1>4. CASE o # c
  <2>1. alone'[o] => place'[o] = Stopped
    BY <1>2, <1>4 DEF MeasureTyped, Columns
  <2> QED
    BY <2>1 DEF ByItself, Labelled
<1>5. CASE o = c
  <2>1. alone'[c] => /\ ~lease' /\ kept' = {} /\ wd' = "sleep"
                     /\ \A j \in Clients : j # c => place'[j] = Stopped
    BY <1>2 DEF MeasureTyped, Columns
  <2>2. prog'[c] = p /\ place'[c] = 1 /\ Step(c)' = p[1]
    BY <1>1, <1>2 DEF MeasureTyped, Columns, Step
  <2>3. HasHelper(prog'[c]) => p[1].op = "begin"
    BY <2>2, ProgramMade
  <2>4. HasHelper(prog'[c]) => At(c, "begin")' /\ ~Measures(c)'
    BY <2>2, <2>3 DEF At, Measures, Stopped
  <2>5. ByItself(c)'
    BY <2>1 DEF ByItself
  <2>6. Labelled(c)'
    BY <1>3, <2>1, <2>2, <2>3, <2>4 DEF Labelled
  <2> QED
    BY <1>5, <2>5, <2>6
<1> QED
  BY <1>4, <1>5

(* A run begins under its settings, or after the session was lost, and     *)
(* nobody else changes them.                                               *)
LEMMA RunAlone ==
  ASSUME MeasureTyped, NEW c \in Clients, ByItself(c), Labelled(c), Launch(c) \/ Report(c)
  PROVE  ByItself(c)' /\ Labelled(c)'
<1>1. /\ UNCHANGED <<lease, hw, kept, lost, age, wd, prog, place, spent, alone, broken>>
      /\ Measures(c)
  BY DEF Launch, Report, helper, history
<1>2. /\ UNCHANGED <<At(c, "begin"), At(c, "end"), Step(c), Measures(c), Outlived(c)>>
      /\ \A settings : Fair(c, settings)' <=> Fair(c, settings)
  BY <1>1 DEF At, Step, Measures, Outlived, Fair
<1>3. ByItself(c)'
  BY <1>1, <1>2 DEF ByItself
<1>4. under'[c] \subseteq {hw} \/ (under'[c] = under[c] /\ phase[c] # "ready")
  BY DEF Launch, Report, MeasureTyped, Columns
<1>5. Labelled(c)'
  BY <1>1, <1>2, <1>4 DEF Labelled
<1> QED
  BY <1>3, <1>5

(* After a run the settings are applied again, or put back.                *)
LEMMA NextRunAlone ==
  ASSUME MeasureTyped, NEW c \in Clients, ByItself(c), Labelled(c), NextRun(c)
  PROVE  ByItself(c)' /\ Labelled(c)'
<1>1. /\ UNCHANGED <<lease, hw, kept, age, wd, prog, spent, alone, broken>>
      /\ Measures(c) /\ place' = [place EXCEPT ![c] = place[c] + 1] /\ phase' = [phase EXCEPT ![c] = "ready"]
  BY DEF NextRun, helper, history, Goto
<1>2. /\ place'[c] = place[c] + 1 /\ Step(c)' = prog[c][place[c] + 1] /\ phase'[c] = "ready"
      /\ \A o \in Clients : o # c => place'[o] = place[o]
  BY <1>1 DEF MeasureTyped, Columns, Step
<1>3. /\ Fits(prog[c], place[c]) /\ Step(c) = prog[c][place[c]] /\ place[c] # Stopped
      /\ Step(c).op \in {"run", "sample"}
  BY <1>1, StepIs DEF Measures
<1>4. ~broken[c] => ~Bereft(prog[c], place[c])
  BY DEF MeasureTyped, AtStep
<1>5. ~At(c, "end")'
  BY <1>2, <1>3 DEF Fits, At
<1>6. ByItself(c)'
  BY <1>1, <1>2, <1>3, <1>5 DEF ByItself
<1>7. ~broken[c] /\ HasHelper(prog[c]) => Step(c)'.op \in {"apply", "restore"}
  BY <1>2, <1>3, <1>4 DEF Fits
<1>8. ~At(c, "begin") /\ (Outlived(c)' <=> Outlived(c))
  BY <1>1, <1>3 DEF At, Outlived
<1>9. Labelled(c)'
  BY <1>1, <1>2, <1>3, <1>7, <1>8 DEF Labelled, At, Measures
<1> QED
  BY <1>6, <1>9

(* The time that a run takes.                                              *)
LEMMA TickAlone ==
  ASSUME MeasureTyped, NEW c \in Clients, ByItself(c), Labelled(c), Tick
  PROVE  ByItself(c)' /\ Labelled(c)'
<1>1. /\ UNCHANGED <<lease, hw, kept, lost, wd, prog, place, phase, under, alone, broken>>
      /\ \E o \in Clients : Running(o)
      /\ age' = IF Beats THEN 0 ELSE IF age < Timeout THEN age + 1 ELSE age
      /\ spent' = [o \in Clients |->
                     IF Running(o) /\ spent[o] < Timeout THEN spent[o] + 1 ELSE spent[o]]
  BY DEF Tick, helper
<1>2. UNCHANGED <<At(c, "begin"), At(c, "end"), Step(c), Measures(c)>>
  BY <1>1 DEF At, Step, Measures
<1>3. ByItself(c)'
  BY <1>1, <1>2 DEF ByItself
<1> SUFFICES ASSUME alone[c], ~broken[c], place[c] # Stopped, HasHelper(prog[c]) PROVE Labelled(c)'
  BY <1>1, <1>3 DEF Labelled
<1>4. Running(c) /\ phase[c] = "running"
  BY <1>1 DEF ByItself, Running
<1>5. Measures(c) /\ Step(c).op \in {"run", "sample"} /\ ~At(c, "begin")
  BY <1>4 DEF MeasureTyped, AtStep, Measures, At
<1>6. age <= spent[c] /\ (wd = "decided" => Outlived(c)) /\ (lease \/ Outlived(c))
      /\ Fair(c, hw) /\ (\A settings \in under[c] : Fair(c, settings))
      /\ (prog[c] = Benchmark => age = 0)
  BY <1>4, <1>5 DEF Labelled
<1>7. age \in Nat /\ age <= Timeout /\ spent[c] \in Nat /\ spent[c] <= Timeout /\ Timeout \in Nat
  BY MeasureAssumption DEF MeasureTyped, HelperTyped, Columns
<1>8. spent'[c] = IF spent[c] < Timeout THEN spent[c] + 1 ELSE spent[c]
  BY <1>1, <1>4
<1>9. age' <= spent'[c]
  BY <1>1, <1>6, <1>7, <1>8
<1>10. Outlived(c) => Outlived(c)'
  BY <1>1, <1>7, <1>8 DEF Outlived
<1>11. \A settings : Fair(c, settings) => Fair(c, settings)'
  BY <1>1, <1>2, <1>10 DEF Fair
<1>12. prog[c] = Benchmark => age' = 0
  <2>1. prog[c] = Benchmark => Step(c).op = "sample"
    BY <1>5, StepIs DEF Fits
  <2>2. prog[c] = Benchmark => Beats
    BY <1>4, <2>1 DEF Beats, At, Running
  <2> QED
    BY <1>1, <2>2
<1> QED
  BY <1>1, <1>2, <1>5, <1>6, <1>9, <1>10, <1>12, <1>11 DEF Labelled

(* The watchdog decides only over a session that has been measured for as  *)
(* long as it waits.                                                       *)
LEMMA DecideAlone ==
  ASSUME MeasureTyped, NEW c \in Clients, ByItself(c), Labelled(c), Decide
  PROVE  ByItself(c)' /\ Labelled(c)'
<1>1. /\ UNCHANGED <<lease, hw, kept, lost, age, prog, place, phase, under, spent, alone, broken>>
      /\ lease /\ age = Timeout
  BY DEF Decide, helper, run, history
<1>2. UNCHANGED <<At(c, "begin"), At(c, "end"), Step(c), Measures(c), Outlived(c)>>
  BY <1>1 DEF At, Step, Measures, Outlived
<1>3. ByItself(c)'
  BY <1>1, <1>2 DEF ByItself
<1> SUFFICES ASSUME alone[c], ~broken[c], place[c] # Stopped, HasHelper(prog[c]) PROVE Labelled(c)'
  BY <1>1, <1>3 DEF Labelled
<1>4. ~At(c, "begin") /\ age <= spent[c] /\ (prog[c] = Benchmark => age = 0)
  BY <1>1 DEF Labelled
<1>5. spent[c] = Timeout /\ prog[c] # Benchmark
  BY <1>1, <1>4, MeasureAssumption DEF MeasureTyped, Columns
<1>6. \A settings : Fair(c, settings)' <=> Fair(c, settings)
  BY <1>1, <1>2 DEF Fair
<1> QED
  BY <1>1, <1>2, <1>4, <1>5, <1>6 DEF Labelled, Outlived

(* So what it does then is done to a program that has outlived its         *)
(* session: it puts the user's settings back.                              *)
LEMMA ActAlone ==
  ASSUME MeasureTyped, UserHeld, NEW c \in Clients, ByItself(c), Labelled(c), Act
  PROVE  ByItself(c)' /\ Labelled(c)' /\ kept' = {}
<1>1. /\ UNCHANGED <<age, prog, place, phase, spent, alone, broken>> /\ wd = "decided" /\ wd' = "sleep"
      /\ kept' = {} /\ lost' = lost /\ (hw' \in kept \/ hw' = hw) /\ Undergo
  BY DEF Act, run, history, helper, PutBack, H!Release, H!Drop
<1>2. UNCHANGED <<At(c, "begin"), At(c, "end"), Step(c), Measures(c), Outlived(c)>>
  BY <1>1 DEF At, Step, Measures, Outlived
<1>3. ByItself(c)'
  BY <1>1, <1>2 DEF ByItself
<1> SUFFICES ASSUME alone[c], ~broken[c], place[c] # Stopped, HasHelper(prog[c]) PROVE Labelled(c)'
  BY <1>1, <1>3 DEF Labelled
<1>4. ~At(c, "begin") /\ Outlived(c) /\ age <= spent[c] /\ (prog[c] = Benchmark => age = 0)
  BY <1>1 DEF Labelled
<1>5. \A settings : Fair(c, settings)' <=> Fair(c, settings)
  BY <1>1, <1>2 DEF Fair
<1>6. Measures(c) => Fair(c, hw')
  <2>1. hw' \in kept => hw' = User \/ lost
    BY DEF UserHeld
  <2> QED
    BY <1>1, <1>4, <2>1 DEF Fair, Labelled
<1>7. phase[c] # "ready" => \A settings \in under'[c] : Fair(c, settings)
  <2>1. phase[c] # "ready" => Measures(c) /\ \A settings \in under[c] : Fair(c, settings)
    BY DEF Labelled, MeasureTyped, AtStep
  <2>2. under'[c] \subseteq under[c] \cup {hw'}
    BY <1>1 DEF Undergo
  <2> QED
    BY <1>6, <2>1, <2>2
<1> QED
  BY <1>1, <1>2, <1>4, <1>5, <1>6, <1>7 DEF Labelled

(* Every step keeps it so.                                                 *)
LEMMA AloneStep ==
  ASSUME MeasureTyped, UserHeld, \A c \in Clients : ByItself(c) /\ Labelled(c), [MNext]_mvars, NEW o \in Clients
  PROVE  ByItself(o)' /\ Labelled(o)'
<1>1. ASSUME NEW c \in Clients, Start(c) PROVE ByItself(o)' /\ Labelled(o)'
  BY <1>1, StartAlone
<1>2. ASSUME NEW c \in Clients, place[c] # Stopped, o # c, place'[o] = place[o], alone'[o] = alone[o]
      PROVE  ByItself(o)' /\ Labelled(o)'
  BY <1>2, OthersRest
<1>3. ASSUME NEW c \in Clients, Call(c) PROVE ByItself(o)' /\ Labelled(o)'
  <2>1. place[c] # Stopped /\ alone' = alone /\ (o # c => place'[o] = place[o])
    BY <1>3, CallIs, CallGoes
  <2> QED
    BY <1>2, <1>3, <2>1, CallByItself, CallLabelled
<1>4. ASSUME NEW c \in Clients, CallThrows(c) PROVE ByItself(o)' /\ Labelled(o)'
  <2>1. place[c] # Stopped /\ alone' = alone /\ (o # c => place'[o] = place[o])
    BY <1>4, ThrowIs, CallGoes
  <2>2. broken'[c]
    BY <1>4, ThrowIs DEF MeasureTyped, Columns
  <2>3. Labelled(c)'
    BY <2>2 DEF Labelled
  <2> QED
    BY <1>2, <1>4, <2>1, <2>3, ThrowByItself
<1>5. ASSUME NEW c \in Clients, Launch(c) \/ Report(c) PROVE ByItself(o)' /\ Labelled(o)'
  <2>1. place[c] # Stopped /\ UNCHANGED <<place, alone>>
    BY <1>5 DEF Launch, Report, Measures, history
  <2> QED
    BY <1>2, <1>5, <2>1, RunAlone
<1>6. ASSUME NEW c \in Clients, NextRun(c) PROVE ByItself(o)' /\ Labelled(o)'
  <2>1. place[c] # Stopped /\ alone' = alone /\ (o # c => place'[o] = place[o])
    BY <1>6 DEF NextRun, Measures, history, Goto, MeasureTyped, Columns
  <2> QED
    BY <1>2, <1>6, <2>1, NextRunAlone
<1>7. ASSUME NEW c \in Clients, Stop(c) PROVE ByItself(o)' /\ Labelled(o)'
  <2>1. /\ place[c] # Stopped /\ alone' = alone /\ (o # c => place'[o] = place[o])
        /\ place'[c] = Stopped
    BY <1>7 DEF Stop, Goto, MeasureTyped, Columns
  <2>2. ByItself(c)' /\ Labelled(c)'
    BY <2>1 DEF ByItself, Labelled
  <2> QED
    BY <1>2, <1>7, <2>1, <2>2
<1>8. CASE Wait
  <2>1. place'[o] = Stopped
    BY <1>8 DEF Wait
  <2> QED
    BY <2>1 DEF ByItself, Labelled
<1>9. CASE UNCHANGED mvars
  <2>1. UNCHANGED <<lease, hw, kept, lost, age, wd, prog, place, phase, under, spent, alone, broken>>
    BY <1>9 DEF mvars, helper, run, history
  <2>2. /\ UNCHANGED <<At(o, "begin"), At(o, "end"), Step(o), Measures(o), Outlived(o)>>
        /\ \A settings : Fair(o, settings)' <=> Fair(o, settings)
    BY <2>1 DEF At, Step, Measures, Outlived, Fair
  <2> QED
    BY <2>1, <2>2 DEF ByItself, Labelled
<1> QED
  BY <1>1, <1>3, <1>4, <1>5, <1>6, <1>7, <1>8, <1>9, TickAlone, DecideAlone, ActAlone DEF MNext

-----------------------------------------------------------------------------
(* Programs that share the helper.                                         *)

(* A program that restores before it can end anybody's session.            *)
Owes(c) ==
  /\ place[c] # Stopped /\ ~broken[c] /\ HasHelper(prog[c])
  /\ Step(c).op \in {"begin", "apply", "run", "sample", "restore"}

(* Only a program that was alone is disturbed.                             *)
Undisturbed == \A c \in Clients : broken[c] => alone[c]

(* An original that is kept is owed by a program, or by the watchdog: then *)
(* nobody is about to end the session.                                     *)
KeptIsOwed ==
  (Undisturbed /\ kept # {}) =>
    \/ \E c \in Clients : Owes(c)
    \/ lease /\ \A c \in Clients : ~At(c, "end")

(* Those that are alone, and their labels.                                 *)
AloneInv == MeasureTyped /\ UserHeld /\ \A c \in Clients : ByItself(c) /\ Labelled(c)

(* A program that is alone is the only one that could end the session, and *)
(* does not while an original is kept.                                     *)
LEMMA AloneIsOwed ==
  ASSUME NEW c \in Clients, ByItself(c), alone[c], place[c] # Stopped, kept # {}
  PROVE  lease /\ \A o \in Clients : ~At(o, "end")
BY DEF ByItself, At

(* Who owes goes on owing while it stands where it is.                     *)
LEMMA OwesOn ==
  ASSUME NEW c \in Clients, Owes(c), place'[c] = place[c], prog'[c] = prog[c], broken'[c] = broken[c]
  PROVE  Owes(c)'
BY DEF Owes, Step

(* Nothing that it depends on changes.                                     *)
LEMMA OwedStill ==
  ASSUME KeptIsOwed, UNCHANGED <<lease, kept, prog, place, broken, alone>>
  PROVE  KeptIsOwed'
BY DEF KeptIsOwed, Undisturbed, Owes, At, Step

(* A program that starts with an original kept is not alone.               *)
LEMMA StartOwed ==
  ASSUME MeasureTyped, KeptIsOwed, NEW c \in Clients, Start(c)
  PROVE  KeptIsOwed'
<1> SUFFICES ASSUME Undisturbed', kept' # {}
             PROVE  \/ \E o \in Clients : Owes(o)'
                    \/ lease' /\ \A o \in Clients : ~At(o, "end")'
  BY DEF KeptIsOwed
<1>1. PICK p \in Programs : prog' = [prog EXCEPT ![c] = p]
  BY DEF Start
<1>2. /\ UNCHANGED <<lease, kept, broken>> /\ prog[c] = <<>> /\ place' = [place EXCEPT ![c] = 1]
      /\ alone' = [i \in Clients |->
           IF i = c THEN ~lease /\ kept = {} /\ wd = "sleep" /\ \A j \in Clients : place[j] = Stopped
           ELSE alone[i] /\ place[i] = Stopped]
  BY DEF Start, helper, Goto
<1>3. place[c] = Stopped
  BY <1>2, ProgramMade DEF MeasureTyped, AtStep
<1>4. Undisturbed
  BY <1>2 DEF Undisturbed
<1>5. ASSUME NEW o \in Clients, o # c PROVE place'[o] = place[o] /\ prog'[o] = prog[o]
  BY <1>1, <1>2, <1>5 DEF MeasureTyped, Columns
<1>6. ~At(c, "end")'
  <2>1. Step(c)' = p[1]
    BY <1>1, <1>2 DEF MeasureTyped, Columns, Step
  <2>2. p[1].op # "end"
    BY ProgramMade
  <2> QED
    BY <2>1, <2>2 DEF At
<1>7. CASE \E o \in Clients : Owes(o)
  <2>1. PICK o \in Clients : Owes(o)
    BY <1>7
  <2>2. o # c
    BY <1>3, <2>1 DEF Owes
  <2> QED
    BY <1>2, <1>5, <2>1, <2>2, OwesOn
<1>8. CASE lease /\ \A o \in Clients : ~At(o, "end")
  BY <1>2, <1>5, <1>6, <1>8 DEF At, Step
<1> QED
  BY <1>2, <1>4, <1>7, <1>8 DEF KeptIsOwed

(* A call that is answered: who applies owes, who ends the session is not  *)
(* the one who does.                                                       *)
LEMMA CallOwed ==
  ASSUME AloneInv, KeptIsOwed, NEW c \in Clients, Call(c)
  PROVE  KeptIsOwed'
<1> SUFFICES ASSUME Undisturbed', kept' # {}
             PROVE  \/ \E o \in Clients : Owes(o)'
                    \/ lease' /\ \A o \in Clients : ~At(o, "end")'
  BY DEF KeptIsOwed
<1>1. CallsTo(c, place[c] + 1) /\ broken' = broken /\ place[c] + 1 \in DOMAIN prog[c] /\ MeasureTyped
  BY CallIs DEF AloneInv
<1>2. /\ place[c] # Stopped /\ place'[c] = place[c] + 1 /\ Step(c)' = prog[c][place[c] + 1]
      /\ UNCHANGED <<prog, alone>> /\ \A o \in Clients : o # c => place'[o] = place[o]
  BY <1>1, CallGoes
<1>3. /\ Fits(prog[c], place[c]) /\ Step(c) = prog[c][place[c]] /\ place[c] \in Nat \ {0}
      /\ prog[c] \in Programs
  BY <1>1, <1>2, StepIs
<1>4. place'[c] # Stopped
  BY <1>2, <1>3 DEF Stopped
<1>5. Undisturbed
  BY <1>1, <1>2 DEF Undisturbed
<1>6. CASE broken[c]
  <2>1. alone'[c] /\ ByItself(c)'
    BY <1>1, <1>6, CallByItself DEF Undisturbed, AloneInv
  <2>2. lease' /\ \A o \in Clients : ~At(o, "end")'
    BY <1>4, <2>1 DEF ByItself, At
  <2> QED
    BY <2>2
<1>7. CASE ~broken[c] /\ (BeginSession(c) \/ ApplyConfiguration(c))
  <2>1. Step(c).op \in {"begin", "apply"}
    BY <1>7 DEF BeginSession, ApplyConfiguration, At
  <2>2. HasHelper(prog[c]) /\ prog[c][place[c] + 1].op \in {"apply", "run", "sample"}
    BY <1>3, <2>1 DEF Fits
  <2>3. Owes(c)'
    BY <1>1, <1>2, <1>4, <1>7, <2>2 DEF Owes
  <2> QED
    BY <2>3
<1>8. ~Restore(c)
  BY RestoreClears
<1>9. CASE EndSession(c)
  <2>1. At(c, "end") /\ kept' = kept
    BY <1>9 DEF EndSession, helper, H!Drop
  <2>2. PICK o \in Clients : Owes(o)
    BY <1>5, <2>1 DEF KeptIsOwed
  <2>3. o # c
    BY <2>1, <2>2 DEF Owes, At
  <2>4. Owes(o)'
    BY <1>1, <1>2, <2>2, <2>3, OwesOn
  <2> QED
    BY <2>4
<1> QED
  BY <1>6, <1>7, <1>8, <1>9 DEF Call, Operation

(* One that throws: then the program was alone.                            *)
LEMMA ThrowOwed ==
  ASSUME AloneInv, NEW c \in Clients, CallThrows(c)
  PROVE  KeptIsOwed'
<1> SUFFICES ASSUME Undisturbed', kept' # {}
             PROVE  lease' /\ \A o \in Clients : ~At(o, "end")'
  BY DEF KeptIsOwed
<1>1. CallsTo(c, Step(c).catch) /\ broken' = [broken EXCEPT ![c] = TRUE] /\ MeasureTyped
  BY ThrowIs DEF AloneInv
<1>2. /\ place[c] # Stopped /\ alone' = alone
      /\ \A o \in Clients : o # c => place'[o] = place[o]
  BY <1>1, CallGoes
<1>3. alone[c]
  BY <1>1, <1>2 DEF Undisturbed, MeasureTyped, Columns
<1>4. ByItself(c)' /\ lease' /\ \A o \in Clients : o # c => place[o] = Stopped
  BY <1>1, <1>2, <1>3, ThrowByItself DEF AloneInv, ByItself
<1>5. CASE place'[c] = Stopped
  BY <1>2, <1>4, <1>5 DEF At
<1>6. CASE place'[c] # Stopped
  BY <1>2, <1>3, <1>4, <1>6 DEF ByItself, At
<1> QED
  BY <1>5, <1>6

(* After a run the settings are applied again, or put back.                *)
LEMMA NextRunOwed ==
  ASSUME MeasureTyped, KeptIsOwed, NEW c \in Clients, NextRun(c)
  PROVE  KeptIsOwed'
<1> SUFFICES ASSUME Undisturbed', kept' # {}
             PROVE  \/ \E o \in Clients : Owes(o)'
                    \/ lease' /\ \A o \in Clients : ~At(o, "end")'
  BY DEF KeptIsOwed
<1>1. /\ UNCHANGED <<lease, kept, prog, alone, broken>>
      /\ Measures(c) /\ place' = [place EXCEPT ![c] = place[c] + 1]
  BY DEF NextRun, helper, history, Goto
<1>2. /\ place'[c] = place[c] + 1 /\ Step(c)' = prog[c][place[c] + 1]
      /\ \A o \in Clients : o # c => place'[o] = place[o]
  BY <1>1 DEF MeasureTyped, Columns, Step
<1>3. /\ Fits(prog[c], place[c]) /\ Step(c) = prog[c][place[c]] /\ place[c] \in Nat \ {0}
      /\ Step(c).op \in {"run", "sample"}
  BY <1>1, StepIs DEF Measures
<1>4. ~broken[c] => ~Bereft(prog[c], place[c])
  BY DEF MeasureTyped, AtStep
<1>5. CASE \E o \in Clients : Owes(o)
  <2>1. PICK o \in Clients : Owes(o)
    BY <1>5
  <2>2. CASE o = c
    <3>1. ~broken[c] /\ HasHelper(prog[c])
      BY <2>1, <2>2 DEF Owes
    <3>2. Step(c)'.op \in {"apply", "restore"}
      BY <1>2, <1>3, <1>4, <3>1 DEF Fits
    <3>3. place'[c] # Stopped
      BY <1>2, <1>3 DEF Stopped
    <3>4. Owes(c)'
      BY <1>1, <3>1, <3>2, <3>3 DEF Owes
    <3> QED
      BY <3>4
  <2>3. CASE o # c
    BY <1>1, <1>2, <2>1, <2>3, OwesOn
  <2> QED
    BY <2>2, <2>3
<1>6. CASE lease /\ \A o \in Clients : ~At(o, "end")
  <2>1. ~At(c, "end")'
    BY <1>2, <1>3 DEF Fits, At
  <2> QED
    BY <1>1, <1>2, <1>6, <2>1 DEF At, Step
<1>7. Undisturbed
  BY <1>1 DEF Undisturbed
<1> QED
  BY <1>1, <1>5, <1>6, <1>7 DEF KeptIsOwed

(* Who stops owing something was alone, and leaves it to the watchdog.     *)
LEMMA StopOwed ==
  ASSUME AloneInv, KeptIsOwed, NEW c \in Clients, Stop(c)
  PROVE  KeptIsOwed'
<1> SUFFICES ASSUME Undisturbed', kept' # {}
             PROVE  \/ \E o \in Clients : Owes(o)'
                    \/ lease' /\ \A o \in Clients : ~At(o, "end")'
  BY DEF KeptIsOwed
<1>1. /\ UNCHANGED <<lease, kept, prog, alone>> /\ place[c] # Stopped
      /\ place'[c] = Stopped /\ (broken'[c] <=> (broken[c] \/ Step(c).op # "stop"))
      /\ \A o \in Clients : o # c => place'[o] = place[o] /\ broken'[o] = broken[o]
  BY DEF Stop, helper, Goto, AloneInv, MeasureTyped, Columns
<1>2. Undisturbed
  BY <1>1 DEF Undisturbed
<1>3. CASE \E o \in Clients : Owes(o)
  <2>1. PICK o \in Clients : Owes(o)
    BY <1>3
  <2>2. CASE o = c
    <3>1. alone[c]
      BY <1>1, <2>1, <2>2 DEF Owes, Undisturbed
    <3>2. lease /\ \A i \in Clients : ~At(i, "end")
      BY <1>1, <3>1, AloneIsOwed DEF AloneInv
    <3> QED
      BY <1>1, <3>2 DEF At, Step
  <2>3. CASE o # c
    BY <1>1, <2>1, <2>3, OwesOn
  <2> QED
    BY <2>2, <2>3
<1>4. CASE lease /\ \A o \in Clients : ~At(o, "end")
  BY <1>1, <1>4 DEF At, Step
<1> QED
  BY <1>1, <1>2, <1>3, <1>4 DEF KeptIsOwed

(* Every step keeps it so.                                                 *)
LEMMA OwedStep ==
  ASSUME AloneInv, KeptIsOwed, [MNext]_mvars
  PROVE  KeptIsOwed'
<1>1. ASSUME NEW c \in Clients, Start(c) \/ NextRun(c) PROVE KeptIsOwed'
  BY <1>1, StartOwed, NextRunOwed DEF AloneInv
<1>2. ASSUME NEW c \in Clients, Call(c) \/ CallThrows(c) \/ Stop(c) PROVE KeptIsOwed'
  BY <1>2, CallOwed, ThrowOwed, StopOwed
<1>3. ASSUME NEW c \in Clients, Launch(c) \/ Report(c) PROVE KeptIsOwed'
  <2>1. UNCHANGED <<lease, kept, prog, place, broken, alone>>
    BY <1>3 DEF Launch, Report, helper, history
  <2> QED
    BY <2>1, OwedStill
<1>4. CASE Tick \/ Wait \/ Decide \/ UNCHANGED mvars
  <2>1. UNCHANGED <<lease, kept, prog, place, broken, alone>>
    BY <1>4 DEF Tick, Wait, Decide, helper, history, mvars
  <2> QED
    BY <2>1, OwedStill
<1>5. CASE Act
  <2>1. kept' = {}
    BY <1>5 DEF Act, helper, PutBack, H!Release, H!Drop
  <2> QED
    BY <2>1 DEF KeptIsOwed
<1> QED
  BY <1>1, <1>2, <1>3, <1>4, <1>5 DEF MNext

(* At first nobody has started.                                            *)
LEMMA AloneInit == MInit => AloneInv /\ KeptIsOwed
<1> SUFFICES ASSUME MInit PROVE AloneInv /\ KeptIsOwed
  OBVIOUS
<1>1. ASSUME NEW c \in Clients PROVE ByItself(c) /\ Labelled(c)
  BY DEF MInit, ByItself, Labelled
<1>2. KeptIsOwed /\ UserHeld
  BY DEF MInit, KeptIsOwed, UserHeld
<1> QED
  BY <1>1, <1>2, MeasureTypedInit DEF AloneInv

(* A program that has the helper for itself goes on having it.             *)
LEMMA AloneInvStep == AloneInv /\ [MNext]_mvars => AloneInv'
<1> SUFFICES ASSUME AloneInv, [MNext]_mvars PROVE AloneInv'
  OBVIOUS
<1>1. MeasureTyped' /\ UserHeld'
  BY MeasureTypedStep, UserHeldStep DEF AloneInv
<1>2. ASSUME NEW c \in Clients PROVE ByItself(c)' /\ Labelled(c)'
  BY AloneStep DEF AloneInv
<1> QED
  BY <1>1, <1>2 DEF AloneInv

(* A run of a program that has the machine for itself, and whose calls     *)
(* arrive, is measured under the settings it asked for, from beginning to  *)
(* end, and with boost as it is labelled.  Where its session had been      *)
(* measured for as long as the watchdog waits, which does not happen to    *)
(* the benchmark, it may be measured under the user's settings instead,    *)
(* and under no others: whenever the watchdog acts.                        *)
THEOREM LabelsHold == MSpec => []LabelHolds
<1>1. MInit => AloneInv
  BY AloneInit
<1>2. AloneInv /\ [MNext]_mvars => AloneInv'
  BY AloneInvStep
<1>3. AloneInv => LabelHolds
  <2> SUFFICES ASSUME AloneInv, NEW c \in Clients,
                      phase[c] = "reported", alone[c], ~broken[c], HasHelper(prog[c]),
                      NEW settings \in under[c]
               PROVE  \/ AsAsked(Step(c), settings)
                      \/ spent[c] = Timeout /\ ~At(c, "sample") /\ (settings = User \/ lost)
    BY DEF LabelHolds
  <2>1. Measures(c) /\ place[c] # Stopped /\ Labelled(c) /\ MeasureTyped
    BY DEF AloneInv, MeasureTyped, AtStep, Measures
  <2>2. Fair(c, settings)
    BY <2>1 DEF Labelled
  <2>3. At(c, "sample") => prog[c] = Benchmark
    BY <2>1, StepIs DEF Fits, At
  <2> QED
    BY <2>2, <2>3 DEF Fair, Outlived
<1> QED
  BY <1>1, <1>2, <1>3, PTL DEF MSpec

(* However the programs interleave, and wherever one that was alone was    *)
(* killed or had a call thrown: when all have stopped and the lease is     *)
(* free, the user's settings are in force, unless the helper lost them.    *)
THEOREM SettingsDoComeBack == MSpec => []SettingsComeBack
<1> DEFINE Inv == AloneInv /\ KeptIsOwed
<1>1. MInit => Inv
  BY AloneInit
<1>2. Inv /\ [MNext]_mvars => Inv'
  <2> SUFFICES ASSUME Inv, [MNext]_mvars PROVE Inv'
    OBVIOUS
  <2>1. AloneInv'
    BY AloneInvStep
  <2>2. KeptIsOwed'
    BY OwedStep
  <2> QED
    BY <2>1, <2>2
<1>3. Inv => SettingsComeBack
  <2> SUFFICES ASSUME Inv, \A c \in Clients : place[c] = Stopped /\ (broken[c] => alone[c]), ~lease, ~lost
               PROVE  hw = User /\ kept = {}
    BY DEF SettingsComeBack
  <2>1. kept = {}
    BY DEF KeptIsOwed, Undisturbed, Owes
  <2> QED
    BY <2>1 DEF UserHeld, AloneInv
<1> QED
  BY <1>1, <1>2, <1>3, PTL DEF MSpec

=============================================================================
