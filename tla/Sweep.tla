------------------------------- MODULE Sweep --------------------------------
(***************************************************************************)
(* api/engine.py: what a sweep measures and what it makes of the runs.     *)
(* CandidateConfigs is the order of the points, so that a sweep cut off    *)
(* anywhere has measured the ends of the curve first.  ProfileRows merges  *)
(* the calibration fixtures with the runs, and EngineSelect asks the       *)
(* optimizer.  Frequencies are kHz, 0 for no cap.                          *)
(***************************************************************************)
EXTENDS Optimizer, SequencesExt

(* What makes two points the same: (cpus, boost, cap, workers).            *)
Key(cpus, boost, cap) == [cpus |-> cpus, boost |-> boost, cap |-> cap, workers |-> Len(cpus)]

Distinct(s) ==
  LET first == SelectSeq([i \in DOMAIN s |-> i], LAMBDA i : \A j \in 1..(i - 1) : s[j] # s[i])
  IN  [n \in DOMAIN first |-> s[first[n]]]

InOrder(S) == SetToSortSeq(S, LAMBDA a, b : a < b)

(* The points of every layout, or of every setting, in turn. *)
ByLayout(layouts, settings) ==
  FlattenSeq([i \in DOMAIN layouts |->
    [j \in DOMAIN settings |-> Key(layouts[i], settings[j].boost, settings[j].cap)]])

BySetting(layouts, settings) ==
  FlattenSeq([j \in DOMAIN settings |->
    [i \in DOMAIN layouts |-> Key(layouts[i], settings[j].boost, settings[j].cap)]])

(* cores: one logical cpu of each physical core; fast and eff: the logical *)
(* cpus of the two classes; lo and hi: the range of the caps.              *)
CandidateConfigs(fast, eff, cores, lo, hi, passive) ==
  LET Half(s) == SubSeq(s, 1, IF Len(s) < 2 THEN 1 ELSE Len(s) \div 2)
      Physical(s) == LET t == SelectSeq(s, LAMBDA c : c \in cores)
                     IN  IF t # <<>> THEN t ELSE Half(s)
      fastPhys == Physical(fast)
      effPhys == Physical(eff)
      phys == InOrder(ToSet(fastPhys) \cup ToSet(effPhys))
      logical == InOrder(ToSet(fast) \cup ToSet(eff))
      Base(cap) == [boost |-> FALSE, cap |-> cap]
      Part(n, d) == Base(lo + (2 * n * (hi - lo) + d) \div (2 * d))
      Parts(ns, d) == [i \in DOMAIN ns |-> Part(ns[i], d)]
      Odd(d) == [i \in 1..(d \div 2) |-> Part(2 * i - 1, d)]
      stock == [boost |-> TRUE, cap |-> 0]
      ends == <<stock, Base(lo), Base(hi)>>
      primary == <<phys, fastPhys>>
      secondary == <<effPhys, logical>>
      single == <<<<fastPhys[1]>>, <<effPhys[1]>>>>
      pcaps == [i \in 1..5 |-> [boost |-> TRUE, cap |-> <<4500000, 2500000, 3500000, 3000000,
                                                          4000000>>[i]]]
  IN  Distinct(
        ByLayout(primary, ends) \o ByLayout(primary, Parts(<<1>>, 2))
        \o ByLayout(secondary, ends)
        \o BySetting(primary, Parts(<<1, 3>>, 4)) \o ByLayout(secondary, Parts(<<1>>, 2))
        \o ByLayout(single, <<stock, Base(hi)>>)
        \o BySetting(primary, Parts(<<1, 3, 5, 7>>, 8)) \o BySetting(secondary, Parts(<<1, 3>>, 4))
        \o (IF passive THEN BySetting(primary, pcaps) ELSE <<>>)
        \o BySetting(<<phys, fastPhys, effPhys>>, Odd(16) \o Odd(32)))

(* Mutant of MakeConfigId: the cap is left out.                            *)
UncappedConfigId(k) ==
  [workers |-> k.workers, boost |-> k.boost, cap |-> 0,
   cpus |-> SubSeq(k.cpus, 1, IF Len(k.cpus) < 2 THEN Len(k.cpus) ELSE 2)]

(* make_config_id: the cap is part of it only without boost, and only the  *)
(* first two cpus are.                                                     *)
MakeConfigId(k) ==
  [workers |-> k.workers, boost |-> k.boost, cap |-> IF k.boost THEN 0 ELSE k.cap \div 1000,
   cpus |-> SubSeq(k.cpus, 1, IF Len(k.cpus) < 2 THEN Len(k.cpus) ELSE 2)]

-----------------------------------------------------------------------------
(* A run: [key, ok, runtime, energy]; a row of the fixtures: [key, scale,  *)
(* runtime, energy], scale for the chunks it was short of.                 *)
Scaled(cal) ==
  [i \in DOMAIN cal |->
    [key |-> cal[i].key, runtime |-> cal[i].runtime * cal[i].scale,
     energy |-> IF cal[i].energy = NoEnergy THEN NoEnergy ELSE cal[i].energy * cal[i].scale]]

(* Of numbers in any places.  They are even, so that the middle of two of  *)
(* them is whole.                                                          *)
Kth(f, k) ==
  CHOOSE v \in Range(f) :
    /\ Cardinality({i \in DOMAIN f : f[i] < v}) < k
    /\ k <= Cardinality({i \in DOMAIN f : f[i] <= v})

Median(f) ==
  LET n == Cardinality(DOMAIN f)
  IN  (Kth(f, (n + 1) \div 2) + Kth(f, n \div 2 + 1)) \div 2

(* A row of the profile, from the samples in some places. *)
Row(key, all, places) ==
  LET known == {i \in places : all[i].energy # NoEnergy}
      runtimes == [i \in places |-> all[i].runtime]
  IN  [key |-> key, pos |-> Min(places), median |-> Median(runtimes), worst |-> Max(Range(runtimes)),
       energy |-> IF known = {} THEN NoEnergy ELSE Median([i \in known |-> all[i].energy])]

(* _profile_rows: a key that was run is taken from its runs alone. *)
Fresh(cal, runs) == {Len(cal) + i : i \in {j \in DOMAIN runs : runs[j].ok}}

Counted(cal, runs) ==
  {i \in DOMAIN cal : \A j \in DOMAIN runs : runs[j].ok => runs[j].key # cal[i].key}
    \cup Fresh(cal, runs)

ProfileRows(cal, runs) ==
  LET all == Scaled(cal) \o runs
      Of(k) == {i \in Counted(cal, runs) : all[i].key = k}
  IN  {Row(k, all, Of(k)) : k \in {all[i].key : i \in Counted(cal, runs)}}

(* What _select makes of a row: its only sample is the median. *)
Summary(row, base) ==
  [id |-> MakeConfigId(row.key), key |-> row.key, pos |-> row.pos, boost |-> row.key.boost,
   base |-> base, usable |-> row.energy # NoEnergy,
   worst |-> row.median, median |-> row.median, energy |-> row.energy]

(* The fastest stock row, or the fastest. *)
EngineBaseline(rows) ==
  LET stock == {r \in rows : r.key.boost}
      from == IF stock # {} THEN stock ELSE rows
  IN  FirstOf({r \in from : \A s \in from : r.median <= s.median})

(* goal: [mode, deadline, target, floor]; the margin is 5 percent. *)
EngineSelect(rows, goal) ==
  LET base == EngineBaseline(rows)
      C == {Summary(r, r = base) : r \in rows}
      baseId == MakeConfigId(base.key)
  IN  IF goal.mode = "preference"
      THEN SelectPreference(C, goal.target, goal.floor, baseId, 5)
      ELSE SelectDeadline(C, goal.deadline, baseId, 5, goal.task)

(* Mutant of Configurations: a list, with an entry for each row.           *)
RowByRow(rows, ids) == {Summary(r, MakeConfigId(r.key) \in ids) : r \in rows}

(* The dictionary _persist makes: of two rows with one id the later stays. *)
Configurations(rows, ids) ==
  LET Of(id) == {r \in rows : MakeConfigId(r.key) = id}
      Later(id) == CHOOSE r \in Of(id) : \A s \in Of(id) : s.pos <= r.pos
      Entry(id) == [Summary(Later(id), id \in ids)
                      EXCEPT !.worst = Later(id).worst, !.pos = Min({r.pos : r \in Of(id)})]
  IN  {Entry(id) : id \in {MakeConfigId(r.key) : r \in rows}}

(* profile.baseline_config_id, by apply_live_profile: {} or {id}. *)
ProfileBase(configs, sel) ==
  LET flagged == {c \in configs : c.base \/ c.boost}
      named == {id \in sel.base : Named(configs, id) # {}}
  IN  IF named # {} THEN named
      ELSE IF flagged # {} THEN {FirstOf(flagged).id}
      ELSE IF configs # {} THEN {FirstOf(configs).id} ELSE {}

=============================================================================
