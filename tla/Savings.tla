------------------------------ MODULE Savings -------------------------------
(***************************************************************************)
(* From the energy counter to the ledger of savings: a watch service       *)
(* (api/live.py) samples the counter every second and feeds the detector   *)
(* of bursts (core/watch.py); the energy of a burst that has ended becomes *)
(* a receipt, which goes to the ledger of core/store.py if the user has    *)
(* opted in, while requests opt in and out and clear it (api/app.py).      *)
(* What the service does to the CPU, and its other threads, are in Watch.  *)
(*                                                                         *)
(* Time is in seconds, power in watts, energy in joules.                   *)
(***************************************************************************)
EXTENDS Meter, Sequences, SequencesExt

CONSTANTS
  Setups,        \* how a service may be made, on one of the Backends
  Idle, Busy,    \* what the package draws
  Onset, Grace, Window,  \* onset_s, idle_grace_s, baseline_window_s
  Handlers,      \* requests at a time
  Horizon        \* bound: samples

ASSUME BoundsAssumption ==
  /\ {Idle, Busy, Onset, Grace, Window, Horizon} \subseteq Nat
  /\ Idle < Busy /\ Busy <= Ceiling

VARIABLES
  setup,     \* [backend, primed, range, control, once, objective, curve], and the bounds
             \* [missing, resets, requests] of failed reads, resets, and requests
  now,       \* seconds since the service was made
  prev,      \* the last reading: {} or {reading}
  d,         \* the detector
  segments,  \* the bursts that have ended
  rec,       \* record_savings_entry: "none", "check", "insert", "after"
  opted,     \* the preference energy_savings_opt_in
  ledger,    \* the table savings_ledger
  pc,        \* per request: 0, or the demo entry it is to put, or Count
  total,     \* history: the energy that was really drawn
  faults,    \* history: reads that failed, resets of the counter
  requests,  \* history: requests so far
  consent,   \* history: receipts being recorded while the user was opted in
  crossed    \* history: entries were put while another request was seeding

service == <<prev, d, segments, rec>>
vars == <<setup, now, count, service, opted, ledger, pc, total, faults, requests, consent, crossed>>

(* _best_energy_backend: the first counter that can be read, whose range   *)
(* may not be known; the helper's; or a script, which tells its power.     *)
Backend(counters, helper) ==
  IF counters # <<>> THEN [scripted |-> FALSE, range |-> Head(counters)]
  ELSE [scripted |-> ~helper, range |-> Wrap]

Backends == {Backend(counters, helper) : counters \in {<<>>, <<Wrap>>, <<{}>>}, helper \in BOOLEAN}

NoPower == -1

(* A service gives its detector no range, and a script has none; a primed  *)
(* baseline is one reading of the power; the points of a curve were        *)
(* measured (they are used only if they are not zero).                     *)
ASSUME SetupsAssumption ==
  \A s \in Setups :
    /\ s.backend \in Backends
    /\ s.range \in {{}, Wrap} /\ (s.backend.scripted => s.range = {})
    /\ \A primed \in s.primed : primed \subseteq Nat /\ \A x, y \in primed : x = y
    /\ \A c \in s.curve : {c.stock, c.config, c.stock_s, c.config_s} \subseteq Nat \ {0}

Only(S) == CHOOSE x \in S : TRUE

(* Twice the median of s. *)
Median2(s) ==
  LET Kth(k) == CHOOSE v \in ToSet(s) :
                  /\ Cardinality({i \in DOMAIN s : s[i] < v}) < k
                  /\ k <= Cardinality({i \in DOMAIN s : s[i] <= v})
  IN  Kth((Len(s) + 1) \div 2) + Kth(Len(s) \div 2 + 1)

-----------------------------------------------------------------------------
(* The detector.  base2 is twice the baseline, spread4 four times its      *)
(* spread; a reading is [at, uj] and, for the properties, the energy and   *)
(* the resets there had been by then and by the reading before.            *)

Detector(primed) ==
  [state |-> IF primed = {} THEN "calibrating" ELSE "idle", values |-> <<>>,
   base2 |-> IF primed = {} THEN 0 ELSE 2 * Only(primed), spread4 |-> IF primed = {} THEN 0 ELSE 4,
   cand |-> {}, n |-> 0, last |-> {}, quiet |-> {}]

(* threshold_w and idle_band_max_w *)
AboveBand(c, p) == 400 * p > 200 * c.base2 + Max({300 * c.spread4, 70 * c.base2, 1400})

InBand(c, p) == 400 * p <= 200 * c.base2 + Max({200 * c.spread4, 40 * c.base2, 1000})

Spike(values, p) ==
  LET prior2 == Median2(values)
  IN  400 * p > 200 * prior2 + Max({70 * prior2, 1400})

(* _set_baseline *)
SetBaseline(c, values) ==
  LET base2 == Median2(values)
      Off(v) == IF 2 * v > base2 THEN 2 * v - base2 ELSE base2 - 2 * v
  IN  [c EXCEPT !.values = values, !.state = "idle", !.base2 = base2,
                !.spread4 = Median2([i \in DOMAIN values |-> Off(values[i])])]

(* Mutant of Calibrate: no baseline is ever set.                           *)
CollectOnly(c, p) == [c EXCEPT !.values = Append(c.values, p)]

(* While calibrating: a sudden spike makes the samples before it the       *)
(* baseline, and two seconds make it all of them.  A sample without power  *)
(* is kept, and makes every later median raise.                            *)
Calibrate(c, p) ==
  LET values == Append(c.values, p)
      window == IF Window < 2 THEN Window ELSE 2
  IN  IF Len(values) < 2 \/ \E v \in ToSet(values) : v = NoPower THEN [c EXCEPT !.values = values]
      ELSE IF Spike(c.values, p)
           THEN [c EXCEPT !.values = values, !.state = "idle", !.base2 = Median2(c.values),
                          !.spread4 = 2]
      ELSE IF Len(values) > window THEN SetBaseline(c, values)
      ELSE [c EXCEPT !.values = values]

(* _adapt_baseline: the latest samples make the baseline. *)
Adapt(c, p) ==
  LET values == Append(c.values, p)
      cap == Max({8, Window})
  IN  SetBaseline(c, SubSeq(values, Max({1, Len(values) - cap + 1}), Len(values)))

(* Mutant of Rise: the first sample above the band confirms.               *)
RiseAtOnce(c, r) == [c EXCEPT !.cand = {r}, !.state = "active", !.last = {r}, !.quiet = {}]

(* A sample above the band: the first is where the burst will have begun,  *)
(* and it is confirmed once it has lasted.                                 *)
Rise(c, r) ==
  LET cand == IF c.cand = {} THEN {r} ELSE c.cand
      n == IF c.cand = {} THEN 1 ELSE c.n + 1
      confirmed == n >= Onset \/ \E s \in cand : r.at - s.at >= Onset
  IN  IF confirmed THEN [c EXCEPT !.cand = cand, !.n = n, !.state = "active", !.last = {r},
                                  !.quiet = {}]
      ELSE [c EXCEPT !.cand = cand, !.n = n]

(* One below it, while idle: an old candidate is dropped, and without one  *)
(* the baseline follows.                                                   *)
Dip(c, p, r) ==
  IF c.cand = {} THEN Adapt(c, p)
  ELSE IF \E s \in c.cand : r.at - s.at > Max({Onset + 2, 4})
       THEN [c EXCEPT !.cand = {}, !.n = 0]
  ELSE c

(* One in the idle band, while active: Closes says whether it ends the     *)
(* burst, which then ends with the last sample that was not in the band.   *)
Quiet(c, r) == IF c.quiet = {} THEN r.at ELSE Only(c.quiet)

Closes(c, p, r) ==
  /\ c.state = "active" /\ p # NoPower /\ InBand(c, p)
  /\ r.at - Quiet(c, r) >= Grace

Fall(c, p, r) ==
  IF ~InBand(c, p) THEN [c EXCEPT !.quiet = {}, !.last = {r}]
  ELSE IF Closes(c, p, r)
       THEN [c EXCEPT !.state = "idle", !.cand = {}, !.n = 0, !.last = {}, !.quiet = {}]
  ELSE [c EXCEPT !.quiet = {Quiet(c, r)}]

(* observe; without power the comparisons raise. *)
Observe(c, p, r) ==
  LET k == IF c.state = "calibrating" THEN Calibrate(c, p) ELSE c
  IN  IF k.state = "calibrating" \/ p = NoPower THEN k
      ELSE IF k.state = "idle" THEN IF AboveBand(k, p) THEN Rise(k, r) ELSE Dip(k, p, r)
      ELSE Fall(k, p, r)

(* A WatchSegment: the readings it is between, and its energy_j. *)
Segment(c) ==
  LET from == Only(c.cand)
      to == Only(c.last)
  IN  [from |-> from, to |-> to, runtime |-> to.at - from.at,
       energy |-> Energy(from.uj, to.uj, setup.range, to.at - from.at)]

-----------------------------------------------------------------------------
(* The receipt of a burst, in parts of a joule.  The estimates are the     *)
(* code's: 32.5 W of stock, of which 3.5, 10, 6.5 or 25.2 are saved, and   *)
(* 59 percent of the energy.                                               *)
Unit == 410

Positive(x) == IF x > 0 THEN x ELSE 0

Measured(seg) == \E e \in seg.energy : e > 0

(* With the measured energy of the stock configuration and of the one that *)
(* was matched: curve is {} or {[stock, config, stock_s, config_s]}.       *)
CurveSaving(seg, c) ==
  LET used == IF Measured(seg) THEN Unit * Only(seg.energy)
              ELSE (seg.runtime * Unit * c.config) \div c.config_s
      stock == IF Measured(seg) THEN (used * c.stock) \div c.config
               ELSE (seg.runtime * Unit * c.stock) \div c.stock_s
  IN  [stock |-> stock, saved |-> Positive(stock - used)]

(* Mutant of Saving: the estimate of the stock power is not corrected for  *)
(* what was measured.                                                      *)
FlatSaving(seg, objective, curve) ==
  [stock |-> seg.runtime * 13325, saved |-> seg.runtime * 1435]

Saving(seg, objective, curve) ==
  LET e == Unit * Only(seg.energy)
      flat == seg.runtime * 13325
      shield == seg.runtime * 1435
      less == IF objective = "deadline" THEN 4100 ELSE 2665
  IN  IF curve # {} THEN CurveSaving(seg, Only(curve))
      ELSE IF objective = "performance"
           THEN [stock |-> IF seg.energy # {} THEN e + shield ELSE flat, saved |-> shield]
      ELSE IF objective \in {"deadline", "balanced"}
           THEN [stock |-> flat, saved |-> IF Measured(seg) THEN Positive(flat - e)
                                      ELSE seg.runtime * less]
      ELSE IF Measured(seg) THEN [stock |-> (e * 100) \div 41, saved |-> (e * 100) \div 41 - e]
      ELSE [stock |-> flat, saved |-> seg.runtime * 10332]

Receipt(n) ==
  LET seg == segments[n]
      s == Saving(seg, setup.objective, setup.curve)
  IN  [kind |-> "watch", n |-> n, stock |-> s.stock, saved |-> s.saved,
       optimized |-> IF seg.energy # {} THEN Unit * Only(seg.energy) ELSE s.stock - s.saved]

(* get_savings_summary: SUM of a column *)
Total(column) ==
  LET sum[i \in 0..Len(ledger)] == IF i = 0 THEN 0 ELSE sum[i - 1] + column[i]
  IN  sum[Len(ledger)]

Summary ==
  [sessions |-> Len(ledger),
   stock |-> Total([i \in DOMAIN ledger |-> ledger[i].stock]),
   optimized |-> Total([i \in DOMAIN ledger |-> ledger[i].optimized]),
   saved |-> Total([i \in DOMAIN ledger |-> ledger[i].saved])]

Demo(n) == [kind |-> "demo", n |-> n, stock |-> 0, saved |-> 0, optimized |-> 0]

DemoEntries == 3

Count == DemoEntries + 1

-----------------------------------------------------------------------------
Init ==
  /\ setup \in Setups /\ now = 0 /\ count \in Starts /\ prev = {}
  /\ \E primed \in setup.primed : d = Detector(primed)
  /\ segments = <<>> /\ rec = "none" /\ opted = FALSE /\ ledger = <<>>
  /\ pc = [h \in Handlers |-> 0]
  /\ total = 0 /\ faults = [missing |-> 0, resets |-> 0] /\ requests = 0
  /\ consent = {} /\ crossed = FALSE

(* _on_idle: a burst that has ended is to be recorded by a service that    *)
(* controls.                                                               *)
OnIdle(ended) ==
  /\ segments' = IF ended THEN Append(segments, Segment(d)) ELSE segments
  /\ rec' = IF ended /\ setup.control THEN "check" ELSE "none"
  /\ consent' = IF ended /\ setup.control /\ opted THEN consent \cup {Len(segments) + 1} ELSE consent

(* _sample_once, a second after the last: the scripted profile tells its   *)
(* power, of a counter it is derived from the last reading that succeeded, *)
(* of which the first has none.                                            *)
Sample ==
  /\ now < Horizon /\ rec = "none" /\ d.state # "stopped"
  /\ \E power \in {Idle, Busy}, ok \in BOOLEAN :
       LET uj == IF ok THEN {Advance(count, power)} ELSE {}
           r == [at |-> now + 1, uj |-> uj, total |-> total + power, resets |-> faults.resets,
                 since |-> IF prev = {} THEN now ELSE Only(prev).at,
                 low |-> IF prev = {} THEN total ELSE Only(prev).total]
           watts == UNION {Power(q.uj, uj, setup.backend.range, r.at - q.at) : q \in prev}
           p == IF setup.backend.scripted THEN power ELSE IF watts = {} THEN NoPower ELSE Only(watts)
       IN  /\ ok \/ faults.missing < setup.missing
           /\ faults' = IF ok THEN faults ELSE [faults EXCEPT !.missing = @ + 1]
           /\ now' = now + 1 /\ total' = total + power /\ count' = Advance(count, power)
           /\ prev' = IF ok THEN {r} ELSE prev
           /\ d' = Observe(d, p, r)
           /\ OnIdle(Closes(d, p, r))
  /\ UNCHANGED <<setup, opted, ledger, pc, requests, crossed>>

(* The machine was suspended, or the driver was loaded again. *)
Reset ==
  /\ faults.resets < setup.resets /\ now > 0 /\ now < Horizon
  /\ count' = 0 /\ faults' = [faults EXCEPT !.resets = @ + 1]
  /\ UNCHANGED <<setup, now, service, opted, ledger, pc, total, requests, consent, crossed>>

(* Mutant of CheckOptIn: the preference is not asked for.                  *)
SkipOptIn ==
  /\ rec = "check" /\ rec' = "insert"
  /\ UNCHANGED <<setup, now, count, prev, d, segments, opted, ledger, pc, total, faults, requests,
                 consent, crossed>>

(* record_savings_entry, in two steps *)
CheckOptIn ==
  /\ rec = "check" /\ rec' = IF opted THEN "insert" ELSE "after"
  /\ UNCHANGED <<setup, now, count, prev, d, segments, opted, ledger, pc, total, faults, requests,
                 consent, crossed>>

Insert ==
  /\ rec = "insert" /\ rec' = "after"
  /\ ledger' = Append(ledger, Receipt(Len(segments)))
  /\ crossed' = (crossed \/ \E h \in Handlers : pc[h] # 0)
  /\ UNCHANGED <<setup, now, count, prev, d, segments, opted, pc, total, faults, requests, consent>>

(* _on_idle ends: a service that is to serve once is disarmed. *)
After ==
  /\ rec = "after" /\ rec' = "none"
  /\ d' = IF setup.once THEN [d EXCEPT !.state = "stopped"] ELSE d
  /\ UNCHANGED <<setup, now, count, prev, segments, opted, ledger, pc, total, faults, requests,
                 consent, crossed>>

-----------------------------------------------------------------------------
unmeasured == <<setup, now, count, service, total, faults>>

(* /api/savings/opt-in: the preference, then the demo entries. *)
OptIn(h) ==
  /\ pc[h] = 0 /\ requests < setup.requests /\ requests' = requests + 1
  /\ opted' = TRUE
  /\ \E seed \in BOOLEAN : pc' = [pc EXCEPT ![h] = IF seed THEN Count ELSE 0]
  /\ consent' = IF rec = "check" THEN consent \cup {Len(segments)} ELSE consent
  /\ UNCHANGED <<unmeasured, ledger, crossed>>

OptOut(h) ==
  /\ pc[h] = 0 /\ requests < setup.requests /\ requests' = requests + 1
  /\ opted' = FALSE
  /\ UNCHANGED <<unmeasured, ledger, pc, consent, crossed>>

(* seed_demo_savings_if_empty counts, then puts one entry after the other. *)
CountLedger(h) ==
  /\ pc[h] = Count /\ pc' = [pc EXCEPT ![h] = IF ledger = <<>> THEN 1 ELSE 0]
  /\ UNCHANGED <<unmeasured, opted, ledger, requests, consent, crossed>>

SeedDemo(h) ==
  /\ pc[h] \in 1..DemoEntries
  /\ pc' = [pc EXCEPT ![h] = IF @ = DemoEntries THEN 0 ELSE @ + 1]
  /\ ledger' = Append(ledger, Demo(pc[h]))
  /\ crossed' = (crossed \/ \E g \in Handlers \ {h} : pc[g] # 0)
  /\ UNCHANGED <<unmeasured, opted, requests, consent>>

(* /api/savings/reset *)
Clear(h) ==
  /\ pc[h] = 0 /\ requests < setup.requests /\ requests' = requests + 1
  /\ ledger' = <<>>
  /\ UNCHANGED <<unmeasured, opted, pc, consent, crossed>>

Next ==
  \/ Sample \/ Reset \/ CheckOptIn \/ Insert \/ After
  \/ \E h \in Handlers : OptIn(h) \/ OptOut(h) \/ CountLedger(h) \/ SeedDemo(h) \/ Clear(h)

Spec == Init /\ [][Next]_vars

-----------------------------------------------------------------------------
TypeOK ==
  /\ setup \in Setups /\ setup.backend \in Backends /\ now \in 0..Horizon /\ count \in 0..(MaxRange - 1)
  /\ d.state \in {"calibrating", "idle", "active", "stopped"}
  /\ d.state = "active" => d.cand # {} /\ d.last # {}
  /\ rec \in {"none", "check", "insert", "after"} /\ opted \in BOOLEAN
  /\ rec # "none" => segments # <<>>
  /\ \A h \in Handlers : pc[h] \in 0..Count
  /\ consent \subseteq DOMAIN segments

(* A burst reports what the package really drew between its first and its  *)
(* last sample, if the counter was not reset and did not wrap twice; a     *)
(* wrap may cost a detector that does not know the range its number, and   *)
(* what is reported is never above the ceiling.                            *)
SegmentIsTrue ==
  \A s \in ToSet(segments) :
    /\ \A e \in s.energy : Plausible(e, s.runtime)
    /\ (s.from.resets = s.to.resets /\ s.to.total - s.from.total < MaxRange) =>
         /\ s.energy \subseteq {s.to.total - s.from.total}
         /\ setup.range # {} => s.energy # {}

(* One reset of the counter, which looks like a spike, is not a burst: the *)
(* package has been busy since the reading before the first sample, unless *)
(* the detector took less than the idle power for its baseline.            *)
BurstIsReal ==
  (d.state = "active" /\ faults.resets <= 1 /\ d.base2 >= 2 * Idle) =>
    \E from \in d.cand, to \in d.last : to.total - from.low > Idle * (to.at - from.since)

(* A detector that has always known the power is done calibrating after    *)
(* three samples.                                                          *)
KnownPowerCalibrates ==
  (d.state = "calibrating" /\ NoPower \notin ToSet(d.values)) => Len(d.values) < 3

(* A receipt is in the ledger at most once, in its place, and only if the  *)
(* user was opted in while it was being recorded.  The demo entries went   *)
(* to an empty ledger, and once, unless something else was put into it     *)
(* between the count and the last of them.                                 *)
ConsentedInOrder ==
  \A i \in DOMAIN ledger : ledger[i].kind = "watch" =>
    /\ ledger[i].n \in consent
    /\ \A j \in DOMAIN ledger : (j < i /\ ledger[j].kind = "watch") => ledger[j].n < ledger[i].n

DemoOnce ==
  ~crossed => \A i, j \in DOMAIN ledger :
    (i < j /\ ledger[j].kind = "demo") => ledger[i].kind = "demo" /\ ledger[i].n < ledger[j].n

LedgerIsConsented == ConsentedInOrder /\ DemoOnce

(* What an entry says was saved is the difference of the energies it says  *)
(* it is the difference of, whatever had to be estimated; and what the     *)
(* dashboard sums up is, unless a configuration costs more than the stock  *)
(* one: its loss is not counted.                                           *)
ReceiptsAddUp ==
  LET Adds(e) == e.kind = "watch" => segments[e.n].energy # {0}
      Costs(e) == e.optimized > e.stock
      sum == Summary
  IN  /\ \A e \in ToSet(ledger) : Adds(e) => e.saved = Positive(e.stock - e.optimized)
      /\ (\A e \in ToSet(ledger) : Adds(e)) =>
           /\ sum.saved >= sum.stock - sum.optimized
           /\ (\A e \in ToSet(ledger) : ~Costs(e)) => sum.saved = sum.stock - sum.optimized

=============================================================================
