----------------------------- MODULE Selection ------------------------------
(***************************************************************************)
(* An experiment from its first run to its validation: the engine's thread *)
(* measures, selects and persists after every run (api/engine.py), while   *)
(* create_experiment registers the experiment it has already started,      *)
(* requests select again under another goal, a restart forgets the overlay *)
(* (api/app.py) and a validation looks up the two configurations it is to  *)
(* compare.  The helper and the workload are in LiveEngine: here a run is  *)
(* what it measured.                                                       *)
(***************************************************************************)
EXTENDS Sweep

CONSTANTS
  Setups,    \* what an experiment may be started with
  Outcomes,  \* what a run may measure: records [ok, runtime, energy]
  Goals,     \* what a request may ask for, its headroom in percent included
  Margins, Deadlines, Targets,  \* what the properties ask of a profile
  MaxRuns,   \* bound: runs of a sweep
  MaxAsks,   \* bound: requests to select again
  MaxTurns   \* bound: runs and requests together, once there is a request

ASSUME BoundsAssumption == MaxRuns \in Nat /\ MaxAsks \in Nat /\ MaxTurns \in Nat

ASSUME GoalsAssumption ==
  /\ Margins \cup Deadlines \cup Targets \subseteq Nat
  /\ \A goal \in Goals : goal.target \in Nat /\ goal.floor \in Nat

(* A plan is the sweep's, and a calibration what was measured before.      *)
IsPoint(k) == k.boost \in BOOLEAN /\ MakeConfigId(k) \in Ids

IsMeasurement(r) == r.runtime \in Nat /\ r.energy \in Nat \cup {NoEnergy}

ASSUME SetupsAssumption ==
  /\ \A s \in Setups :
       /\ s.instant \in BOOLEAN
       /\ s.plan \in Seq({k \in ToSet(s.plan) : IsPoint(k)})
       /\ s.cal \in Seq({r \in ToSet(s.cal) : IsPoint(r.key) /\ IsMeasurement(r) /\ r.scale \in Nat})
  /\ Outcomes \subseteq [ok : BOOLEAN, runtime : Nat, energy : Nat \cup {NoEnergy}]

VARIABLES
  setup,   \* [plan, cal, own, reps, instant, goal]: own for fixed_compute
  reg,     \* create_experiment: the thread is started, the row inserted, the overlay put
  pc,      \* the engine's thread
  final,   \* the last selection of the sweep is being persisted
  runs,    \* its runs, also in the store
  shown,   \* the overlay: {} or {[configs, base, sel]}
  row,     \* the store's row: {} or {[configs, base, sel]}
  asked,   \* select requests that have their answer: [n, sel, saved]
  asks,    \* requests so far
  held,    \* what a validation has read of the row: {} or {[configs, base, sel]}
  pair,    \* the configurations a validation runs: {} or {[cand, base, of]}
  hurt     \* history: "profile", "select": its last two writers overlapped

vars == <<setup, reg, pc, final, runs, shown, row, asked, asks, held, pair, hurt>>

Blank == [configs |-> {}, base |-> {}, sel |-> {}]

Seeded == setup.cal # <<>> /\ setup.reps = 1

Covered == IF Seeded THEN {r.key : r \in ToSet(setup.cal)} ELSE {}

(* The points that are left: each is run as often as is asked for. *)
Left ==
  {i \in DOMAIN setup.plan :
     /\ setup.plan[i] \notin Covered
     /\ Cardinality({j \in DOMAIN runs : runs[j].key = setup.plan[i]}) < setup.reps}

(* The calibration counts from the start only without repetitions, and in  *)
(* the end always.                                                         *)
RowsOf(last, done) ==
  LET cal == IF setup.own /\ (last \/ Seeded) THEN setup.cal ELSE <<>>
  IN  ProfileRows(cal, done)

Rows == RowsOf(final, runs)

Draft == EngineSelect(Rows, setup.goal)

DraftProfile == Configurations(Rows, Draft.base)

Keep(slot, entry) == IF slot = {} THEN {} ELSE {entry}

Only(S) == CHOOSE x \in S : TRUE

Content(slot) == IF slot = {} THEN Blank ELSE Only(slot)

TypeOK ==
  /\ setup \in Setups /\ reg \in {"thread", "row", "done"}
  /\ pc \in {"start", "loop", "show", "save", "keep", "done"} /\ final \in BOOLEAN
  /\ Len(runs) <= MaxRuns
  /\ \A r \in ToSet(runs) : [ok |-> r.ok, runtime |-> r.runtime, energy |-> r.energy] \in Outcomes
  /\ \A slot \in {shown, row, held} : \A x \in slot :
       /\ slot = {x} /\ \A c \in x.configs : IsSummary(c)
       /\ \A c, d \in x.configs : c.id = d.id => c = d
       /\ x.base \subseteq Ids /\ \A y \in x.sel : x.sel = {y}
  /\ asks \in 0..MaxAsks /\ \A p \in pair : pair = {p}
  /\ \A r \in asked : r.n \in 1..asks /\ r.saved \in BOOLEAN
  /\ hurt \subseteq {"profile", "select"}

Init ==
  /\ setup \in Setups /\ reg = "thread" /\ pc = "start" /\ final = FALSE /\ runs = <<>>
  /\ shown = {} /\ row = {} /\ asked = {} /\ asks = 0 /\ held = {} /\ pair = {} /\ hurt = {}

-----------------------------------------------------------------------------
(* create_experiment, after it has started the thread *)
Register ==
  /\ \/ /\ reg = "thread" /\ reg' = "row" /\ row' = {Blank} /\ UNCHANGED shown
     \/ reg = "row" /\ reg' = "done" /\ shown' = {Blank} /\ UNCHANGED row
  /\ hurt' = IF pc = "start" THEN hurt ELSE {"profile", "select"}
  /\ UNCHANGED <<setup, pc, final, runs, asked, asks, held, pair>>

(* The calibration's rows are persisted before the first run, and are all  *)
(* there is when no time was allotted.  Else the overlay is emptied.       *)
Start ==
  /\ pc = "start"
  /\ \/ Seeded /\ Rows # {} /\ pc' = "show" /\ final' = setup.instant /\ UNCHANGED shown
     \/ Seeded /\ Rows = {} /\ pc' = "loop" /\ UNCHANGED <<final, shown>>
     \/ ~Seeded /\ pc' = "loop" /\ shown' = Keep(shown, Blank) /\ UNCHANGED final
  /\ UNCHANGED <<setup, reg, runs, row, asked, asks, held, pair, hurt>>

(* One run, and what is persisted after it, if anything could be measured. *)
Measure ==
  /\ pc = "loop" /\ ~final
  /\ Left # {} /\ Len(runs) < MaxRuns /\ (asks = 0 \/ Len(runs) + asks < MaxTurns)
  /\ \E o \in Outcomes :
       LET run == [key |-> setup.plan[Min(Left)], ok |-> o.ok, runtime |-> o.runtime,
                   energy |-> o.energy]
       IN  /\ runs' = Append(runs, run)
           /\ pc' = IF RowsOf(final, Append(runs, run)) = {} THEN "loop" ELSE "show"
  /\ UNCHANGED <<setup, reg, final, shown, row, asked, asks, held, pair, hurt>>

(* The time is up or all is measured. *)
Finish ==
  /\ pc = "loop" /\ ~final
  /\ runs # <<>> \/ Left = {}
  /\ final' = TRUE
  /\ pc' = IF RowsOf(TRUE, runs) = {} THEN "done" ELSE "show"
  /\ UNCHANGED <<setup, reg, runs, shown, row, asked, asks, held, pair, hurt>>

(* The cancel event is looked at before each run. *)
Cancel ==
  /\ pc = "loop" /\ pc' = "done"
  /\ UNCHANGED <<setup, reg, final, runs, shown, row, asked, asks, held, pair, hurt>>

(* A request is between its two writes. *)
Replying == \E r \in asked : r.saved

(* _persist: the overlay, then the selection, then the profile.  It makes  *)
(* good what came apart before, if nothing comes between.                  *)
Show ==
  /\ pc = "show" /\ pc' = "save"
  /\ shown' = {[configs |-> DraftProfile, base |-> ProfileBase(DraftProfile, Draft),
                sel |-> {Draft}]}
  /\ hurt' = IF reg # "done" THEN hurt ELSE IF Replying THEN {"select"} ELSE {}
  /\ UNCHANGED <<setup, reg, final, runs, row, asked, asks, held, pair>>

Save ==
  /\ pc = "save" /\ pc' = "keep"
  /\ row' = Keep(row, [Content(row) EXCEPT !.sel = {Draft}])
  /\ UNCHANGED <<setup, reg, final, runs, shown, asked, asks, held, pair, hurt>>

(* The baseline of the profile that is kept is the overlay's, or the first *)
(* configuration if that has none.                                         *)
KeptBase ==
  LET base == Content(shown).base
  IN  IF base # {} \/ DraftProfile = {} THEN base ELSE {FirstOf(DraftProfile).id}

KeepProfile ==
  /\ pc = "keep" /\ pc' = IF final THEN "done" ELSE "loop"
  /\ row' = Keep(row, [Content(row) EXCEPT !.configs = DraftProfile, !.base = KeptBase])
  /\ UNCHANGED <<setup, reg, final, runs, shown, asked, asks, held, pair, hurt>>

-----------------------------------------------------------------------------
(* _resolve_experiment: the overlay before the row, and the candidates of  *)
(* the selection in place of a profile that is not there.                  *)
Resolved ==
  LET x == Content(IF shown # {} THEN shown ELSE row)
  IN  [x EXCEPT !.configs = IF x.configs # {} THEN x.configs ELSE UNION {s.cands : s \in x.sel}]

(* The baseline of a select request: a base-clock one gives way to a stock *)
(* one.                                                                    *)
AskedBaseline(x) ==
  LET named == UNION {Named(x.configs, id) : id \in x.base}
      stock == {c \in x.configs : c.boost}
      flagged == {c \in x.configs : c.base} \cup stock
  IN  IF named # {} /\ (\A c \in named : c.boost \/ stock = {}) THEN Only(x.base)
      ELSE IF flagged # {} THEN FirstOf(flagged).id
      ELSE IF x.base # {} THEN Only(x.base) ELSE FirstOf(x.configs).id

Select(configs, baseId, goal, margin) ==
  IF goal.mode = "preference"
  THEN SelectPreference(configs, goal.target, goal.floor, baseId, margin)
  ELSE SelectDeadline(configs, goal.deadline, baseId, margin, goal.task)

(* /api/experiments/{id}/select *)
Ask ==
  /\ asks < MaxAsks /\ Len(runs) + asks < MaxTurns /\ asks' = asks + 1
  /\ shown \cup row # {} /\ Resolved.configs # {}
  /\ \E goal \in Goals :
       asked' = asked \cup
                  {[n |-> asks + 1, saved |-> FALSE,
                    sel |-> Select(Resolved.configs, AskedBaseline(Resolved), goal, goal.margin)]}
  /\ UNCHANGED <<setup, reg, pc, final, runs, shown, row, held, pair, hurt>>

(* Mutant of ReplyRow: only the overlay gets the answer.                   *)
ReplyUnsaved ==
  \E r \in asked :
    /\ ~r.saved
    /\ asked' = (asked \ {r}) \cup {[r EXCEPT !.saved = TRUE]}
    /\ UNCHANGED <<setup, reg, pc, final, runs, shown, row, asks, held, pair, hurt>>

(* The answer goes to the row, if there is one ...                         *)
ReplyRow ==
  \E r \in asked :
    /\ ~r.saved
    /\ row' = Keep(row, [Content(row) EXCEPT !.sel = {r.sel}])
    /\ asked' = (asked \ {r}) \cup {[r EXCEPT !.saved = TRUE]}
    /\ hurt' = IF pc = "save" \/ Replying \/ held # {}
               THEN hurt \cup {"select"} ELSE hurt \ {"select"}
    /\ UNCHANGED <<setup, reg, pc, final, runs, shown, asks, held, pair>>

(* ... and then to the overlay, if there is one: a select, the engine or a *)
(* validation may write in between.                                        *)
ReplyOverlay ==
  \E r \in asked :
    /\ r.saved
    /\ shown' = Keep(shown, [Content(shown) EXCEPT !.sel = {r.sel}])
    /\ asked' = asked \ {r}
    /\ UNCHANGED <<setup, reg, pc, final, runs, row, asks, held, pair, hurt>>

(* The server dies, and its threads with it; its rows stay. *)
Restart ==
  /\ pc' = "done" /\ final' = FALSE /\ reg' = "done"
  /\ shown' = {} /\ asked' = {} /\ held' = {} /\ pair' = {} /\ hurt' = {}
  /\ UNCHANGED <<setup, runs, row, asks>>

-----------------------------------------------------------------------------
(* The candidate of a validation: the selected configuration as the        *)
(* profile has it, or as the selection has it, or the first there is.      *)
Candidate(x) ==
  LET winners == UNION {s.winner : s \in x.sel}
      entries == UNION {Named(x.configs, w.id) : w \in winners}
      cands == UNION {s.cands : s \in x.sel}
  IN  FirstOf(IF entries # {} THEN entries
              ELSE IF winners # {} THEN winners
              ELSE IF cands # {} THEN cands ELSE x.configs).key

(* Its baseline is one with boost, of the profile or of the selection.     *)
StockOf(x) ==
  LET named == {c \in UNION {Named(x.configs, id) : id \in x.base} : c.boost}
      Stock(S) == {c \in S : c.base \/ c.boost}
      First(S) == IF S = {} THEN {} ELSE {FirstOf(S)}
      profile == First(Stock(x.configs))
      selection == First(Stock(UNION {s.cands : s \in x.sel}))
  IN  IF named # {} THEN named
      ELSE IF \E c \in profile : c.boost THEN profile
      ELSE IF selection # {} THEN selection ELSE profile

(* A validation that finds no overlay reads the row ...                    *)
Load ==
  /\ pc = "done" /\ shown = {} /\ held = {} /\ row # {}
  /\ held' = row
  /\ UNCHANGED <<setup, reg, pc, final, runs, shown, row, asked, asks, pair, hurt>>

(* ... and makes it the overlay, unless there is one by now.  When there   *)
(* is no baseline, or no candidate but a run's, reading the runs raises (a *)
(* RunRecord has no is_baseline) and the thread ends.                      *)
Validate ==
  /\ pc = "done" /\ shown \cup held # {}
  /\ LET x == Content(IF held # {} THEN held ELSE shown)
         base == StockOf(x)
         raises == runs # <<>> /\ \A c \in base : ~c.boost
         none == x.configs \cup UNION {s.cands : s \in x.sel} = {}
     IN  pair' = IF none \/ raises THEN {}
                 ELSE {[cand |-> Candidate(x), base |-> {c.key : c \in base},
                        of |-> UNION {s.winner : s \in x.sel}]}
  /\ shown' = IF shown # {} THEN shown ELSE held
  /\ held' = {}
  /\ UNCHANGED <<setup, reg, pc, final, runs, row, asked, asks, hurt>>

-----------------------------------------------------------------------------
(* _extract_summaries_from_experiment: what the autopilot knows of one. *)
Extracted(x) ==
  {[c EXCEPT !.usable = TRUE, !.base = c.base \/ c.id \in x.base] :
     c \in {e \in x.configs : e.median > 0 /\ e.energy > 0}}

(* The baseline of curve-options. *)
CurveBase(C, ids) ==
  LET named == {c \in C : c.id \in ids}
      stock == {c \in C : c.base \/ c.boost}
  IN  FirstOf(IF named # {} THEN named
              ELSE IF stock # {} THEN stock
              ELSE {c \in C : \A e \in C : c.median <= e.median})

(* curve-options: what it offers of an experiment, if it has a curve, with *)
(* the savings in tenths of a percent.                                     *)
Tenths(part, whole) == (2000 * part + whole) \div (2 * whole)

Curve(x) ==
  LET C == Extracted(x)
      base == CurveBase(C, x.base)
      Point(c) == [id |-> c.id, saved |-> Tenths(base.energy - c.energy, base.energy),
                   slower |-> Tenths(c.median - base.median, base.median)]
  IN  IF Cardinality(C) < 2 THEN {}
      ELSE {[base |-> base, points |-> {Point(c) : c \in Frontier(C)}]}

(* What a burst is clamped to: without boost, unless it is configured. *)
NoBoost == [boost |-> FALSE, cap |-> 0]

Controls(c) == [boost |-> c.boost, cap |-> c.key.cap]

(* arm_autopilot, with a target or for a curve: request is [target, limit, *)
(* named], a target and a ceiling of {} or {percents}, and whether it      *)
(* names the experiment; else that is the one that curve-options offers.   *)
(* What the receipts are taken from is [stock, config, stock_s, config_s]. *)
Arm(x, request) ==
  LET target == IF request.target = {} THEN 25 ELSE Only(request.target)
      C == IF request.named \/ Curve(x) # {} THEN Extracted(x) ELSE {}
      match == Match(C, target, x.base, request.limit)
      base == MatchBase(C, x.base)
  IN  [config |-> match.winner, achieved |-> match.achieved,
       controls |-> IF match.ok THEN {Controls(w) : w \in match.winner} ELSE {NoBoost},
       curve |-> {[stock |-> base.energy, config |-> w.energy,
                   stock_s |-> base.median, config_s |-> w.median] : w \in match.winner}]

Sweeping == Start \/ Measure \/ Finish \/ Cancel \/ Show \/ Save \/ KeepProfile

Replies == Ask \/ ReplyRow \/ ReplyOverlay

Next == Register \/ Sweeping \/ Replies \/ Restart \/ Load \/ Validate

Spec == Init /\ [][Next]_vars

-----------------------------------------------------------------------------
(* While none of their writers is between its two writes, the overlay and  *)
(* the row, which is all that a restart leaves, hold the same profile and  *)
(* the same selection.  They may differ only when the last writer began    *)
(* inside another (the sweep inside its own registration, the engine, a    *)
(* select or a validation inside one of the others), and only until one    *)
(* writes that does not: no difference outlives that, or a restart.        *)
OneAnswer ==
  (pc \notin {"save", "keep"} /\ reg = "done" /\ ~Replying) =>
    \A x \in shown : \E y \in row :
      /\ "profile" \notin hurt => x.configs = y.configs /\ x.base = y.base
      /\ "select" \notin hurt => x.sel = y.sel

(* A validation compares the configuration that was selected with one that *)
(* has boost, whatever was persisted when the server died.  Caps with      *)
(* boost, of the passive driver, share their id with no cap.               *)
PairIsSelected ==
  (\A k \in ToSet(setup.plan) : k.boost => k.cap = 0) =>
    \A p \in pair : (\A w \in p.of : p.cand = w.key) /\ (\A k \in p.base : k.boost)

(* On the profile the server shows, for every headroom: a looser deadline  *)
(* has an answer when a tighter one has, and one that spends no more.      *)
TighterCostsMore ==
  \A x \in shown, margin \in Margins, tight, loose \in Deadlines :
    LET Of(d) == SelectDeadline(x.configs, d, AskedBaseline(x), margin, 0).winner
    IN  (x.configs # {} /\ tight < loose) =>
          \A c \in Of(tight) : \E d \in Of(loose) : d.energy <= c.energy

(* The energy target never changes which configuration is selected as long *)
(* as the performance floor can be kept: it is the answer to the deadline  *)
(* that the floor stands for.                                              *)
FloorDecides ==
  \A x \in shown, margin \in Margins, goal \in Goals, deadline \in Deadlines :
    LET baseId == AskedBaseline(x)
        answer == SelectPreference(x.configs, goal.target, goal.floor, baseId, margin)
        floor == \A b \in Named(x.configs, baseId) : goal.floor * deadline = 100 * b.median
    IN  (x.configs # {} /\ goal.mode = "preference" /\ floor
           /\ answer.outcome \in {"both_met", "closest_perf_floor"}) =>
          answer.winner = SelectDeadline(x.configs, deadline, baseId, margin, 0).winner

(* The autopilot finds on the frontier, for a target in whole percents,    *)
(* whatever was measured: if any configuration saves as much as is asked   *)
(* for, the one it arms with does, and is no slower.  The saving that      *)
(* curve-options shows of it is the one that the receipts are taken from.  *)
(* Without a stock configuration whose energy is known the two take the    *)
(* savings over different baselines.                                       *)
MatchLosesNothing ==
  \A x \in shown, target \in Targets, named \in BOOLEAN :
    LET C == Extracted(x)
        base == CurveBase(C, x.base)
        armed == Arm(x, [target |-> {target}, limit |-> {}, named |-> named])
        anchored == \E c \in C : c.base \/ c.boost
    IN  (anchored /\ (named \/ Curve(x) # {})) =>
          /\ \A c \in C : Saved(c, base) >= 100 * target =>
               armed.achieved /\ \A w \in armed.config : Penalty(w, base) <= Penalty(c, base)
          /\ \A offer \in Curve(x), w \in armed.config, of \in armed.curve :
               \E p \in offer.points :
                 p.id = w.id /\ p.saved = Tenths(of.stock - of.config, of.stock)

=============================================================================
