# A TLA+ verification of joulectrl

joulectrl lowers the energy of a workload by choosing CPU settings: it measures
a workload under several configurations (frequency caps, boost, workers), picks
one, validates it, and always has to put the user's settings back. The settings
are the machine's, not the program's, so the question these modules ask first
is: *after whatever happened, are the user's settings in force, or at least not
lost?* The second one is: *was a measurement taken under the settings its record
names?* The third: *is what it then says of energy true* (of counters that wrap, of
the configuration it selects, of the savings it books)*?*

All paths below are relative to the repository root (`src/` in `PROJECT.json`).

## 1. The system

| Component | State it keeps | Operations | Hard behaviour |
|---|---|---|---|
| helper daemon, `helper/daemon.py` (root) | the CPU knobs, `_session`, `_orig_state`, the recovery file in `/run`, a watchdog thread | begin_session, apply_configuration, heartbeat, restore, end_session, read_energy | one thread per connection, a watchdog that decides under one lock and acts under another, death and restart, refused knob writes, order of writes |
| helper client, `helper/client.py` | none | one connection per call, 10 s timeout | a call may time out although it is carried out |
| state machine, `core/experiment.py` | the experiment's row | transition, fail, cancel, run_profile_point, restore | restoration from every state, refused moves |
| store, `core/store.py` | SQLite: experiments, audit rows, runs, ... | create_experiment, transition_state, ... | two commits per move; one connection for all threads |
| command line, `cli/main.py` | one process per command | doctor, run-fixed, measure, compare, profile, validate, export | interrupts, death, two processes on one helper |
| live engine, `api/engine.py` | cancel events, active runners, threads; writes overlay, row, lease | start_experiment, start_validation, cancel_active_experiment, select_configuration | threads and handlers share everything, none of it under a lock |
| API server, `api/app.py` | `_OVERLAY`, the store, the engine | create, get, validate, cancel, restore, watch, autopilot, calibration, measure, export | request handlers in a thread pool, restart of the server |
| runner, `core/runner.py` | the active process | run, cancel | cancel before the process is registered, timeouts |
| event bus and SSE, `core/events.py`, `api/live.py` | per-experiment log with sequence numbers, subscriber queues | publish, subscribe, replay | lost or repeated events between replay and live delivery, trimming |
| watch mode, `core/watch.py`, `api/live.py` | detector state, service thread | observe, start, stop, arm, disarm | sampling gaps, workers of two autopilots |
| calibration, `api/calibration_runner.py` | its thread, its cancel event | start, stop | a thread that outlives stop |
| optimizer, `core/optimizer.py`; its users in `api/engine.py` and `api/app.py` | the persisted profile and selection, in the overlay and in the row | select_deadline, select_preference, pareto_frontier, match_frontier_by_savings_target; select, curve-options, arm | boundaries, ties, missing energy, percentages rounded in two ways; two copies written one after the other |
| energy counters, `energy/base.py` and each place that takes a difference | the counter (the kernel's) | read, delta | wrap-around, resets, failed reads |
| savings, `api/live.py`, `core/watch.py`, `core/store.py` | the detector's baseline and candidate, the preference, the ledger | observe, receipt, opt in and out, seed, clear, summary | a check and an insert in two steps, estimates in place of measurements |
| measuring programs: `POST /api/measure`, `joulectrl measure`, the compilation benchmark | none but their place in a straight line of calls | begin, apply, run, restore, end | no heartbeats, answers nobody looks at, no `try` |
| sweep checks, validation statistics, clock checker | none | pure functions | floats |
| discovery, topology, doctor, `api/system.py`, models, bridges, fixtures, explanations, workloads, frontend, scripts | none that is shared | read, convert, show | none for a model checker |

How they meet: the CLI and the server are clients of the helper over a Unix
socket and of each other only through the helper and the database file. In the
server, request handlers and engine threads share the cancel events, the runner
table, the overlay `GET` answers from, the rows and the helper's single lease. A
sweep's runs become a profile, the optimizer's answer over it a selection, the
selection a validation or the clamp of an armed watch service, and that service's
bursts receipts in the ledger.

## 2. Modules

| Module | Models | Composes |
|---|---|---|
| `Cpufreq` | the kernel's knobs as the daemon relies on them (external) | |
| `HelperDaemon` | the daemon: each operation cut where a crash leaves something different, the watchdog between its two locks | `Cpufreq` |
| `Lease` | what the daemon promises its clients, without threads, files and heartbeats | |
| `HelperDaemonProofs` | theorems | `HelperDaemon` |
| `Lifecycle` | the graph of `core/experiment.py` | |
| `CliRun` | `run-fixed` processes: lease, apply, state machine, measure, finally block | `Lifecycle`, `INSTANCE Lease` |
| `CliRunProofs` | theorems | `CliRun` |
| `LiveEngine` | the profiling and the validation thread of each experiment | `Lifecycle`, `INSTANCE Lease` |
| `ApiServer` | the handlers for create, get, validate, cancel and restore, the server's death and start | `LiveEngine` |
| `ApiServerProofs` | theorems | `ApiServer` |
| `Feed` | what the event bus promises a connection: an event still kept when it joins, or published later, is due to it until sent, and is missed only after half a full history of newer ones | |
| `EventStream` | `core/events.py` and the generator of one SSE connection: log, trimming, delivery to subscribers outside the lock, burst, second replay, following | `INSTANCE Feed` |
| `EventStreamProofs` | theorems | `EventStream` |
| `Calibration` | `start`, `stop` and the sweep's thread of `api/calibration_runner.py`, the other clients of the helper | `INSTANCE Lease` |
| `CalibrationProofs` | theorems | `Calibration` |
| `Watch` | `WatchService`, the autopilot's worker, connections to `/api/watch/events`, the arm, launch, disarm, start and stop requests | `INSTANCE Lease` |
| `WatchProofs` | theorems | `Watch` |
| `Optimizer` | the answers of `core/optimizer.py` to a deadline, a preference and a savings target, as operators on sets of summaries | |
| `Sweep` | what `api/engine.py` measures (`CandidateConfigs`), makes of the runs (`ProfileRows`) and asks of the optimizer (`EngineSelect`) | `Optimizer` |
| `Selection` | an experiment from its first run to its validation: the engine's writes of overlay, selection and profile, the registration that may lag behind them, select requests, restart, the pair a validation runs, curve-options, the settings an arm request finds | `Sweep` |
| `SelectionProofs` | theorems | `Optimizer`, `Selection` |
| `Meter` | the package counter, which wraps, and the differences that are taken of it | |
| `Savings` | one watch service with the detector's arithmetic, its segments and receipts, the opt-in and the ledger, and the requests about them | `Meter` |
| `Measure` | the programs that measure outside an experiment, as straight lines of steps over the helper | `Meter`, `INSTANCE Lease` |
| `MeterProofs` | theorems | `Meter`, `Savings`, `Measure` |
| `MC*` | instances for TLC | |

`HelperDaemon` is the only module that knows how the helper works. It is shown to
implement `Lease` (`ImplementsLease`, checked and proved), and the modules of the
clients use `Lease`'s actions for their calls: what holds of the clients with
the abstract helper holds with the daemon. `HelperDaemon` maps `lost` to "the
daemon crashed, or the kernel refused a write of a restoration".

### Correspondence

*Helper.* `pc` is the position of the lock's holder. `ApplyBegin` to `ApplyWrite`
are the parts of `op_apply_configuration` (183-251); `RestorePutBack` and
`RestoreForget` of `op_restore` (262-277); `Watchdog*` of `watchdog` (295-310).
Frequencies are the steps `MinFreq..MaxFreq`; a request is a record whose
absent keys are empty sets. `faults` and `unclean` are history variables that
name what a property cannot survive.

*CLI.* `pc` follows `run_fixed_compute` and the methods of the state machine it
calls; `pending` is the audit row between `transition_state`'s two commits.

*Engine.* `pc[t]` follows `_run_experiment` or `_run_validation` through `_run_one`; `aim` is
the state being persisted, first to the overlay (`Show`), then to the row (`StoreState`). The
settings a thread applies are named after the thread. An apply may be rejected while the
session is held, with mode and boost already switched; the run is then recorded without a
launch. *Server.* `at[h]` follows a cancel or restore request through
`cancel_active_experiment`, the state machine, the overlay and the helper.

*Event stream.* `Publish` is the part of `publish` under the log's lock, `Deliver` the
call of one subscriber after it; a publisher may be overtaken between them. The
connection's place follows `stream_experiment_events`: `Connect` takes the burst,
`Subscribe`, `CatchUp` is the second replay, `Follow` takes what `PopAll` returns. The
wake-up is left out: the wait for it times out, so it decides only how soon.

*Calibration.* One record per thread: `start` may be called again after a `stop` that
gave up on its thread, and both threads then share the cancel event, the state and
the process slot. The parts of `stop` (cancel, join, restore, answer) are steps of
their own. The settings are boost and the number of each CPU's cap, 0 without one.

*Watch.* A poller is the worker or a connection; it goes from `check` through one
sample (`adapt`, `rise`, `fall`) and the callback that sample makes (`begin`,
`flag`, `apply` of `_on_active`; `put`, `end`, `unflag`, `settle` of `_on_idle`). A
request goes through `_restore_controls` in the same steps; `AskDisarm`, `AskStop`,
`AskArm` and `AskLaunch` differ in whether the worker is told and a service is armed. Connections are
coroutines of one event loop and never overlap each other, only the worker and the
requests. `off` and `crossed` are history variables.

*Selection.* `pc` follows `_run_experiment` from one persisting to the next: `Show`
writes the overlay, `Save` the row's selection, `KeepProfile` its profile
(`_persist_profile`). `reg` follows `create_experiment`, whose row and overlay come
after the thread has started. `Ask` computes an answer from what `_resolve_experiment`
finds, `ReplyRow` writes it to the row (app.py:666) and `ReplyOverlay` to the overlay
(667-672), with anything in between. A validation without an overlay reads the row
(`Load`) and makes what it has read the overlay (`Validate`). `KeptBase` is the baseline
that is persisted. A run is what it measured: `[ok, runtime, energy]`. Energies
and runtimes are whole numbers, percentages are multiplied out, and where the code
rounds (one decimal in curve-options, two in the matcher) so do `Tenths` and
`Hundredths`. A summary's `pos` is its place in the list, which decides where the code
takes a first one. `hurt` is a history variable: the parts whose last writer began inside
another.

*Savings.* A step of `Sample` is one second: the counter advances, a read succeeds or
not, `Observe` is `WatchDetector.observe`, and a burst that ends is handed to `OnIdle`.
`rec` follows `record_savings_entry` (ask for the preference, insert) and what `_on_idle`
does after it. `pc[h]` is where a request is that seeds the demo entries. Medians are
doubled (`base2`) and the spread is quadrupled, so that no comparison is rounded.
`total`, `faults`, `consent` and `crossed` are history variables.

*Measure.* `prog[c]` is the program, a sequence of steps `[op, asked, label, catch]`: what the
helper is asked for, or was for this run; what the run's `Configuration` says; and
the step that an exception leads to, or 0 where nothing catches it. What is asked for and what
a label says are two things: see section 6. `place[c]` is the step it is at.
`Launch`, `Tick` and `Report` are a run; `Decide` and `Act` the watchdog. The helper's
operations are those of `Lease`. `under`, `drawn`, `whole`, `spent`, `alone` and `broken` are
history variables: every setting a run was under from its beginning to its end, what was
really drawn, and whether both of its readings were taken.

## 3. What TLC checks

| Run | Instance | Shows |
|---|---|---|
| `helper_safety` | 2 clients, 1 policy, 3 frequencies, 5 requests, 2 initial settings, 2 sets of refused writes (1.35 M states) | `ImplementsLease`; `OriginalHeld`, `RecoveryFileHeld`: changed knobs are always backed by the user's original, in memory and on disk; `NoSessionNoChange`; `RestoreAnswerTrue` |
| `helper_live` | 1 client | `GoneIsRestored`: all clients die, the watchdog restores |
| `cli_run` | 2 processes (190 k states) | `AuditIsPath`, `MeasuredAsLabelled`, `ExitIsStock` |
| `api_server` | 1 experiment with both threads, 1 request at a time besides create, validate and get (982 k states) | `QuietIsStock`: an idle server has left the user's settings in force; `OneRunAfterCancel` |
| `event_stream` | 2 publishers, 5 events, a history of 3, 1 connection | `ImplementsFeed`, `AtMostTwice`, `LastWord` (each publisher's newest event is the last of its events shown), `DueIsSent` |
| `calibration` | 2 classes, stock and two caps each, 1 repetition, 2 sweeps, 1 stop, 1 other client (2.55 M states) | `QuietIsStock`, `OneSweep`, `OneRunAfterStop`, `CompleteIsFull`; `RunsAsSwept`: a workload runs under exactly what the applies before it come to |
| `watch` | 2 services, the first armed once, 2 pollers, 1 request at a time (2.5 M states) | `Guarded`: a clamp is under a lease the watchdog can end; `DisarmedIsNotRenewed`: after a disarm nothing keeps that lease alive |
| `selection` | 7 set-ups (with and without calibration rows, repetitions, boost caps, both modes), 3 runs of 4 outcomes, 2 select requests (49 k states) | `OneAnswer`: overlay and row agree, unless the last writer began inside another; `PairIsSelected`: a validation compares what was selected with stock; and of every profile the server ever shows: `TighterCostsMore`, `FloorDecides`, `MatchLosesNothing` |
| `savings` | 9 samples of 4 or 16 W, a counter that wraps after 64 J, 7 set-ups, 1 failed read, 1 reset, 2 requests at a time (1.14 M states) | `SegmentIsTrue`, `BurstIsReal`, `KnownPowerCalibrates`; `LedgerIsConsented`; `ReceiptsAddUp` |
| `measure` | 2 programs of any of 6 kinds, runs of up to 2 ticks, a watchdog of 3 (1.47 M states) | `LabelHolds`: a program on its own measures from beginning to end under what it asked for, boost as its label says, or under the user's settings once its session was longer than the watchdog waits; `SettingsComeBack`; `EnergyIsDrawn`: of a counter exactly what was drawn is reported, and nothing by the runner when a reading is missing |
| `helper_recover`, `cli_completion` | as above, smaller | statements of the docs that the code does not keep; section 6 |

*Bounds.* One policy is enough for the daemon's order of writes because the loop treats
policies alike and the proofs are for any set of them; three frequencies give a limit below,
at and above what boost off leaves. Two clients are the fewest that can end or inherit each
other's session, two CLI processes likewise. In `api_server` the sweep and the validation of
one experiment already contend for the lease, the runner table and the cancel event, and rows
of different experiments are independent. `Points = 2` and `Pairs = 1` give a sweep and a
validation two runs: one to measure and one to lose its session before. `ValidatesKnown` lets
a client ask for a validation only of an experiment whose creation was answered, or that does
not exist; a cancel may come at any time. `NoFailureYet` cuts the search after the first
failed helper call or refused write, because `QuietIsStock` excuses everything after it;
`MCCalibration` does the same, and `NotCrossedYet` cuts the search in `watch` after an apply
that `Guarded` excuses. The event history of 3 is trimmed twice within 5 events, once before
and once while the connection is between its two replays. Two sweeps are what a stop that gave
up can make overlap; `OthersFirst` lets another client of the helper come until the second
begins, and `SecondIsBrief` follows a second sweep to the first point of its second class. Two
caps tell the last cap of a class, which its successors inherit, from the first. In `watch`
one service is armed in place of another and both threads that sample may be workers (the old
one leaving) or connections; two requests at once are too many states. `MaxServices`,
`MaxPollers`, the counts of sweeps, stops and events are the bounds on counters;
`EventStream`, `Calibration` and `Watch` stop when they are used up, so those runs do not look
for deadlock, nor do `selection` (`MaxRuns`, `MaxAsks`, one restart), `savings` (`Horizon`,
the set-up's counts of failed reads, resets and requests) and `measure` (each program is
started once). The others do: `CliRun` has the stuttering step `Finished`, the helper and the
server always have a step.

In `selection` the sweep is narrowed to stock, the base clock and a cap half-way (or to two
boost settings that share an id, for the passive driver): three points are the fewest of which
one may be dominated and one slower than the deadline. The four outcomes are fast and dear,
slow and cheap, of unknown energy, and failed; a fixture scales by 2. `MaxTurns` allows two
runs and requests together once there is a request: two selects, or one among the writes of
one run or after it. Deadlines 2, 4 and 8 are met by none to all of them, headroom 50 makes
guarded and bare runtimes differ. In `savings` nine seconds are enough for a calibration, a
burst with its onset and grace, and a second one; two bursts of 16 W wrap a counter of 64 J,
and `Starts` puts a wrap into the first. In `measure` three ticks of watchdog against runs of
two make one run harmless and two too long; a single run asks for a cap and says nothing of
boost (`CapOnly`), where label and request differ most.

*Fairness.* `HelperDaemon!FairSpec` assumes that the lock's holder goes on
(`OpStep`), that the watchdog's endless loop runs (`Watchdog`) and that time
passes (`HeartbeatLapses`); nothing of the clients. `EventStream!FairSpec` assumes that
a publisher delivers what it has logged and that a connection at work goes on,
not that anybody publishes or connects. `Watch` states no liveness: that a disarmed
clamp ends follows from `Guarded`, `DisarmedIsNotRenewed` and the helper's watchdog.

*Mutants.* Each property of a passing run is paired with a changed definition
(defined next to the original: a dropped guard, a swapped order, a missing
reset) under which it fails.

## 4. What is proved

TLAPS checks, for all values of the constants:

* `HelperDaemonProofs`. `ApplySnapshotExact`: the daemon's order (mode, boost, upper
  limits, lower limits, governors) puts back any settings from any other exactly.
  The inductive invariant strengthens `OriginalHeld` by what holds between the
  steps of an operation: at `persist`, `switch` and `caps` a snapshot exists and a
  request is in hand; at `forget` the knobs already equal the snapshot unless a
  write was refused; without a session and without `unclean`, nothing is
  held. From it follow `TypeCorrect`, `OriginalIsHeld`, `RecoveryFileIsHeld`,
  `NoSessionMeansNoChange`, `RestoreAnswerIsTrue` and the refinement
  `DaemonImplementsLease`. Assumptions: `MinFreq <= BaseFreq <= MaxFreq`, initial
  settings the kernel can be in, well-formed requests.
* `CliRunProofs`. For any number of processes: `CliTypeCorrect`, `LabelsAreTrue`
  (a running workload whose settings were its own keeps them while its process
  holds the session), `NormalExitIsStock` (a process past its apply and before its
  restore still owes a restoration) and `AuditRowsArePaths` (the audit rows end in the
  state of the row, but for the move between the two commits; only past certain places
  can an interrupt have dropped a row, and behind those no second one is dropped).
  Assumption: the names of the processes differ from the two other settings.
* `CalibrationProofs`. For any layout of the core classes, any caps and repetitions and any
  number of sweeps and stops: `CalibrationTyped`, `SweepsDoNotOverlap`, `OneMoreRun`,
  `QuietMeansStock`, `PointsAreSwept` and `CompletionIsFull`, which is every property the run
  checks. The inductive invariant has a conjunct for each: sweeps begin in their order, a stop
  past its join means that none is alive (`SweepInv`); a told sweep that has launched one
  workload is past the place where it would launch another (`LateInv`); a kept original is
  owed by a living sweep, a taken lease by one of them or by the other client (`HelperInv`);
  the spot fits the place of the thread (`SpotInv`); the settings are the user's until the
  first apply, and from each apply to the next what the sweep has come to: every CPU has the
  last cap that was asked of it in this class or one before, which a stock point leaves alone
  (`LabelInv`, by `RequestLeaves`); the counters are those of the spot, which needs that
  repetitions add up to points and points to classes (`BeforeAdds`, `CountInv`). Assumption:
  there is a class, a cap and a repetition.
* `ApiServerProofs`. For any number of experiments, runs and cancel or restore requests:
  `ServerTyped`, `IdleIsStock` and `OneMoreLaunch`. The property of an idle server is made
  inductive by who is bound to make it true: an original that the helper keeps is the user's,
  whose settings are in force when there is none (`Sound`); it is kept only while some thread
  is at a place from which it will put it back, or until the first restore after the server
  was killed (`KeptIsUsed`); so is a lease (`LeaseIsUsed`); a thread that was told to stop and
  has launched since is past its last launch (`LateIsLast`). Assumptions: the names of the
  threads are not stock, the bounds are naturals.
* `WatchProofs`. For any numbers of services, sampling threads and requests: `ClampIsGuarded`
  and `DisarmIsFinal`. The invariant says that a clamp needs a lease (`KeptUnderLease`), that
  only the present service has control and none has once it was disarmed (`OneControls`), and
  that one request at a time arms, at which no service has control (`Arming`).
  Assumption: a sampling thread is not a request.
* `EventStreamProofs`. For any publishers, connections, events and any history of at least
  one: `NoEventThrice`, `NewestIsLast` and the refinement `StreamImplementsFeed`. The history
  is the latest events, more than half of a full one once any have gone (`History`); what was
  shown twice is not to come again, and what is to come and older than what was shown is
  followed by it (`Overtaken`, `Repeated`, `Twice`), since a queue is filled in the order of
  deliveries and the second replay is what was kept when it was made.
* `SelectionProofs`. Of the optimizer, for any set of summaries, of any size: `LooserDeadline`
  (a looser deadline is answered whenever a tighter one is, and at no greater energy),
  `FloorIsDeadline` (as long as a performance floor can be kept, `select_preference` selects
  what `select_deadline` does for the runtime that the floor stands for, whatever the
  energy target) and `MatchFinds` (if any configuration saves as much as is asked for, so does
  the matcher's answer, and it is no slower). They rest on lemmas that a cheapest,
  a quickest and a thriftiest configuration exist (least elements of sets of naturals,
  by well-foundedness: the sets need not be finite), that the cheapest is unique, that
  rounding to hundredths keeps the order (`HundredthsGrow`), and that every plotted
  configuration is on the frontier or behind one that is (`FrontierCovers`).

  Of an experiment, for any set-ups and outcomes: `AnswersAgree` (overlay and row differ only
  between two writes of the engine, a request or a validation, by what that has still to
  write, or after a writer that began inside another; the next that does not writes both) and
  `SelectionTyped`: whatever is measured, selected, asked for and restarted, the profile shown
  has one well-formed summary for each id, made of the runs of a point of the sweep, a
  baseline that is one of its ids and at most one selection. Its invariant says of every place
  an answer can be in that it is made of points of the set-up (`RunsMade`, `SlotsMade`); that
  a median is one of the measured numbers, or between two of them, is counted on the finite
  sets that `Sweep` defines it over (`KthTyped`). The optimizer's theorems then hold of every
  profile shown: `TighterCosts`, `FloorAlone`, `NothingLost`. `SelectedIsValidated` has two
  hypotheses: points that share an id differ in the cap under boost alone, as the ids of
  `CandidateConfigs` do, and a calibration seeded from a file has measured stock, as each of
  `fixtures/real/calibration_c2_*.json` has; the run's instance satisfies both. Assumptions:
  ids are ranked differently, goals and targets are naturals, the set-ups are of their type.
* `MeterProofs`. Of `Savings`, for any number of requests, any powers, counters, windows and horizon:
  `SavingsTyped`; `LedgerStaysConsented` (a receipt which is being inserted has been consented
  to and is newer than all in the ledger; a request which seeds has only its own
  entries before it, until something else is put); `SegmentsAreTrue` (what a segment has
  added up is what was drawn since it began, by the reading taken last, over one wrap;
  the remainders are in lemmas on `Meter`); `CalibrationEnds`; `BurstsAreReal` (a candidate was
  begun by one high sample and becomes a burst at a later one, while a reset makes
  only one); `LedgerAddsUp` (each entry is accounted for when it is put, `Accounted`, and the
  columns' sums follow).
  `BurstsAreReal` supposes that a burst has to last for two samples, which the defaults, of
  2 s in `app.py` and 3 s in `live.py` at a sample per second, do.
  Assumptions: the bounds are naturals, the set-ups are of their type, the counter's range is
  positive.

  Of `Measure`, for any number of programs that share the helper, any powers and any length of
  runs: `MeasureTypes`, `LabelsHold`, `SettingsDoComeBack` and `EnergyWasDrawn`, which is
  every property the run checks. What the proofs need of a program is stated once (`Fits`:
  what its i-th step is and which may follow it, for instance that a run is never followed by
  `end_session`, nor what a call that throws leads to) and shown of each of them, line by line
  (`ProgramMade`). The invariant has a part for each theorem. What a request asks for is named
  by its step (`AskedAre`), apart from the label, which agrees on boost where that was asked
  for (`Honest`). A program that started with the helper at rest has it for itself, holds the
  lease while an original is kept, and comes to its `end_session` with none (`ByItself`); the
  settings of its step are in force, or it has been measured for as long as the watchdog waits
  (`Labelled`, `Outlived`), because the age of the session is at most the time its runs took,
  and 0 while the benchmark's thread keeps it alive. Where programs share the helper, an
  original that is kept is owed by one that has `restore` before it, or by the watchdog, and
  then nobody is about to end the session (`KeptIsOwed`); so two of them may end each other's
  sessions in any order and still put the user's settings back; that the settings are the
  user's whenever nothing is kept (`UserHeld`) is also why a run that outlived its session is
  under those and no others. While a program runs, the counter is where it was at its first
  reading plus what was drawn since, over the wrap (`Metering`), so that two readings make
  exactly what was drawn (`TotalIsWhole`). Assumptions: the watchdog waits at least a tick;
  for `EnergyWasDrawn` alone, the counter does not wrap twice in a run (`OneWrapAssumption`:
  at the ceiling of 200 W the 65.5 kJ of energy/synthetic.py:14 are 327 s, and a run of the
  server times out after 240 s unless it is asked for more; section 6 says what happens to
  longer ones).

Only model-checked: what is temporal beyond `[][A]_vars`, `GoneIsRestored` and
`DueIsSent`. Every invariant and every action property of the runs that expect none to
fail is a theorem. Liveness under fairness and `ENABLED` are out of the reach of
the installed provers, as are RECURSIVE operators and the library's induction theorems. Where
a proof needs a sum or a median, it argues by a least number for which the claim fails
(`TotalIs`), or counts the finite sets that the median is defined over (`KthTyped`).

## 5. What is not modelled, and why

* Exports, listings, the conversion of records: they compute data from data.
* The fixture fallback of create_experiment: it touches no hardware.
* Two validation threads of one experiment: `start_validation` looks for a living
  thread and then starts one, so two requests at once may start two; the model has one.
  Two requests at once in `Watch`: too many states for the run.
* The statistics of a validation (bootstrap, drift, confidence intervals) and the sweep
  checks: floats whose thresholds decide a verdict and nothing else.
* The clock checker and the discovery of topology and counters: read-only parsing of
  sysfs.
* The optimizer's frontier mode: the server has no way to ask for it.
* SQLite's own serialisation of the server's threads; every call commits.
* In `Watch` any sample may begin or end a burst: the detector's thresholds are in
  `Savings`, which has one thread. Priorities of processes.
* The burst the server makes up for a stored experiment's feed.
* The kernel beyond what the daemon's comments say of it.
* In `Savings` time passes in whole seconds and a sample is never late; in `Measure` a
  program takes no time but for its runs.
* Frontend, scripts, demo, explanations: no shared state.

## 6. Where the code and its documents disagree

Two are runs that end in a counterexample; `PROJECT.json` quotes the line.

* After a crash of the daemon, restore answers ok and does nothing (`helper_recover`).
* A successful `run-fixed` never restores: PROFILE_READY has no move to RESTORING
  (`cli_completion`).

Seen while modelling, without a run. Helper, server, events, watch mode:

* A rejected configuration has already switched mode and boost (daemon.py:204-241;
  docs/HELPER.md:54 says no write), and the watchdog ends a session that was renewed after
  its decision (daemon.py:303; docs/HELPER.md:24).
* A workload longer than 30 s loses its settings to the watchdog and is recorded under
  them: the engine heartbeats once per run (engine.py:864).
* The engine moves rows without the graph (a RESTORED row may become PROFILING
  again); the cancel handler records "restored" before it restores; `POST
  /api/restore` never calls the helper; startup records "hardware restored" without
  looking; a starting experiment ends whatever session is active.
* `create_experiment` writes the overlay after the thread has started (app.py:496): a
  sweep that completes at once is shown as profiling until it is asked for again.
* `end_session` drops anybody's lease; the settings of a killed process then stay in
  force, because the watchdog acts on an active session only.
* A generator closed during its burst leaves its subscriber behind: `live.py:102`
  subscribes before the `try` whose `finally` unsubscribes.
* The names `calibration_*` are not in `EVENT_NAMES`: `publish` raises, the runner
  swallows it, and `/api/calibration/events` streams nothing.
* A workload killed by `stop` is recorded as a point (its return code is not looked at);
  `stop` may answer "Hardware restored" while one more workload is started.
* "Stock Boost" points of later classes, recorded without a cap, run under the last caps of the
  classes before and elsewhere under the base frequency, because their apply asks for boost
  only (calibration_runner.py:354-370). `RunsAsSwept` says exactly which; it does not say that
  their label is true.
* `disarm` and a burst's clamp in two threads: an apply between `restore` and
  `end_session` (live.py:537-538) stays in force without a lease, though the answer
  says restored. `Guarded` excuses it by `crossed`.
* A burst's end that overlaps the next burst's `begin_session` clears the new session's
  flag: that clamp is not renewed and ends with the watchdog.
* A calm sample taken while a disarm runs sets the detector to idle again
  (watch.py:243): the service goes on, without control.

Energy, the detector and the ledger:

* A service on a real counter that was not primed never calibrates: its first sample has
  no power, and the median raises for every later one (watch.py:150; docs/API.md:412 says
  that it learns the baseline). `KnownPowerCalibrates` is about the others.
* Blips within the age limit count as a sustained onset, because the candidate's age is
  measured from its start. The first idle sample after priming replaces the primed baseline,
  and a difference of nearly nothing after a reset can poison it, which is why `BurstIsReal`
  asks for a baseline of at least the idle power.
* Concurrent opt-ins seed the demo entries twice (`DemoOnce` excuses it by `crossed`).
* `saved_pct` does not agree with the energies beside it when the measured one is
  missing, and is negative for a configuration dearer than stock while its saving is 0.
* More than one wrap between two readings goes unnoticed when the difference is plausible.
* energy/base.py:6 says "Missing energy is NEVER zero", and runner.py:29-31 that a missing sample
  "never becomes a zero-joule result". Two places make a zero of it: `measure` falls back to the
  synthetic backend, whose counter stands still, so that every run is recorded with 0 J; and
  the benchmark reports 0.0 when it has neither an end nor samples
  (run_compilation_efficiency_benchmark.py:104-116), or only a part when the last reading is
  missing. `EnergyIsDrawn` is about a real counter and says nothing of those zeros.
* An exception of `read_energy` ends the measuring programs without a restore.

Selection:

* `selection_to_api` (store_bridge.py:119) reports both goals as met for every answer
  with the status "selected".
* curve-options and the matcher choose their baselines by different rules when there is
  no stock configuration, and round to one and to two decimals: an offer of 25.0 may be
  24.96 and not be met. `MatchLosesNothing` is about targets in whole percents.
* A sweep seeded with the calibration of another workload skips points that were never
  measured for its own (engine.py:518-557, 922).
* Reading the runs for a validation's baseline raises: a `RunRecord` has no `is_baseline`.
* A re-selection is persisted "so every reader (UI, export, explain) sees the same evidence"
  (app.py:661), but in two writes, row (666) and overlay (668-669). Between them the engine may
  write both of its own (engine.py:1051, 1060), or another request its two, and a validation
  may put an overlay it had read before (engine.py:200-207): the two then hold different
  selections with nobody persisting, until the next writer or a restart. `OneAnswer` excuses
  exactly those overlaps (`hurt`), and the registration's.
* A profile whose overlay has no baseline is persisted with its first configuration for one
  (engine.py:1065), stock or not.
* Boost caps share their id with no cap, and replace one another in the profile.
* The clock checker keeps what it once probed: probed while boost is off, caps stay
  clamped; the maximum of policy 0 is taken for all.

Measuring programs:

* A comparison labels its second run with a cap (the request's, or 2 GHz) that it never asks
  the helper for: the apply is `{"boost": False}` (app.py:2386-2405, cli/main.py:297-320). The
  benchmark's second phase, announced at 2.00 GHz, asks for boost only as well. What runs is
  boost off, at whatever limits the user has.
* A single measurement of the server caps `policy0` alone (app.py:2457) and is labelled with the
  cap as if it were the machine's; when boost is not asked for it is labelled `boost=True`
  (2467), whatever the user has.
* Runs without a helper, and single ones of the command line, are labelled although nothing is
  applied. So are those after a refused or failed `begin_session` or apply, which is not
  looked at.
* A comparison never heartbeats: after 30 s the watchdog restores, and the second
  configuration is refused, which nobody looks at.

`LabelHolds` is therefore about what was asked for, and about boost where it was; the caps of
labels are not covered.

## 7. Plan

Done: 1. helper, its promise and proofs; 2. state machine and CLI with proofs;
3. engine and server with proofs; 4. the event stream, its promise and the refinement;
5. calibration and watch mode with proofs; 6. optimizer and selection with proofs;
7. counters, detector and ledger with proofs; 8. the measuring programs with proofs.

Next: two requests at once in `Watch`, two validation threads in `LiveEngine`.
