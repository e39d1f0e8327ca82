------------------------------ MODULE Measure -------------------------------
(***************************************************************************)
(* The programs that measure a workload outside an experiment: POST        *)
(* /api/measure (api/app.py), `joulectrl measure` (cli/main.py) and        *)
(* run_compilation_efficiency_benchmark.py.  Each is a straight line of    *)
(* calls of the helper, whose answers it does not look at, and of runs,    *)
(* with a label that need not say what it has asked the helper for.  The   *)
(* helper is what Lease promises of it; its watchdog decides, then acts.   *)
(*                                                                         *)
(* Only the benchmark heartbeats.  A Timeout is what the watchdog waits    *)
(* for; a program takes no time but for its runs, and the counter is 0     *)
(* while nobody measures.                                                  *)
(***************************************************************************)
EXTENDS Meter, Sequences

CONSTANTS
  Clients,    \* programs, each started at most once
  Powers,     \* what the package may draw in a tick
  Sources,    \* "counter", "synthetic"
  Asks,       \* what a single run may ask for, set by set
  Long,       \* bound: ticks of a run
  Timeout     \* HEARTBEAT_TIMEOUT_S, in ticks

ASSUME MeasureAssumption ==
  Powers \subseteq 1..Ceiling /\ Timeout \in Nat \ {0} /\ Long \in Nat

(* The counter does not wrap twice in a run. *)
ASSUME OneWrapAssumption == Long * Ceiling < MaxRange

(* Boost, and a cap on the first policy or on all: the user's, or what was *)
(* asked for.                                                              *)
Settings == [boost : {"user", "on", "off"}, cap : {"user", "policy0", "all"}]

User == [boost |-> "user", cap |-> "user"]
BoostOn == [boost |-> "on", cap |-> "user"]
BoostOff == [boost |-> "off", cap |-> "user"]

ASSUME AsksAssumption ==
  Asks \subseteq [boost : {"user", "on", "off"}, cap : {"user", "policy0"}] \ {User}

VARIABLES
  lease, hw, kept, lost,  \* the helper
  age,     \* ticks since the last heartbeat or begin_session, up to Timeout
  wd,      \* the watchdog: "sleep" or "decided"
  prog,    \* per client, its steps; <<>> before it has started
  place,   \* per client, the step it is at; Stopped
  source,  \* per client, its energy backend
  phase,   \* of the run it is at: "ready", "running", "reported"
  from,    \* the reading before it: {} or {reading}
  last,    \* the sampler's last reading
  energy,  \* what it reports: {} or {energy}
  span,    \* its ticks
  under,   \* history: the settings it ran under, if the program is alone
  drawn,   \* history: the energy that was really drawn
  whole,   \* history: the readings that its report needs were there
  spent,   \* history: per client, ticks of runs in its session, up to Timeout
  alone,   \* history: it started with the helper at rest, and no other did since
  broken   \* history: a call of it threw, or it was killed

H == INSTANCE Lease

helper == <<lease, hw, kept, lost>>
run == <<phase, from, last, energy, span, drawn, whole>>
history == <<spent, alone, broken>>
mvars == <<helper, age, wd, count, prog, place, source, run, under, history>>

Stopped == 0

-----------------------------------------------------------------------------
(* A step: what is asked of the helper, or was for this run; what the run  *)
(* is labelled with; where it goes if it throws: out of the program, to 0, *)
(* where nothing catches.                                                  *)
Do(op, asked, label, catch) == [op |-> op, asked |-> asked, label |-> label, catch |-> catch]

Ask(op, catch) == Do(op, User, User, catch)
Apply(asked, catch) == Do("apply", asked, User, catch)

(* The handler returns; the command exits. *)
End == Ask("stop", 0)

(* The second configuration of a comparison: a cap that nobody asks for.   *)
Capped == [boost |-> "off", cap |-> "all"]

(* Mutant of Compare: the second configuration is that of the first.       *)
CompareStock ==
  <<Ask("begin", 3), Apply(BoostOn, 3), Do("run", BoostOn, BoostOn, 0),
    Apply(BoostOn, 5), Do("run", BoostOff, Capped, 0),
    Ask("restore", 8), Ask("end", 8), End>>

(* compare_stock, and --compare: three try blocks around two runs. *)
Compare ==
  <<Ask("begin", 3), Apply(BoostOn, 3), Do("run", BoostOn, BoostOn, 0),
    Apply(BoostOff, 5), Do("run", BoostOff, Capped, 0),
    Ask("restore", 8), Ask("end", 8), End>>

(* A run that is asked for is labelled with boost unless it is to be off,  *)
(* and with its cap as if it were on every policy.                         *)
Custom(asked) ==
  [boost |-> IF asked.boost = "user" THEN "on" ELSE asked.boost,
   cap |-> IF asked.cap = "user" THEN "user" ELSE "all"]

(* A single run of the server, of whatever is asked for: without a session *)
(* it is not restored.  A cap is only asked of the first policy.           *)
Single(asked) ==
  LET Go == Do("run", asked, Custom(asked), 0)
  IN  <<Ask("begin", 7), Apply(asked, 3), Go, Ask("restore", 6), Ask("end", 6), End, Go, End>>

(* --compare of the command line is the same.  Without a helper the two    *)
(* runs of either are labelled alike, but nothing is applied.              *)
CompareCli(answers) ==
  IF answers THEN Compare
  ELSE <<Do("run", User, BoostOn, 0), Do("run", User, Capped, 0), End>>

(* One run of the command line, and of the server for which nothing is     *)
(* asked or without a helper: nothing is applied.                          *)
Bare == <<Do("run", User, BoostOn, 0), End>>

(* Mutant of Benchmark: the session is ended before it is restored.        *)
BenchmarkEndsFirst ==
  LET Phase(asked, label) ==
        <<Ask("begin", 0), Apply(asked, 0), Do("sample", asked, label, 0),
          Ask("end", 0), Ask("restore", 0)>>
  IN  Phase(BoostOn, BoostOn) \o Phase(BoostOff, Capped) \o <<End>>

(* The benchmark has no try at all. *)
Benchmark ==
  <<Ask("begin", 0), Apply(BoostOn, 0), Do("sample", BoostOn, BoostOn, 0),
    Ask("restore", 0), Ask("end", 0),
    Ask("begin", 0), Apply(BoostOff, 0), Do("sample", BoostOff, Capped, 0),
    Ask("restore", 0), Ask("end", 0), End>>

Programs == {Compare, CompareCli(TRUE), CompareCli(FALSE), Bare, Benchmark}
            \cup {Single(asked) : asked \in Asks}

(* It was there when the program looked for its socket. *)
HasHelper(program) == \E i \in DOMAIN program : program[i].op = "apply"

-----------------------------------------------------------------------------
MInit ==
  /\ lease = FALSE /\ hw = User /\ kept = {} /\ lost = FALSE
  /\ age = 0 /\ wd = "sleep" /\ count = 0
  /\ prog = [c \in Clients |-> <<>>] /\ place = [c \in Clients |-> Stopped]
  /\ source = [c \in Clients |-> "none"] /\ phase = [c \in Clients |-> "ready"]
  /\ from = [c \in Clients |-> {}] /\ last = [c \in Clients |-> {}]
  /\ energy = [c \in Clients |-> {}] /\ span = [c \in Clients |-> 0]
  /\ under = [c \in Clients |-> {}] /\ drawn = [c \in Clients |-> 0]
  /\ whole = [c \in Clients |-> FALSE]
  /\ spent = [c \in Clients |-> 0] /\ alone = [c \in Clients |-> FALSE]
  /\ broken = [c \in Clients |-> FALSE]

Step(c) == prog[c][place[c]]
At(c, op) == place[c] # Stopped /\ Step(c).op = op
Goto(c, n) == place' = [place EXCEPT ![c] = n]
Running(c) == place[c] # Stopped /\ phase[c] = "running"

(* A run in progress goes on under the settings that are now in force. *)
Undergo == under' = [c \in Clients |->
                     IF alone[c] /\ Running(c) THEN under[c] \cup {hw'} ELSE under[c]]

(* The energy backend is the counter, read by the helper if it answers, or *)
(* by the program if it may, and else one that stands still.               *)
Start(c) ==
  /\ prog[c] = <<>>
  /\ \E p \in Programs, s \in Sources :
       /\ p = Benchmark => s = "counter"
       /\ prog' = [prog EXCEPT ![c] = p] /\ source' = [source EXCEPT ![c] = s]
  /\ Goto(c, 1)
  /\ LET rest == ~lease /\ kept = {} /\ wd = "sleep" /\ \A o \in Clients : place[o] = Stopped
     IN  alone' = [o \in Clients |-> IF o = c THEN rest ELSE alone[o] /\ place[o] = Stopped]
  /\ UNCHANGED <<helper, age, wd, count, run, under, spent, broken>>

-----------------------------------------------------------------------------
(* The calls.  A refusal is an answer like any other. *)
BeginSession(c) ==
  /\ At(c, "begin")
  /\ IF lease THEN UNCHANGED <<helper, age>> ELSE H!Open /\ age' = 0
  /\ spent' = [spent EXCEPT ![c] = 0]

(* What was not asked for stays as it is. *)
Over(asked) == [knob \in {"boost", "cap"} |-> IF asked[knob] = "user" THEN hw[knob] ELSE asked[knob]]

ApplyConfiguration(c) ==
  /\ At(c, "apply")
  /\ IF lease THEN H!Apply /\ hw' = Over(Step(c).asked) ELSE UNCHANGED helper
  /\ UNCHANGED <<age, spent>>

PutBack == hw' \in kept /\ lost' = lost /\ H!Release

Restore(c) ==
  /\ At(c, "restore")
  /\ \/ PutBack
     \/ hw' = hw /\ lost' = TRUE /\ H!Release
     \/ kept = {} /\ UNCHANGED helper
  /\ UNCHANGED <<age, spent>>

EndSession(c) ==
  /\ At(c, "end")
  /\ IF lease THEN H!Drop ELSE UNCHANGED helper
  /\ UNCHANGED <<age, spent>>

Operation(c) ==
  BeginSession(c) \/ ApplyConfiguration(c) \/ Restore(c) \/ EndSession(c)

Call(c) ==
  /\ Operation(c) /\ Goto(c, place[c] + 1) /\ Undergo
  /\ UNCHANGED <<wd, count, prog, source, run, alone, broken>>

(* The call throws, whether or not the helper carried it out. *)
CallThrows(c) ==
  /\ \/ Operation(c)
     \/ /\ place[c] # Stopped /\ Step(c).op \in {"begin", "apply", "restore", "end"}
        /\ UNCHANGED <<helper, age, spent>>
  /\ Goto(c, Step(c).catch) /\ Undergo /\ broken' = [broken EXCEPT ![c] = TRUE]
  /\ UNCHANGED <<wd, count, prog, source, run, alone>>

-----------------------------------------------------------------------------
(* A reading of c's backend; a counter that cannot be read gives none. *)
Reads(c, now) == IF source[c] = "synthetic" THEN {{MaxRange - 1}} ELSE {{}, {now}}

Measures(c) == place[c] # Stopped /\ Step(c).op \in {"run", "sample"}

Launch(c) ==
  /\ Measures(c) /\ phase[c] = "ready"
  /\ count' \in IF \E o \in Clients : Running(o) THEN {count} ELSE Starts
  /\ \E reading \in Reads(c, count') :
       from' = [from EXCEPT ![c] = reading] /\ last' = [last EXCEPT ![c] = reading]
  /\ phase' = [phase EXCEPT ![c] = "running"] /\ span' = [span EXCEPT ![c] = 0]
  /\ under' = [under EXCEPT ![c] = IF alone[c] THEN {hw} ELSE {}]
  /\ drawn' = [drawn EXCEPT ![c] = 0]
  /\ UNCHANGED <<helper, age, wd, prog, place, source, energy, whole, history>>

(* The benchmark's thread keeps the session alive and follows the counter  *)
(* as long as it rises.                                                    *)
Followed(c, uj) ==
  IF At(c, "sample") /\ Running(c) /\ \E x \in last[c] : uj > x THEN {{uj}, last[c]}
  ELSE {last[c]}

Beats == \E c \in Clients : At(c, "sample") /\ Running(c)

Tick ==
  /\ \E c \in Clients : Running(c)
  /\ \A c \in Clients : Running(c) => span[c] < Long
  /\ \E power \in Powers :
       /\ count' = Advance(count, power)
       /\ drawn' = [c \in Clients |-> drawn[c] + IF Running(c) THEN power ELSE 0]
       /\ last' \in [Clients -> UNION {Followed(c, Advance(count, power)) : c \in Clients}]
       /\ \A c \in Clients : last'[c] \in Followed(c, Advance(count, power))
  /\ age' = IF Beats THEN 0 ELSE IF age < Timeout THEN age + 1 ELSE age
  /\ span' = [c \in Clients |-> IF Running(c) THEN span[c] + 1 ELSE span[c]]
  /\ spent' = [c \in Clients |->
                 IF Running(c) /\ spent[c] < Timeout THEN spent[c] + 1 ELSE spent[c]]
  /\ UNCHANGED <<helper, wd, prog, place, source, phase, from, energy, under, whole, alone, broken>>

(* Mutant of TotalEnergy: the reading at the start is not subtracted.      *)
RawEnergy(c, to) == IF to # {} THEN to ELSE {0}

(* What the benchmark reports: up to the end, or to the last sample, or    *)
(* the sum of samples there are not: zero.                                 *)
TotalEnergy(c, to) ==
  LET Up(readings) == UNION {{b - a : b \in {x \in readings : x > a}} : a \in from[c]}
  IN  IF Up(to) # {} THEN Up(to) ELSE IF Up(last[c]) # {} THEN Up(last[c]) ELSE {0}

(* Nobody but c follows the counter. *)
Leave(c) == count' = IF \E o \in Clients \ {c} : Running(o) THEN count ELSE 0

(* Both readings were taken; what the benchmark makes of them knows of no  *)
(* wrap.                                                                   *)
Whole(c, reading) ==
  /\ from[c] # {} /\ reading # {}
  /\ At(c, "sample") => \A a \in from[c] : a + drawn[c] < MaxRange

(* The workload has ended. *)
Report(c) ==
  /\ Measures(c) /\ phase[c] = "running" /\ span[c] > 0
  /\ \E reading \in Reads(c, count) :
       /\ whole' = [whole EXCEPT ![c] = Whole(c, reading)]
       /\ energy' = [energy EXCEPT ![c] = IF At(c, "sample") THEN TotalEnergy(c, reading)
                                          ELSE Energy(from[c], reading, Wrap, span[c])]
  /\ phase' = [phase EXCEPT ![c] = "reported"] /\ Leave(c)
  /\ from' = [from EXCEPT ![c] = {}] /\ last' = [last EXCEPT ![c] = {}]
  /\ span' = [span EXCEPT ![c] = 0]
  /\ UNCHANGED <<helper, age, wd, prog, place, source, under, drawn, history>>

NextRun(c) ==
  /\ Measures(c) /\ phase[c] = "reported"
  /\ phase' = [phase EXCEPT ![c] = "ready"] /\ Goto(c, place[c] + 1)
  /\ energy' = [energy EXCEPT ![c] = {}] /\ drawn' = [drawn EXCEPT ![c] = 0]
  /\ under' = [under EXCEPT ![c] = {}] /\ whole' = [whole EXCEPT ![c] = FALSE]
  /\ UNCHANGED <<helper, age, wd, count, prog, source, from, last, span, history>>

(* The program is at its end, or killed, or the helper does not answer     *)
(* when the counter is read before or after a run: nothing catches that.   *)
Stop(c) ==
  /\ place[c] # Stopped /\ Goto(c, Stopped)
  /\ broken' = [broken EXCEPT ![c] = @ \/ Step(c).op # "stop"]
  /\ phase' = [phase EXCEPT ![c] = "ready"] /\ Leave(c)
  /\ from' = [from EXCEPT ![c] = {}] /\ last' = [last EXCEPT ![c] = {}]
  /\ energy' = [energy EXCEPT ![c] = {}] /\ span' = [span EXCEPT ![c] = 0]
  /\ under' = [under EXCEPT ![c] = {}] /\ whole' = [whole EXCEPT ![c] = FALSE]
  /\ drawn' = [drawn EXCEPT ![c] = 0]
  /\ UNCHANGED <<helper, age, wd, prog, source, spent, alone>>

-----------------------------------------------------------------------------
(* Time passes after the last program. *)
Wait ==
  /\ \A c \in Clients : place[c] = Stopped
  /\ lease /\ age < Timeout /\ age' = Timeout
  /\ UNCHANGED <<helper, wd, count, prog, place, source, run, under, history>>

Decide ==
  /\ wd = "sleep" /\ lease /\ age = Timeout /\ wd' = "decided"
  /\ UNCHANGED <<helper, age, count, prog, place, source, run, under, history>>

Act ==
  /\ wd = "decided" /\ wd' = "sleep"
  /\ \/ PutBack
     \/ kept = {} /\ IF lease THEN H!Drop ELSE UNCHANGED helper
  /\ Undergo
  /\ UNCHANGED <<age, count, prog, place, source, run, history>>

MNext ==
  \/ \E c \in Clients : Start(c) \/ Call(c) \/ CallThrows(c) \/ Launch(c) \/ Report(c)
                        \/ NextRun(c) \/ Stop(c)
  \/ Tick \/ Wait \/ Decide \/ Act

MSpec == MInit /\ [][MNext]_mvars

-----------------------------------------------------------------------------
(* What was asked for of boost and of a cap is in force, and boost is as   *)
(* the label says.  (Its cap is not: the README tells.)                    *)
AsAsked(step, settings) ==
  /\ \A knob \in {"boost", "cap"} : step.asked[knob] # "user" => settings[knob] = step.asked[knob]
  /\ step.asked.boost # "user" => settings.boost = step.label.boost

(* A program that has the machine for itself, and whose calls arrive,      *)
(* measures each run, from its beginning to its end, under the settings it *)
(* asked for.  Only a session that has measured for as long as the         *)
(* watchdog waits, without a heartbeat, may lose them: to the settings of  *)
(* the user, and never to those of the other configuration of a            *)
(* comparison, whose second request may have been refused by then.         *)
LabelHolds ==
  \A c \in Clients :
    (phase[c] = "reported" /\ alone[c] /\ ~broken[c] /\ HasHelper(prog[c])) =>
      \A settings \in under[c] :
        \/ AsAsked(Step(c), settings)
        \/ /\ spent[c] = Timeout /\ ~At(c, "sample")
           /\ settings = User \/ lost

(* However the programs interleave: once they have all stopped and the     *)
(* lease is free, the user's settings are in force.  That is so for calls  *)
(* that threw and programs that were killed too, as long as they were      *)
(* alone; the watchdog does the rest.                                      *)
SettingsComeBack ==
  ((\A c \in Clients : place[c] = Stopped /\ (broken[c] => alone[c])) /\ ~lease /\ ~lost) =>
    hw = User /\ kept = {}

(* Where there is a counter: a run of the runner whose two readings were   *)
(* taken reports what was drawn while it ran, no more and no less, over a  *)
(* wrap too, and one that lacks a reading reports nothing.  So does the    *)
(* benchmark where the counter did not wrap; else it may report less, up   *)
(* to the last sample.  The zeros that it reports for energy it has not    *)
(* measured are not right, and not covered: the README tells.              *)
EnergyIsDrawn ==
  \A c \in Clients : (phase[c] = "reported" /\ source[c] = "counter") =>
    /\ whole[c] => energy[c] = {drawn[c]}
    /\ ~whole[c] /\ At(c, "run") => energy[c] = {}
    /\ \A e \in energy[c] \ {0} : e <= drawn[c]

=============================================================================
