---------------------------- MODULE Calibration -----------------------------
(***************************************************************************)
(* api/calibration_runner.py: the thread that sweeps boost and frequency   *)
(* caps over the core classes, and the start and stop requests.  A stop    *)
(* sets the cancel event, joins the thread for three seconds, restores the *)
(* hardware and clears is_running whether or not the thread has ended.     *)
(*                                                                         *)
(* The helper is what Lease promises of it; it can be reached when a sweep *)
(* starts, but any later call may throw.  Another client of the helper (an *)
(* experiment, the command line) takes the lease and gives it back.        *)
(***************************************************************************)
EXTENDS Naturals, Sequences

CONSTANTS
  Layout,     \* the CPUs of each core class, in the order of the sweep
  Caps,       \* caps of the tier; cap 1 is the highest, the base frequency
  Reps,       \* repetitions per point
  Stops,      \* bound: stop requests at a time
  MaxSweeps   \* bound: sweeps ever started

ASSUME BoundsAssumption ==
  /\ Len(Layout) \in Nat \ {0}
  /\ Caps \in Nat \ {0} /\ Reps \in Nat \ {0} /\ MaxSweeps \in Nat

Sweeps == 1..MaxSweeps
Classes == 1..Len(Layout)
Cpus == UNION {Layout[k] : k \in Classes}
Total == Len(Layout) * (Caps + 1) * Reps

(* boost, and per CPU the number of its cap: 0 when it has none *)
Settings == [boost : BOOLEAN, cap : [Cpus -> 0..Caps]]
Stock == [boost |-> TRUE, cap |-> [c \in Cpus |-> 0]]

VARIABLES
  lease, hw, kept, lost,  \* the helper
  other,     \* the other client began a session and has not ended it
  running,   \* is_running
  cancel,    \* _cancel_event
  thread,    \* _thread: the sweep started last, 0 before the first
  active,    \* _active_proc: {} or {sweep}
  step,      \* current_step
  points,    \* len(points_measured)
  error,     \* error is set
  pc,        \* where each sweep's thread is
  at,        \* the class, the control (0 is stock) and the repetition it is at
  stop,      \* per stop request, where it is
  measured,  \* history: points a sweep measured
  verdict,   \* history: how a sweep reported its end
  told,      \* history: a stop came after the last start
  late,      \* history: workloads a sweep has launched since
  raced,     \* history: a join timed out, or a start came during a stop
  disturbed, \* history: an apply failed, or somebody else restored
  broken     \* history: a call threw

H == INSTANCE Lease

helper == <<lease, hw, kept, lost>>
state == <<running, cancel, thread, active, step, points, error>>
history == <<measured, verdict, told, late, raced, disturbed, broken>>
vars == <<helper, other, state, pc, at, stop, history>>

First == [class |-> 1, control |-> 0, rep |-> 1]

Init ==
  /\ lease = FALSE /\ hw = Stock /\ kept = {} /\ lost = FALSE
  /\ other = FALSE
  /\ running = FALSE /\ cancel = FALSE /\ error = FALSE
  /\ thread = 0 /\ active = {} /\ step = 0 /\ points = 0
  /\ pc = [s \in Sweeps |-> "new"] /\ at = [s \in Sweeps |-> First]
  /\ stop = [r \in Stops |-> "idle"]
  /\ measured = [s \in Sweeps |-> 0] /\ verdict = [s \in Sweeps |-> "none"]
  /\ told = FALSE /\ late = [s \in Sweeps |-> 0]
  /\ raced = FALSE /\ disturbed = FALSE /\ broken = FALSE

Alive(s) == pc[s] \notin {"new", "over"}

-----------------------------------------------------------------------------
(* The helper's operations as its clients see them. *)
RestoreOp == \/ hw' \in kept /\ lost' = lost /\ H!Release
             \/ hw' = hw /\ lost' = TRUE /\ H!Release
             \/ kept = {} /\ UNCHANGED helper

EndOp == \/ H!Drop
         \/ ~lease /\ UNCHANGED helper

(* A call that throws may have been carried out; every caller logs it. *)
Call(op) ==
  \/ op /\ UNCHANGED broken
  \/ (op \/ UNCHANGED helper) /\ broken' = TRUE

(* What the kernel makes of a configuration: without boost no CPU is above *)
(* the base frequency; a request without caps leaves the caps there are.   *)
Boosted == [hw EXCEPT !.boost = TRUE]
Unboosted == [boost |-> FALSE, cap |-> [c \in Cpus |-> IF hw.cap[c] = 0 THEN 1 ELSE hw.cap[c]]]
Capped(k, n) == [boost |-> FALSE,
                 cap |-> [c \in Cpus |-> IF c \in Layout[k] THEN n ELSE Unboosted.cap[c]]]

Goto(s, here, there) == pc[s] = here /\ pc' = [pc EXCEPT ![s] = there]
Move(s, to) == at' = [at EXCEPT ![s] = to]

NextClass(s) == [class |-> at[s].class + 1, control |-> 0, rep |-> 1]
NextPoint(s) == [class |-> at[s].class, control |-> at[s].control + 1, rep |-> 1]

-----------------------------------------------------------------------------
(* Requests *)

(* Mutant of Start: nobody asks whether a sweep is running.                *)
StartUnchecked ==
  /\ thread < MaxSweeps
  /\ thread' = thread + 1 /\ running' = TRUE /\ cancel' = FALSE
  /\ step' = 0 /\ points' = 0 /\ error' = FALSE
  /\ Goto(thread', "new", "begin")
  /\ told' = FALSE /\ late' = [s \in Sweeps |-> 0]
  /\ raced' = (raced \/ \E r \in Stops : stop[r] # "idle")
  /\ UNCHANGED <<helper, other, active, at, stop, measured, verdict, disturbed, broken>>

Start ==
  /\ ~running /\ thread < MaxSweeps
  /\ thread' = thread + 1 /\ running' = TRUE /\ cancel' = FALSE
  /\ step' = 0 /\ points' = 0 /\ error' = FALSE
  /\ Goto(thread', "new", "begin")
  /\ told' = FALSE /\ late' = [s \in Sweeps |-> 0]
  /\ raced' = (raced \/ \E r \in Stops : stop[r] # "idle")
  /\ UNCHANGED <<helper, other, active, at, stop, measured, verdict, disturbed, broken>>

Stopping(r, here, there) == stop[r] = here /\ stop' = [stop EXCEPT ![r] = there]

(* Mutant of Stop: the sweep is not told.                                  *)
StopSilent(r) ==
  /\ running /\ Stopping(r, "idle", "join")
  /\ told' = TRUE /\ late' = [s \in Sweeps |-> 0]
  /\ UNCHANGED <<helper, other, state, pc, at, measured, verdict, raced, disturbed, broken>>

(* The workload it finds in _active_proc is killed, which ends it sooner.  *)
Stop(r) ==
  /\ running /\ Stopping(r, "idle", "join")
  /\ cancel' = TRUE
  /\ told' = TRUE /\ late' = [s \in Sweeps |-> 0]
  /\ UNCHANGED <<helper, other, running, thread, active, step, points, error, pc, at,
                 measured, verdict, raced, disturbed, broken>>

(* It joins the thread there is now, not the one it told to stop. *)
Join(r) ==
  /\ Stopping(r, "join", "restore")
  /\ raced' = (raced \/ Alive(thread))
  /\ UNCHANGED <<helper, other, state, pc, at, measured, verdict, told, late, disturbed,
                 broken>>

StopRestore(r) ==
  /\ Stopping(r, "restore", "answer")
  /\ Call(RestoreOp)
  /\ UNCHANGED <<other, state, pc, at, measured, verdict, told, late, raced, disturbed>>

Answer(r) ==
  /\ Stopping(r, "answer", "idle")
  /\ running' = FALSE
  /\ UNCHANGED <<helper, other, cancel, thread, active, step, points, error, pc, at, history>>

-----------------------------------------------------------------------------
(* The sweep's thread *)

(* A refused begin_session is not noticed: the sweep then works, if at all, *)
(* under somebody else's session.                                          *)
Begin(s) ==
  /\ Goto(s, "begin", "class")
  /\ \/ Call(H!Open) /\ UNCHANGED disturbed
     \/ lease /\ disturbed' = TRUE /\ UNCHANGED <<helper, broken>>
  /\ UNCHANGED <<other, state, at, stop, measured, verdict, told, late, raced>>

Class(s) ==
  /\ \/ ~cancel /\ at[s].class \in Classes /\ Goto(s, "class", "point")
     \/ (cancel \/ at[s].class \notin Classes) /\ Goto(s, "class", "restore")
  /\ UNCHANGED <<helper, other, state, at, stop, history>>

Point(s) ==
  /\ \/ /\ ~cancel /\ at[s].control <= Caps
        /\ Goto(s, "point", "apply") /\ UNCHANGED at
     \/ /\ cancel \/ at[s].control > Caps
        /\ Goto(s, "point", "class") /\ Move(s, NextClass(s))
  /\ UNCHANGED <<helper, other, state, stop, history>>

Request(s) ==
  hw' = IF at[s].control = 0 THEN Boosted ELSE Capped(at[s].class, at[s].control)

(* The wait for the cancel event that follows. *)
Settle(s) ==
  \/ ~cancel /\ Goto(s, "apply", "rep") /\ UNCHANGED at
  \/ cancel /\ Goto(s, "apply", "class") /\ Move(s, NextClass(s))

(* Mutant of Apply: boost stays as it is.                                  *)
ApplyCapsOnly(s) ==
  /\ Settle(s)
  /\ \/ /\ hw' = [Capped(at[s].class, at[s].control) EXCEPT !.boost = hw.boost]
        /\ Call(H!Apply) /\ UNCHANGED disturbed
     \/ lease = FALSE /\ disturbed' = TRUE /\ UNCHANGED <<helper, broken>>
  /\ UNCHANGED <<other, state, stop, measured, verdict, told, late, raced>>

(* Without a session nothing is applied; a cap beyond the hardware's range *)
(* is refused after boost was written.  Neither answer is looked at.       *)
Apply(s) ==
  /\ Settle(s)
  /\ \/ Request(s) /\ H!Apply /\ UNCHANGED <<disturbed, broken>>
     \/ /\ at[s].control > 0 /\ hw' = Unboosted /\ H!Apply
        /\ disturbed' = TRUE /\ UNCHANGED broken
     \/ ~lease /\ disturbed' = TRUE /\ UNCHANGED <<helper, broken>>
     \/ /\ (Request(s) /\ H!Apply) \/ UNCHANGED helper
        /\ broken' = TRUE /\ disturbed' = TRUE
  /\ UNCHANGED <<other, state, stop, measured, verdict, told, late, raced>>

Rep(s) ==
  /\ \/ /\ ~cancel /\ at[s].rep <= Reps
        /\ Goto(s, "rep", "launch") /\ step' = step + 1 /\ UNCHANGED at
     \/ /\ cancel \/ at[s].rep > Reps
        /\ Goto(s, "rep", "point") /\ Move(s, NextPoint(s)) /\ UNCHANGED step
  /\ UNCHANGED <<helper, other, running, cancel, thread, active, points, error, stop, history>>

(* Until Popen has returned, a stop does not find the process. *)
Launch(s) ==
  /\ Goto(s, "launch", "running")
  /\ active' = {s}
  /\ late' = IF told THEN [late EXCEPT ![s] = @ + 1] ELSE late
  /\ UNCHANGED <<helper, other, running, cancel, thread, step, points, error, at, stop,
                 measured, verdict, told, raced, disturbed, broken>>

(* By itself, by the stop's signal or by its own timeout.  Another sweep   *)
(* may have cleared _active_proc, from which the exit code is read.        *)
Ended(s) ==
  /\ \/ Goto(s, "running", "record") /\ UNCHANGED error
     \/ active = {} /\ Goto(s, "running", "restore") /\ error' = TRUE
  /\ active' = {}
  /\ UNCHANGED <<helper, other, running, cancel, thread, step, points, at, stop, history>>

(* A heartbeat, a launch or an energy reading that throws ends the sweep. *)
Fail(s) ==
  /\ Goto(s, "launch", "restore") \/ Goto(s, "record", "restore")
  /\ error' = TRUE
  /\ UNCHANGED <<helper, other, running, cancel, thread, active, step, points, at, stop, history>>

(* The point joins the list there is now; the cancel event is looked at    *)
(* once more.  Publishing the point is refused: the event log does not     *)
(* know the name.                                                          *)
Record(s) ==
  /\ points' = points + 1
  /\ measured' = [measured EXCEPT ![s] = @ + 1]
  /\ \/ ~cancel /\ Goto(s, "record", "rep") /\ Move(s, [at[s] EXCEPT !.rep = @ + 1])
     \/ cancel /\ Goto(s, "record", "point") /\ Move(s, NextPoint(s))
  /\ UNCHANGED <<helper, other, running, cancel, thread, active, step, error, stop,
                 verdict, told, late, raced, disturbed, broken>>

(* Mutant of Restore: the session is ended, the settings stay.             *)
RestoreEndsOnly(s) ==
  /\ Goto(s, "restore", "end")
  /\ UNCHANGED <<helper, other, state, at, stop, history>>

(* The finally block; end_session is not called after a restore that threw. *)
Restore(s) ==
  /\ \/ Goto(s, "restore", "end") /\ RestoreOp /\ UNCHANGED broken
     \/ /\ Goto(s, "restore", "close") /\ (RestoreOp \/ UNCHANGED helper)
        /\ broken' = TRUE
  /\ UNCHANGED <<other, state, at, stop, measured, verdict, told, late, raced, disturbed>>

End(s) ==
  /\ Goto(s, "end", "close")
  /\ Call(EndOp)
  /\ UNCHANGED <<other, state, at, stop, measured, verdict, told, late, raced, disturbed>>

(* Mutant of Close: a cancelled sweep reports completion.                  *)
CloseUnchecked(s) ==
  /\ Goto(s, "close", "over")
  /\ running' = FALSE
  /\ verdict' = [verdict EXCEPT ![s] = IF error THEN "partial" ELSE "complete"]
  /\ UNCHANGED <<helper, other, cancel, thread, active, step, points, error, at, stop,
                 measured, told, late, raced, disturbed, broken>>

Close(s) ==
  /\ Goto(s, "close", "over")
  /\ running' = FALSE
  /\ verdict' = [verdict EXCEPT ![s] = IF cancel \/ error THEN "partial" ELSE "complete"]
  /\ UNCHANGED <<helper, other, cancel, thread, active, step, points, error, at, stop,
                 measured, told, late, raced, disturbed, broken>>

Step(s) ==
  \/ Begin(s) \/ Class(s) \/ Point(s) \/ Apply(s) \/ Rep(s) \/ Launch(s)
  \/ Ended(s) \/ Fail(s) \/ Record(s) \/ Restore(s) \/ End(s) \/ Close(s)

-----------------------------------------------------------------------------
(* Everybody else on the helper *)

OtherBegin ==
  /\ ~other /\ other' = TRUE /\ H!Open
  /\ UNCHANGED <<state, pc, at, stop, history>>

(* An experiment restores and ends the session, whoever has it by then. *)
OtherEnd ==
  /\ other /\ other' = FALSE /\ disturbed' = TRUE
  /\ (kept # {} /\ RestoreOp) \/ (kept = {} /\ EndOp)
  /\ UNCHANGED <<state, pc, at, stop, measured, verdict, told, late, raced, broken>>

(* A workload may run for 600 s without a heartbeat. *)
Watchdog ==
  /\ lease /\ disturbed' = TRUE
  /\ (kept # {} /\ RestoreOp) \/ (kept = {} /\ EndOp)
  /\ UNCHANGED <<other, state, pc, at, stop, measured, verdict, told, late, raced, broken>>

Next ==
  \/ Start \/ OtherBegin \/ OtherEnd \/ Watchdog
  \/ \E r \in Stops : Stop(r) \/ Join(r) \/ StopRestore(r) \/ Answer(r)
  \/ \E s \in Sweeps : Step(s)

Spec == Init /\ [][Next]_vars

-----------------------------------------------------------------------------
(* When no sweep, no stop and no other client is at work, the user's       *)
(* settings are in force and the lease is free, whatever raced, unless a   *)
(* call of the helper threw or a write of a restoration was refused.       *)
Quiet == (\A s \in Sweeps : ~Alive(s)) /\ (\A r \in Stops : stop[r] = "idle") /\ other = FALSE

QuietIsStock == (Quiet /\ ~broken /\ ~lost) => (hw = Stock /\ ~lease)

(* is_running is what start and stop go by: unless a stop gave up on its   *)
(* thread, or a start came during a stop, it is true exactly of the one    *)
(* sweep that is alive.                                                    *)
OneSweep ==
  ~raced => \A s \in Sweeps : Alive(s) => s = thread /\ running

(* After a stop, until the next start, each sweep launches at most the     *)
(* workload it was about to launch.                                        *)
OneRunAfterStop == \A s \in Sweeps : late[s] <= 1

(* A sweep that reports completion has measured every point once, and its  *)
(* progress never exceeds the total, under the same condition.             *)
CompleteIsFull ==
  ~raced =>
    /\ \A s \in Sweeps : verdict[s] = "complete" => measured[s] = Total
    /\ points <= step /\ step <= Total

(* The caps that a sweep has come to at the n-th control of class k, 0     *)
(* being stock: no cap is 0, the base frequency 1.                         *)
Earlier(k) == UNION {Layout[j] : j \in 1..(k - 1)}

Left(k, n) ==
  [c \in Cpus |-> IF n > 0 /\ c \in Layout[k] THEN n
                  ELSE IF c \in Earlier(k) THEN Caps
                  ELSE IF n = 0 /\ k = 1 THEN 0 ELSE 1]

(* A workload runs under exactly what the applies of its sweep, up to that *)
(* of its point, come to: boost is what the point's label says, and the    *)
(* CPUs of its class have the point's cap.  A stock point asks for boost   *)
(* alone, so that after the first class it is under the last cap of the    *)
(* classes before and, elsewhere, at the base frequency, whatever its      *)
(* label says.  Excused is what a call that failed, another client, the    *)
(* watchdog, a join given up or a start during a stop does to them.        *)
RunsAsSwept ==
  \A s \in Sweeps :
    (pc[s] = "running" /\ ~disturbed /\ ~raced /\ ~broken /\ ~lost) =>
      hw = [boost |-> at[s].control = 0, cap |-> Left(at[s].class, at[s].control)]

=============================================================================
