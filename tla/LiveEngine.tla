----------------------------- MODULE LiveEngine -----------------------------
(***************************************************************************)
(* api/engine.py: the server's background threads.  Each experiment has at *)
(* most one profiling thread (_run_experiment) and one validation thread   *)
(* (_run_validation) that measure configurations one by one (_run_one):    *)
(* apply, launch the workload, restore, take the lease again.  They share  *)
(* the helper's lease, the experiment's row, the overlay that GET answers  *)
(* from, the cancel events and the table of active runners.                *)
(*                                                                         *)
(* The helper is what Lease promises of it.  The handlers are in           *)
(* ApiServer.  The restoration_status column is not modelled here: the     *)
(* server writes "restored" to it when an experiment starts.               *)
(***************************************************************************)
EXTENDS Lifecycle, Naturals

CONSTANTS
  Experiments,
  Points,   \* bound: configurations a sweep has to measure
  Pairs     \* repetitions of a validation, two runs each

ASSUME BoundsAssumption == Points \in Nat /\ Pairs \in Nat

Threads == Experiments \X {"profile", "validate"}

(* A thread stands for whichever of its configurations it has applied. *)
Stock == <<"user", "stock">>
Settings == Threads \cup {Stock}

ASSUME StockAssumption == Stock \notin Threads

VARIABLES
  lease, hw, kept, lost,  \* the helper
  row,       \* state column: "NONE" until the row is inserted
  overlay,   \* _OVERLAY[e]["state"]: "none" without an entry, "blank" without a state
  ev,        \* _cancel_events: "none", "clear" or "set"
  runner,    \* _active_runners: {} or {thread}
  pc,        \* where each thread is: "none" when it does not run
  todo,      \* runs it has still to make
  aim,       \* the state it is about to persist
  killed,    \* its workload's process group was signalled
  late,      \* history: threads that launched a workload after cancellation
  broken,    \* history: a call of the helper threw
  unsettled  \* history: the server was killed, and nothing restored since

H == INSTANCE Lease

helper == <<lease, hw, kept, lost>>
stored == <<row, overlay>>
control == <<ev, runner, killed>>
history == <<late, broken, unsettled>>
evars == <<helper, stored, control, pc, todo, aim, history>>

Places ==
  {"none", "end", "begin", "setup", "loop", "apply", "launch", "running", "put",
   "reopen", "record", "verdict", "show", "store", "finally", "close"}

Shown == States \cup {"none", "blank"}

EngineTypeOK ==
  /\ lease \in BOOLEAN /\ hw \in Settings /\ kept \subseteq Settings /\ lost \in BOOLEAN
  /\ row \in [Experiments -> States \cup {"NONE"}]
  /\ overlay \in [Experiments -> Shown]
  /\ ev \in [Experiments -> {"none", "clear", "set"}]
  /\ runner \in [Experiments -> SUBSET Threads]
  /\ pc \in [Threads -> Places]
  /\ todo \in [Threads -> Nat] /\ aim \in [Threads -> States \cup {"none"}]
  /\ killed \in [Threads -> BOOLEAN]
  /\ late \subseteq Threads /\ broken \in BOOLEAN /\ unsettled \in BOOLEAN

EngineInit ==
  /\ lease = FALSE /\ hw = Stock /\ kept = {} /\ lost = FALSE
  /\ row = [e \in Experiments |-> "NONE"] /\ overlay = [e \in Experiments |-> "none"]
  /\ ev = [e \in Experiments |-> "none"] /\ runner = [e \in Experiments |-> {}]
  /\ pc = [t \in Threads |-> "none"] /\ todo = [t \in Threads |-> 0]
  /\ aim = [t \in Threads |-> "none"] /\ killed = [t \in Threads |-> FALSE]
  /\ late = {} /\ broken = FALSE /\ unsettled = FALSE

-----------------------------------------------------------------------------
(* The helper's operations as its clients see them. *)
PutBackOp == hw' \in kept /\ lost' = lost /\ H!Release

(* A refused write is answered with ok = False, which is only logged. *)
RestoreOp == \/ PutBackOp
             \/ hw' = hw /\ lost' = TRUE /\ H!Release
             \/ kept = {} /\ UNCHANGED helper

EndOp == \/ H!Drop
         \/ ~lease /\ UNCHANGED helper

BeginOp == H!Open

(* The call throws, whether or not the helper carried it out. *)
Throws(op) == (op \/ UNCHANGED helper) /\ broken' = TRUE

Exp(t) == t[1]
Profiling(t) == t[2] = "profile"
Validating(t) == t[2] = "validate"
Cancelled(t) == ev[Exp(t)] = "set"

From(t, here, there) == pc[t] = here /\ pc' = [pc EXCEPT ![t] = there]

Aim(t, state) == aim' = [aim EXCEPT ![t] = state]

(* First the overlay, with the profile and the selection ... *)
Show(t) ==
  /\ From(t, "show", "store")
  /\ overlay' = [overlay EXCEPT ![Exp(t)] = aim[t]]
  /\ UNCHANGED <<helper, row, control, todo, aim, history>>

(* ... then the row: transition_state without a look at the allowed moves; *)
(* it raises, and the engine goes on, while there is no row.               *)
StoreState(t) ==
  /\ From(t, "store", IF aim[t] \in {"PROFILING", "VALIDATING"} THEN "loop" ELSE "finally")
  /\ row' = [row EXCEPT ![Exp(t)] = IF @ = "NONE" THEN @ ELSE aim[t]]
  /\ Aim(t, "none")
  /\ UNCHANGED <<helper, overlay, control, todo, history>>

-----------------------------------------------------------------------------
(* end_session "to clear a stale lease", whoever holds it. *)
EndStale(t) ==
  /\ \/ From(t, "end", "begin") /\ EndOp /\ UNCHANGED broken
     \/ From(t, "end", "none") /\ Throws(EndOp)
  /\ UNCHANGED <<stored, control, todo, aim, late, unsettled>>

Begin(t) ==
  /\ \/ From(t, "begin", "setup") /\ BeginOp /\ UNCHANGED broken
     \/ From(t, "begin", "none") /\ lease /\ UNCHANGED <<helper, broken>>
     \/ From(t, "begin", "none") /\ Throws(BeginOp)
  /\ UNCHANGED <<stored, control, todo, aim, late, unsettled>>

(* A sweep: complete from the calibration at once (fast path), or persist  *)
(* the calibration's points first, or just start.  A validation persists   *)
(* its state.                                                              *)
Setup(t) ==
  /\ \/ /\ From(t, "setup", "show") /\ UNCHANGED overlay
        /\ \/ Profiling(t) /\ (Aim(t, "SELECTED") \/ Aim(t, "PROFILING"))
           \/ Validating(t) /\ Aim(t, "VALIDATING")
     \/ /\ From(t, "setup", "loop") /\ Profiling(t) /\ UNCHANGED aim
        /\ overlay' = [overlay EXCEPT ![Exp(t)] = IF @ = "none" THEN "blank" ELSE @]
  /\ todo' = [todo EXCEPT ![t] = IF Profiling(t) THEN Points ELSE 2 * Pairs]
  /\ UNCHANGED <<helper, row, control, history>>

(* Mutant of Loop: cancellation is only looked at after the last run.      *)
LoopUnchecked(t) ==
  /\ \/ /\ todo[t] > 0 /\ From(t, "loop", "apply")
        /\ todo' = [todo EXCEPT ![t] = @ - 1]
     \/ todo[t] = 0 /\ From(t, "loop", "verdict") /\ UNCHANGED todo
  /\ UNCHANGED <<helper, stored, control, aim, history>>

(* Mutant of Loop: one run too many. *)
LoopOffByOne(t) ==
  /\ \/ /\ ~Cancelled(t) /\ todo[t] >= 0 /\ From(t, "loop", "apply")
        /\ todo' = [todo EXCEPT ![t] = @ - 1]
     \/ /\ Cancelled(t) \/ todo[t] <= 0
        /\ From(t, "loop", "verdict") /\ todo' = [todo EXCEPT ![t] = 0]
  /\ UNCHANGED <<helper, stored, control, aim, history>>

(* The check before each run.  A sweep also stops when its time budget is  *)
(* filled.                                                                 *)
Loop(t) ==
  /\ \/ /\ ~Cancelled(t) /\ todo[t] > 0 /\ From(t, "loop", "apply")
        /\ todo' = [todo EXCEPT ![t] = @ - 1]
     \/ /\ Cancelled(t) \/ todo[t] = 0 \/ (Profiling(t) /\ todo[t] < Points)
        /\ From(t, "loop", "verdict") /\ todo' = [todo EXCEPT ![t] = 0]
  /\ UNCHANGED <<helper, stored, control, aim, history>>

(* The check after the last run; a sweep without a usable row fails. *)
Verdict(t) ==
  /\ \/ Cancelled(t) /\ Aim(t, "RESTORED") /\ From(t, "verdict", "show")
     \/ ~Cancelled(t) /\ Profiling(t) /\ Aim(t, "SELECTED") /\ From(t, "verdict", "show")
     \/ ~Cancelled(t) /\ Profiling(t) /\ UNCHANGED aim /\ From(t, "verdict", "finally")
     \/ ~Cancelled(t) /\ Validating(t) /\ Aim(t, "COMPLETE") /\ From(t, "verdict", "show")
  /\ UNCHANGED <<helper, stored, control, todo, history>>

-----------------------------------------------------------------------------
(* _run_one *)

(* apply_configuration and heartbeat.  Without a session, or when a policy *)
(* is refused after mode and boost may have been switched, the run is      *)
(* recorded as failed and nothing is restored.                             *)
Apply(t) ==
  /\ \/ /\ From(t, "apply", "launch")
        /\ hw' = t /\ H!Apply /\ UNCHANGED broken
        /\ runner' = [runner EXCEPT ![Exp(t)] = {t}]
     \/ /\ From(t, "apply", "record") /\ UNCHANGED <<runner, broken>>
        /\ \/ ~lease /\ UNCHANGED helper
           \/ hw' \in {hw, t} /\ H!Apply
     \/ From(t, "apply", "finally") /\ Throws(hw' = t /\ H!Apply) /\ UNCHANGED runner
  /\ UNCHANGED <<stored, ev, killed, todo, aim, late, unsettled>>

(* Until the process is registered a cancel does not reach it. *)
Launch(t) ==
  /\ From(t, "launch", "running")
  /\ late' = IF Cancelled(t) THEN late \cup {t} ELSE late
  /\ UNCHANGED <<helper, stored, control, todo, aim, broken, unsettled>>

(* The workload's end, by itself or by the signal. *)
Ended(t) ==
  /\ From(t, "running", "put")
  /\ runner' = [runner EXCEPT ![Exp(t)] = {}]
  /\ killed' = [killed EXCEPT ![t] = FALSE]
  /\ UNCHANGED <<helper, stored, ev, todo, aim, history>>

PutBack(t) ==
  /\ \/ From(t, "put", "reopen") /\ RestoreOp /\ UNCHANGED broken
     \/ From(t, "put", "finally") /\ Throws(RestoreOp)
  /\ UNCHANGED <<stored, control, todo, aim, late, unsettled>>

(* restore has closed the session: take it again, or go on without. *)
Reopen(t) ==
  /\ \/ From(t, "reopen", "record") /\ BeginOp /\ UNCHANGED broken
     \/ From(t, "reopen", "record") /\ lease /\ UNCHANGED <<helper, broken>>
     \/ From(t, "reopen", "finally") /\ Throws(BeginOp)
  /\ UNCHANGED <<stored, control, todo, aim, late, unsettled>>

(* A sweep persists its progress after every run that gave it a row. *)
Record(t) ==
  /\ \/ Profiling(t) /\ Aim(t, "PROFILING") /\ From(t, "record", "show")
     \/ UNCHANGED aim /\ From(t, "record", "loop")
  /\ UNCHANGED <<helper, stored, control, todo, history>>

-----------------------------------------------------------------------------
(* Mutant of Finally: the helper is told to forget the session only.       *)
FinallyEndsOnly(t) ==
  /\ From(t, "finally", "close")
  /\ UNCHANGED <<helper, stored, control, todo, aim, history>>

(* The finally blocks: restore, then end_session.  A validation drops its  *)
(* runner here.                                                            *)
Finally(t) ==
  /\ \/ From(t, "finally", "close") /\ RestoreOp /\ UNCHANGED broken
     \/ From(t, "finally", "none") /\ Throws(RestoreOp)
  /\ runner' = IF Validating(t) THEN [runner EXCEPT ![Exp(t)] = {}] ELSE runner
  /\ UNCHANGED <<stored, ev, killed, todo, aim, late, unsettled>>

Close(t) ==
  /\ From(t, "close", "none")
  /\ \/ EndOp /\ UNCHANGED broken
     \/ Throws(EndOp)
  /\ unsettled' = FALSE /\ late' = late \ {t}
  /\ UNCHANGED <<stored, control, todo, aim>>

EngineStep(t) ==
  \/ EndStale(t) \/ Begin(t) \/ Setup(t) \/ Loop(t) \/ Verdict(t)
  \/ Apply(t) \/ Launch(t) \/ Ended(t) \/ PutBack(t) \/ Reopen(t) \/ Record(t)
  \/ Show(t) \/ StoreState(t) \/ Finally(t) \/ Close(t)

=============================================================================
