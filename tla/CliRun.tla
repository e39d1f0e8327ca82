------------------------------- MODULE CliRun -------------------------------
(***************************************************************************)
(* cli/main.py run-fixed: processes that each create an experiment, take   *)
(* the helper's lease, apply a configuration, measure one profile point    *)
(* through ExperimentStateMachine (core/experiment.py) and restore in a    *)
(* finally block.  The helper is what Lease promises of it; its watchdog   *)
(* may end any session, since this client never sends a heartbeat.         *)
(*                                                                         *)
(* Store.transition_state commits the row and then, in a second            *)
(* transaction, the audit row: a process killed in between leaves the row  *)
(* without its audit.                                                      *)
(***************************************************************************)
EXTENDS Lifecycle, Naturals, Sequences, FiniteSets

CONSTANT Runs   \* run-fixed processes, each with a configuration of its own

ASSUME RunsAssumption == Runs # {} /\ Runs \cap {"stock", "half"} = {}

(* "half": boost was written and the caps were refused *)
Settings == Runs \cup {"stock", "half"}

VARIABLES
  lease, hw, kept, lost,   \* the helper
  holder,   \* whose session it is: {} or {process}
  row,      \* state column of the experiment: "NONE" before it is created
  status,   \* restoration_status column
  audit,    \* state_transitions rows: sequence of <<from, to>>
  pending,  \* the audit row transition_state has still to insert: {} or {<<from, to>>}
  pc,       \* where the process is
  clean,    \* history: the run's own settings were in force while it measured
  record,   \* history: what the stored RunRecord was measured under
  ended,    \* history: a living process's session was ended by somebody else
  faults    \* history: restorations the helper answered ok = False to, lost calls

H == INSTANCE Lease

helper == <<lease, hw, kept, lost, holder>>
columns == <<row, status, audit, pending>>
history == <<clean, record, ended, faults>>
vars == <<helper, columns, pc, history>>

Stopped == {"exit", "raised", "dead"}
Points == {"create", "begin", "apply", "check", "prepare", "open", "measure", "running",
           "ready", "failed", "finally", "restoring", "call", "returned", "threw",
           "restored", "broken", "end"} \cup Stopped

Rows == States \cup {"NONE"}
Moves == Rows \X States

HelperOK ==
  /\ lease \in BOOLEAN /\ hw \in Settings /\ kept \subseteq Settings /\ lost \in BOOLEAN
  /\ holder \subseteq Runs

ColumnsOK ==
  /\ row \in [Runs -> Rows] /\ status \in [Runs -> RestorationStatus]
  /\ audit \in [Runs -> Seq(Moves)] /\ pending \in [Runs -> SUBSET Moves]

TypeOK ==
  /\ HelperOK /\ ColumnsOK
  /\ pc \in [Runs -> Points]
  /\ clean \in [Runs -> BOOLEAN]
  /\ record \in [Runs -> {"none", "as labelled", "otherwise"}]
  /\ ended \in BOOLEAN /\ faults \subseteq {"mismatch", "unreachable"}

Init ==
  /\ lease = FALSE /\ hw = "stock" /\ kept = {} /\ lost = FALSE /\ holder = {}
  /\ row = [e \in Runs |-> "NONE"] /\ status = [e \in Runs |-> "not_required"]
  /\ audit = [e \in Runs |-> <<>>] /\ pending = [e \in Runs |-> {}]
  /\ pc = [e \in Runs |-> "create"]
  /\ clean = [e \in Runs |-> FALSE] /\ record = [e \in Runs |-> "none"]
  /\ ended = FALSE /\ faults = {}

-----------------------------------------------------------------------------
At(e, point) == pc[e] = point /\ pending[e] = {}
Goto(e, point) == pc' = [pc EXCEPT ![e] = point]

(* A change of the settings spoils the measurements in progress. *)
Spoil == clean' = [e \in Runs |-> clean[e] /\ (pc[e] = "running" => hw' = e)]

(* The row's UPDATE, committed before the audit row's INSERT. *)
Update(e, to) ==
  /\ row' = [row EXCEPT ![e] = to]
  /\ pending' = [pending EXCEPT ![e] = {<<row[e], to>>}]
  /\ UNCHANGED <<status, audit>>

Permitted(e, to) == <<row[e], to>> \in Allowed

Insert(e) ==
  /\ pc[e] \notin Stopped
  /\ \E step \in pending[e] : audit' = [audit EXCEPT ![e] = Append(@, step)]
  /\ pending' = [pending EXCEPT ![e] = {}]
  /\ UNCHANGED <<helper, row, status, pc, history>>

(* op_restore and the watchdog: every knob is put back, or some refuse. *)
PutBack == hw' \in kept /\ lost' = lost /\ H!Release /\ UNCHANGED holder
Mismatch == hw' \in {hw, "half"} \ kept /\ lost' = TRUE /\ H!Release /\ UNCHANGED holder

Create(e) ==
  /\ At(e, "create")
  /\ Update(e, "IDLE") /\ Goto(e, "begin")
  /\ UNCHANGED <<helper, history>>

Open(e) == H!Open /\ holder' = {e}

(* Mutant of Begin: the answer is not looked at.                           *)
BeginUnchecked(e) ==
  /\ At(e, "begin")
  /\ Open(e) \/ (lease /\ UNCHANGED helper)
  /\ Goto(e, "apply")
  /\ UNCHANGED <<columns, history>>

(* begin_session refused, or no helper: an exception before                *)
(* session_started is set, also when only the answer was lost.             *)
Begin(e) ==
  /\ At(e, "begin")
  /\ \/ Open(e) /\ Goto(e, "apply") /\ UNCHANGED faults
     \/ Open(e) /\ Goto(e, "exit") /\ faults' = faults \cup {"unreachable"}
     \/ UNCHANGED <<helper, faults>> /\ Goto(e, "exit")
  /\ UNCHANGED <<columns, clean, record, ended>>

Write == H!Apply /\ UNCHANGED holder

(* Accepted; done but the answer never came; refused half-way; no session, *)
(* or no helper.                                                           *)
Apply(e) ==
  /\ At(e, "apply")
  /\ \/ hw' = e /\ Write /\ (Goto(e, "check") \/ Goto(e, "finally"))
     \/ hw' \in {hw, "half"} /\ Write /\ Goto(e, "finally")
     \/ UNCHANGED helper /\ Goto(e, "finally")
  /\ Spoil
  /\ UNCHANGED <<columns, record, ended, faults>>

(* run_profile_point: IDLE, CHECKING, PREPARING, PROFILING, one by one. *)
Advance(e, point, to, next) ==
  /\ At(e, point) /\ Permitted(e, to)
  /\ Update(e, to) /\ Goto(e, next)
  /\ UNCHANGED <<helper, history>>

OpenBracket(e) ==
  \/ Advance(e, "check", "CHECKING", "prepare")
  \/ Advance(e, "prepare", "PREPARING", "open")
  \/ Advance(e, "open", "PROFILING", "measure")

Launch(e) ==
  /\ At(e, "measure") /\ Goto(e, "running")
  /\ clean' = [clean EXCEPT ![e] = hw = e]
  /\ UNCHANGED <<helper, columns, record, ended, faults>>

(* WorkloadRunner.run stores a record and returns it, success or not. *)
Measured(e) ==
  /\ At(e, "running")
  /\ record' = [record EXCEPT ![e] = IF clean[e] THEN "as labelled" ELSE "otherwise"]
  /\ \E next \in {"ready", "failed"} : Goto(e, next)
  /\ UNCHANGED <<helper, columns, clean, ended, faults>>

Conclude(e) ==
  \/ Advance(e, "ready", "PROFILE_READY", "finally")
  \/ Advance(e, "failed", "FAILED", "finally")

(* Ctrl-C, or an exception the runner does not catch: straight to finally; *)
(* it may fall between transition_state's two commits.                     *)
Interrupt(e) ==
  /\ \/ pc[e] \in {"apply", "check", "prepare", "open", "measure", "running", "ready", "failed"}
     \/ pc[e] = "finally" /\ pending[e] # {}
  /\ Goto(e, "finally") /\ pending' = [pending EXCEPT ![e] = {}]
  /\ UNCHANGED <<helper, row, status, audit, history>>

(* Mutant of Restore: only a failed measurement is followed by restore.    *)
RestoreAfterFailureOnly(e) ==
  /\ At(e, "finally")
  /\ IF row[e] = "FAILED"
       THEN Update(e, "RESTORING") /\ Goto(e, "restoring")
       ELSE UNCHANGED columns /\ Goto(e, "end")
  /\ UNCHANGED <<helper, history>>

(* Mutant of Restore: the graph of allowed moves is not consulted.         *)
RestoreUnchecked(e) ==
  /\ At(e, "finally")
  /\ Update(e, "RESTORING") /\ Goto(e, "restoring")
  /\ UNCHANGED <<helper, history>>

(* ExperimentStateMachine.restore: InvalidTransition leaves the finally    *)
(* block before helper.restore and helper.end_session are called.          *)
Restore(e) ==
  /\ At(e, "finally")
  /\ IF Permitted(e, "RESTORING")
       THEN Update(e, "RESTORING") /\ Goto(e, "restoring")
       ELSE UNCHANGED columns /\ Goto(e, "raised")
  /\ UNCHANGED <<helper, history>>

SetStatus(e, point, s, next) ==
  /\ At(e, point) /\ Goto(e, next)
  /\ status' = [status EXCEPT ![e] = s]
  /\ UNCHANGED <<helper, row, audit, pending, history>>

(* helper.restore answers ok, or ok = False with the mismatches (which the *)
(* caller does not look at), or nothing to restore; or the call throws,    *)
(* before the helper did anything or after it did everything.              *)
CallRestore(e) ==
  /\ At(e, "call")
  /\ \/ PutBack /\ UNCHANGED faults /\ (Goto(e, "returned") \/ Goto(e, "threw"))
     \/ Mismatch /\ faults' = faults \cup {"mismatch"} /\ Goto(e, "returned")
     \/ UNCHANGED helper /\ faults' = faults \cup {"unreachable"} /\ Goto(e, "threw")
     \/ kept = {} /\ UNCHANGED <<helper, faults>> /\ Goto(e, "returned")
  /\ Spoil
  /\ UNCHANGED <<columns, record, ended>>

(* Mutant of WriteOutcome: a status the schema does not know.              *)
WriteOutcomeUnknown(e) ==
  \/ SetStatus(e, "restoring", "restoring", "call")
  \/ SetStatus(e, "returned", "restored", "restored")
  \/ SetStatus(e, "threw", "failed", "broken")
  \/ Advance(e, "restored", "RESTORED", "end")
  \/ Advance(e, "broken", "RECOVERY_REQUIRED", "end")

WriteOutcome(e) ==
  \/ SetStatus(e, "restoring", "restoring", "call")
  \/ SetStatus(e, "returned", "restored", "restored")
  \/ SetStatus(e, "threw", "recovery_required", "broken")
  \/ Advance(e, "restored", "RESTORED", "end")
  \/ Advance(e, "broken", "RECOVERY_REQUIRED", "end")

(* Somebody other than e ends a session whose process is still using it. *)
Cut(e) == ended' = (ended \/ (lease /\ \E f \in holder \ e : pc[f] \notin Stopped))

(* restore already ended the session: this may hit the next one. *)
EndSession(e) ==
  /\ At(e, "end")
  /\ \/ /\ H!Drop \/ (~lease /\ UNCHANGED <<lease, hw, kept, lost>>)
        /\ holder' = {} /\ UNCHANGED faults /\ Goto(e, "exit") /\ Cut({e})
     \/ /\ UNCHANGED <<helper, ended>> /\ Goto(e, "raised")
        /\ faults' = faults \cup {"unreachable"}
  /\ UNCHANGED <<columns, clean, record>>

Kill(e) ==
  /\ pc[e] \notin Stopped \cup {"create"}
  /\ Goto(e, "dead")
  /\ UNCHANGED <<helper, columns, history>>

(* No heartbeat for 30 s: nobody sends one. *)
Watchdog ==
  /\ lease
  /\ PutBack \/ (kept = {} /\ H!Drop /\ UNCHANGED holder)
  /\ Cut({})
  /\ Spoil
  /\ UNCHANGED <<columns, pc, record, faults>>

Finished == (\A e \in Runs : pc[e] \in Stopped) /\ ~lease /\ UNCHANGED vars

Step(e) ==
  \/ Insert(e) \/ Create(e) \/ Begin(e) \/ Apply(e) \/ OpenBracket(e) \/ Launch(e)
  \/ Measured(e) \/ Conclude(e) \/ Restore(e) \/ CallRestore(e) \/ WriteOutcome(e)
  \/ EndSession(e)

Next ==
  \/ \E e \in Runs : Step(e) \/ Interrupt(e) \/ Kill(e)
  \/ Watchdog
  \/ Finished

Spec == Init /\ [][Next]_vars

-----------------------------------------------------------------------------
(* Each experiment's audit rows are a path of the allowed graph from its   *)
(* creation, also for processes interrupted or killed at any instant; one  *)
(* move at most is missing, the one an interrupt cut between two commits.  *)
Gaps(path) == {i \in 2..Len(path) : path[i][1] # path[i - 1][2]}

AuditIsPath ==
  \A e \in Runs :
    /\ audit[e] # <<>> => audit[e][1] = <<"NONE", "IDLE">>
    /\ \A i \in 2..Len(audit[e]) : audit[e][i] \in Allowed
    /\ Cardinality(Gaps(audit[e])) <= 1
    /\ \A i \in Gaps(audit[e]) : <<audit[e][i - 1][2], audit[e][i][1]>> \in Allowed

(* A stored record was measured under the settings it is labelled with,    *)
(* from launch to exit of the workload, however many processes contend,    *)
(* unless somebody else ended a living process's session.                  *)
MeasuredAsLabelled == ~ended => \A e \in Runs : record[e] # "otherwise"

(* When every process has reached its normal end, also after half-done,    *)
(* unanswered or failed applies and each other's restorations, the machine *)
(* is as before and the lease is free, unless a helper call failed.        *)
ExitIsStock ==
  ((\A e \in Runs : pc[e] = "exit") /\ faults = {}) => hw = "stock" /\ kept = {} /\ ~lease

(* docs/PLAN.md 9: "Restore after completion, cancellation, and handled    *)
(* errors": a process that measured its profile point and has stopped by   *)
(* itself has left no setting of its own in force.                         *)
CompletionRestores ==
  \A e \in Runs : (pc[e] \in {"exit", "raised"} /\ row[e] = "PROFILE_READY") => hw # e

=============================================================================
