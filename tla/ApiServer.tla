----------------------------- MODULE ApiServer ------------------------------
(***************************************************************************)
(* api/app.py: the request handlers that start, validate, cancel and       *)
(* restore experiments, run by the server's thread pool while the engine's *)
(* threads (LiveEngine) work; the server's death and its next start; and   *)
(* the helper's watchdog.                                                  *)
(***************************************************************************)
EXTENDS LiveEngine

CONSTANT Slots   \* bound: concurrent cancel or restore requests per experiment

Handlers == Experiments \X Slots

VARIABLES
  up,      \* the server's process runs
  create,  \* per experiment, where its POST /api/experiments is
  at       \* per handler, where the request is: "idle" when there is none

server == <<up, create, at>>
vars == <<evars, server>>

TypeOK ==
  /\ EngineTypeOK
  /\ up \in BOOLEAN
  /\ create \in [Experiments -> {"new", "row", "profiling", "overlay", "done"}]
  /\ at \in [Handlers -> {"idle", "test", "cancel", "restore", "conclude",
                          "overlay", "hw", "hwend", "back"}]

Init ==
  /\ EngineInit
  /\ up = TRUE
  /\ create = [e \in Experiments |-> "new"]
  /\ at = [h \in Handlers |-> "idle"]

Engine(t) == EngineStep(t) /\ UNCHANGED server

-----------------------------------------------------------------------------
(* A thread starts, or ends before its first step (there); its cancel      *)
(* event replaces the experiment's, also for the other thread.             *)
StartThread(t, there) ==
  /\ From(t, "none", there)
  /\ ev' = [ev EXCEPT ![Exp(t)] = "clear"]
  /\ late' = {u \in late : Exp(u) # Exp(t)}
  /\ UNCHANGED <<runner, killed, todo, aim, broken, unsettled>>

Created(e, here, there) == up /\ create[e] = here /\ create' = [create EXCEPT ![e] = there]

(* create_experiment: the thread runs before the row and the overlay are there. *)
CreateStart(e) ==
  /\ Created(e, "new", "row")
  /\ StartThread(<<e, "profile">>, "end")
  /\ UNCHANGED <<helper, stored, up, at>>

CreateRow(e) ==
  /\ \/ Created(e, "row", "profiling") /\ row' = [row EXCEPT ![e] = "IDLE"]
     \/ Created(e, "profiling", "overlay") /\ row' = [row EXCEPT ![e] = "PROFILING"]
  /\ UNCHANGED <<helper, overlay, control, pc, todo, aim, history, up, at>>

CreateOverlay(e) ==
  /\ Created(e, "overlay", "done")
  /\ overlay' = [overlay EXCEPT ![e] = "PROFILING"]
  /\ UNCHANGED <<helper, row, control, pc, todo, aim, history, up, at>>

(* _resolve_experiment, with which most requests begin: an experiment that *)
(* looks active but has no thread is shown as restored from then on.       *)
Resolve(e) ==
  LET shown == IF overlay[e] \in {"none", "blank"} THEN row[e] ELSE overlay[e]
      settle == /\ shown \in {"PROFILING", "VALIDATING"} /\ overlay[e] # "none"
                /\ \A t \in Threads : Exp(t) = e => pc[t] = "none"
  IN  /\ up /\ (row[e] # "NONE" \/ overlay[e] # "none")
      /\ overlay' = [overlay EXCEPT ![e] = IF settle THEN "RESTORED" ELSE @]

GetExperiment(e) ==
  /\ Resolve(e)
  /\ UNCHANGED <<helper, row, control, pc, todo, aim, history, server>>

(* validate_experiment, whatever the experiment's state.  Its thread takes *)
(* the row for the overlay if there is none, and ends before it touches    *)
(* the helper if there is no candidate.                                    *)
Validate(e) ==
  /\ \E there \in {"end", "none"} : StartThread(<<e, "validate">>, there)
  /\ IF overlay[e] = "none" /\ row[e] # "NONE"
       THEN up /\ overlay' = [overlay EXCEPT ![e] = row[e]]
       ELSE Resolve(e)
  /\ UNCHANGED <<helper, row, server>>

-----------------------------------------------------------------------------
(* cancel_experiment and restore_settings, one call after the other. *)
To(h, here, there) == up /\ at[h] = here /\ at' = [at EXCEPT ![h] = there]

Move(h, state) == row' = [row EXCEPT ![h[1]] = state]
May(h, state) == <<row[h[1]], state>> \in Allowed

(* cancel_active_experiment: the event, then the process group of the      *)
(* registered runner if its workload runs.  One step: a thread that        *)
(* launches between the two is killed rather than late.                    *)
Cancel(h) ==
  /\ To(h, "idle", "test") /\ Resolve(h[1])
  /\ ev' = IF ev[h[1]] = "none" THEN ev ELSE [ev EXCEPT ![h[1]] = "set"]
  /\ killed' = [t \in Threads |-> killed[t] \/ (t \in runner[h[1]] /\ pc[t] = "running")]
  /\ UNCHANGED <<helper, row, runner, pc, todo, aim, history, up, create>>

Test(h) ==
  /\ \E there \in {"overlay", "restore", "cancel"} :
       /\ To(h, "test", there)
       /\ (there = "overlay") = (row[h[1]] = "NONE")
       /\ (there = "restore") = (row[h[1]] \in {"COMPLETE", "FAILED"} \cup Restoration)
  /\ UNCHANGED <<evars, up, create>>

(* ExperimentStateMachine.cancel: InvalidTransition ends the request. *)
CancelRow(h) ==
  /\ at[h] = "cancel"
  /\ \/ row[h[1]] \in {"CANCELLING"} \cup Restoration /\ UNCHANGED row /\ To(h, "cancel", "restore")
     \/ May(h, "CANCELLING") /\ Move(h, "CANCELLING") /\ To(h, "cancel", "restore")
     \/ /\ row[h[1]] \notin {"CANCELLING"} \cup Restoration /\ ~May(h, "CANCELLING")
        /\ UNCHANGED row /\ To(h, "cancel", "idle")
  /\ UNCHANGED <<helper, overlay, control, pc, todo, aim, history, up, create>>

(* ExperimentStateMachine.restore with an action that does nothing: as the  *)
(* end of a cancel ("restore"), or all of POST /api/restore ("idle").       *)
RestoreRow(h) ==
  /\ at[h] \in {"idle", "restore"}
  /\ \/ /\ \/ row[h[1]] \in Restoration /\ UNCHANGED row
           \/ May(h, "RESTORING") /\ Move(h, "RESTORING")
        /\ To(h, "restore", "conclude") \/ To(h, "idle", "back")
     \/ /\ row[h[1]] \notin Restoration /\ ~May(h, "RESTORING")
        /\ UNCHANGED row /\ To(h, "restore", "idle")
  /\ UNCHANGED <<helper, overlay, control, pc, todo, aim, history, up, create>>

Conclude(h) ==
  /\ To(h, "conclude", "overlay") \/ To(h, "back", "idle")
  /\ IF row[h[1]] = "RESTORING" THEN Move(h, "RESTORED") ELSE UNCHANGED row
  /\ UNCHANGED <<helper, overlay, control, pc, todo, aim, history, up, create>>

ShowRestored(h) ==
  /\ To(h, "overlay", "hw")
  /\ overlay' = IF overlay[h[1]] = "none" THEN overlay ELSE [overlay EXCEPT ![h[1]] = "RESTORED"]
  /\ UNCHANGED <<helper, row, control, pc, todo, aim, history, up, create>>

(* The settings come last.  A helper that does not answer is ignored. *)
RestoreHardware(h) ==
  /\ \/ To(h, "hw", "hwend") /\ RestoreOp /\ UNCHANGED <<broken, unsettled>>
     \/ To(h, "hw", "idle") /\ Throws(RestoreOp) /\ UNCHANGED unsettled
     \/ To(h, "hwend", "idle") /\ EndOp /\ unsettled' = FALSE /\ UNCHANGED broken
     \/ To(h, "hwend", "idle") /\ Throws(EndOp) /\ UNCHANGED unsettled
  /\ UNCHANGED <<stored, control, pc, todo, aim, late, up, create>>

HandlerStep(h) ==
  \/ Cancel(h) \/ Test(h) \/ CancelRow(h)
  \/ RestoreRow(h) \/ Conclude(h) \/ ShowRestored(h) \/ RestoreHardware(h)

-----------------------------------------------------------------------------
(* The server dies; its memory goes with it. *)
Kill ==
  /\ up /\ up' = FALSE /\ unsettled' = TRUE
  /\ pc' = [t \in Threads |-> "none"] /\ late' = {}
  /\ ev' = [e \in Experiments |-> "none"] /\ runner' = [e \in Experiments |-> {}]
  /\ killed' = [t \in Threads |-> FALSE]
  /\ todo' = [t \in Threads |-> 0] /\ aim' = [t \in Threads |-> "none"]
  /\ overlay' = [e \in Experiments |-> "none"]
  /\ at' = [h \in Handlers |-> "idle"]
  /\ create' = [e \in Experiments |-> IF create[e] = "new" THEN "new" ELSE "done"]
  /\ UNCHANGED <<helper, row, broken>>

(* Startup hygiene: rows left in an active state are recorded as restored. *)
Boot ==
  /\ ~up /\ up' = TRUE
  /\ row' = [e \in Experiments |->
       IF row[e] \in {"PROFILING", "VALIDATING"} THEN "RESTORED" ELSE row[e]]
  /\ UNCHANGED <<helper, overlay, control, pc, todo, aim, history,
                 create, at>>

(* The helper's watchdog: the engine heartbeats once per run, and its      *)
(* decision may be older than the session it ends (see HelperDaemon).      *)
Watchdog ==
  /\ lease
  /\ \/ PutBackOp
     \/ kept = {} /\ H!Drop
  /\ UNCHANGED <<stored, control, pc, todo, aim, history, server>>

Next ==
  \/ \E t \in Threads : Engine(t)
  \/ \E e \in Experiments : CreateStart(e) \/ CreateRow(e) \/ CreateOverlay(e)
                            \/ GetExperiment(e) \/ Validate(e)
  \/ \E h \in Handlers : HandlerStep(h)
  \/ Kill \/ Boot \/ Watchdog

Spec == Init /\ [][Next]_vars

-----------------------------------------------------------------------------
Quiet ==
  /\ up
  /\ \A t \in Threads : pc[t] = "none"
  /\ \A h \in Handlers : at[h] = "idle"

(* Whenever the server is idle the machine has the user's settings and the *)
(* lease is free: after any interleaving of a sweep, a validation, their   *)
(* stolen and lapsed sessions, cancels and refused state moves, and after  *)
(* a restart once one thread or cancel has run to its end; unless a call   *)
(* of the helper failed or the kernel refused a write.                     *)
QuietIsStock ==
  (Quiet /\ ~broken /\ ~lost /\ ~unsettled) => hw = Stock /\ kept = {} /\ ~lease

(* docs/API.md: cancel aborts the experiment.  A thread launches at most   *)
(* one workload after its cancel event was set, the one it had already     *)
(* checked for, unless the start of a validation replaced the event.       *)
OneRunAfterCancel ==
  [][\A t \in Threads : (pc[t] = "launch" /\ pc'[t] = "running" /\ Cancelled(t))
        => t \notin late]_vars

=============================================================================
