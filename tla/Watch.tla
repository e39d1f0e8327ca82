------------------------------- MODULE Watch --------------------------------
(***************************************************************************)
(* api/live.py WatchService and the watch and autopilot requests of        *)
(* api/app.py: a service clamps the CPU when its detector reports a burst  *)
(* and restores when the burst has ended.  Samples are taken by the        *)
(* autopilot's worker and by every connection to /api/watch/events, all at *)
(* the same time, while requests arm, disarm and stop.                     *)
(*                                                                         *)
(* Of the detector (core/watch.py) only its state is kept: any sample may  *)
(* begin or end a burst.  It reads the state, computes, and writes it.  An *)
(* on_active checks its service in the step that sets the state.           *)
(* The helper is what Lease promises of it; a call may throw.  Priorities  *)
(* of processes and the savings receipts are left out.                     *)
(***************************************************************************)
EXTENDS Naturals

CONSTANTS
  MaxServices, \* bound: WatchService objects
  MaxPollers,  \* bound: threads that sample, workers and connections together
  Handlers,    \* bound: requests at a time
  Once         \* the services armed with recurrence_mode = "once"

Services == 1..MaxServices   \* in the order they are made

ASSUME BoundsAssumption == {MaxServices, MaxPollers} \subseteq Nat /\ Once \subseteq Services

Settings == {"stock", "clamped"}
Pollers == 1..MaxPollers
Actors == Pollers \cup Handlers

ASSUME ActorsAssumption == Pollers \cap Handlers = {}

VARIABLES
  lease, hw, kept, lost,  \* the helper
  service,    \* _WATCH_SERVICE: 0 for None
  det,        \* detector.state
  candidate,  \* the detector has a _candidate_start
  control,    \* active_control
  ctl,        \* control_state
  session,    \* _session_active
  auto,       \* the pollers that are autopilot workers, not connections
  worker,     \* _AUTOPILOT_THREAD: 0 for None
  halt,       \* _AUTOPILOT_STOP_EVENT
  pc,         \* where a poller or a request is
  of,         \* the service it works on: 0 for none
  want,       \* per request: "arm" or "off"
  off,        \* history: the service there is was disarmed, and nothing armed since
  crossed     \* history: settings were changed between a restore and its end_session

H == INSTANCE Lease

helper == <<lease, hw, kept, lost>>
objects == <<service, det, candidate, control, ctl, session>>
threads == <<auto, worker, halt, pc, of, want>>
history == <<off, crossed>>
vars == <<helper, objects, threads, history>>

Init ==
  /\ lease = FALSE /\ hw = "stock" /\ kept = {} /\ lost = FALSE
  /\ service = 0 /\ worker = 0 /\ halt = FALSE /\ auto = {}
  /\ det = [v \in Services |-> "idle"] /\ candidate = [v \in Services |-> FALSE]
  /\ control = [v \in Services |-> FALSE] /\ ctl = [v \in Services |-> "idle"]
  /\ session = [v \in Services |-> FALSE]
  /\ pc = [a \in Actors |-> IF a \in Handlers THEN "idle" ELSE "new"]
  /\ of = [a \in Actors |-> 0] /\ want = [h \in Handlers |-> "off"]
  /\ off = FALSE /\ crossed = FALSE

-----------------------------------------------------------------------------
RestoreOp == \/ hw' \in kept /\ lost' = lost /\ H!Release
             \/ kept = {} /\ UNCHANGED helper

EndOp == \/ H!Drop
         \/ ~lease /\ UNCHANGED helper

(* A call that throws may have been carried out. *)
Throws(op) == op \/ UNCHANGED helper

Goto(a, here, there) == pc[a] = here /\ pc' = [pc EXCEPT ![a] = there]

(* What a poller does after an exception in _sample_once: the worker logs  *)
(* it, a connection ends.                                                  *)
Upset(p) == IF p \in auto THEN "check" ELSE "gone"

-----------------------------------------------------------------------------
(* Pollers *)

Waiting == {"new", "check", "leave", "gone"}

(* The worker looks at the service there is now, a connection at the one   *)
(* it began with.  Connections share the event loop, which one sample      *)
(* holds; a client may go away.  observe reads the state; one that is      *)
(* neither calibrating nor idle is taken for active.                       *)
Check(p) ==
  LET v == IF p \in auto THEN service ELSE of[p]
      runs == \E u \in Services : u = v /\ det[u] # "stopped"
  IN  /\ pc[p] = "check"
      /\ p \in auto \/ \A q \in Pollers \ auto : pc[q] \in Waiting
      /\ of' = [of EXCEPT ![p] = v]
      /\ \/ (runs => p \notin auto \/ halt) /\ Goto(p, "check", "leave")
         \/ /\ runs /\ (p \in auto => ~halt)
            /\ \E there \in {"check"} \cup IF det[v] = "idle" THEN {"rise", "adapt"} ELSE {"fall"} :
                 Goto(p, "check", there)
      /\ UNCHANGED <<helper, objects, auto, worker, halt, want, history>>

(* A calm sample ends in _set_baseline, which sets the state again.        *)
Adapt(p) ==
  /\ Goto(p, "adapt", "check")
  /\ det' = [det EXCEPT ![of[p]] = "idle"]
  /\ UNCHANGED <<helper, service, candidate, control, ctl, session, auto, worker, halt, of, want,
                 history>>

(* The worker's thread is alive until it has returned. *)
Leave(p) ==
  /\ Goto(p, "leave", "gone") /\ of' = [of EXCEPT ![p] = 0]
  /\ UNCHANGED <<helper, objects, auto, worker, halt, want, history>>

(* on_active; the objective "performance" shields the process only.        *)
Rise(p) ==
  LET v == of[p]
      ready == control[v] /\ ctl[v] \notin {"optimized_active", "shielded_boost"}
  IN  /\ pc[p] = "rise"
      /\ det' = [det EXCEPT ![v] = "active"]
      /\ candidate' = [candidate EXCEPT ![v] = TRUE]
      /\ \/ ~ready /\ Goto(p, "rise", "check") /\ UNCHANGED ctl
         \/ ready /\ Goto(p, "rise", "begin") /\ ctl' = [ctl EXCEPT ![v] = "optimized_active"]
         \/ ready /\ Goto(p, "rise", "check") /\ ctl' = [ctl EXCEPT ![v] = "shielded_boost"]
      /\ UNCHANGED <<helper, service, control, session, auto, worker, halt, of, want, history>>

(* _close_segment asserts that there is a candidate; a service without     *)
(* control only records the segment.                                       *)
Fall(p) ==
  LET v == of[p]
      next == IF control[v] THEN "put" ELSE "check"
  IN  /\ pc[p] = "fall"
      /\ \/ /\ candidate[v] /\ Goto(p, "fall", next)
            /\ det' = [det EXCEPT ![v] = "idle"]
            /\ candidate' = [candidate EXCEPT ![v] = FALSE]
         \/ ~candidate[v] /\ Goto(p, "fall", Upset(p)) /\ UNCHANGED <<det, candidate>>
      /\ UNCHANGED <<helper, service, control, ctl, session, auto, worker, halt, of, want, history>>

(* The answer to begin_session is not looked at. *)
Begin(p) ==
  /\ \/ Goto(p, "begin", "flag") /\ H!Open
     \/ Goto(p, "begin", "flag") /\ lease /\ UNCHANGED helper
     \/ Goto(p, "begin", "check") /\ Throws(H!Open)
  /\ UNCHANGED <<objects, auto, worker, halt, of, want, history>>

Flag(p) ==
  /\ Goto(p, "flag", "apply")
  /\ session' = [session EXCEPT ![of[p]] = TRUE]
  /\ UNCHANGED <<helper, service, det, candidate, control, ctl, auto, worker, halt, of, want, history>>

Apply(p) ==
  /\ Goto(p, "apply", "check")
  /\ \/ H!Apply
     \/ ~lease /\ UNCHANGED helper
     \/ Throws(H!Apply)
  /\ crossed' = (crossed \/ \E a \in Actors : pc[a] \in {"end", "disarmEnd"})
  /\ UNCHANGED <<objects, auto, worker, halt, of, want, off>>

Settle(p) ==
  /\ \/ of[p] \in Once /\ Goto(p, "settle", "disarmPut") /\ UNCHANGED ctl
     \/ /\ of[p] \notin Once /\ Goto(p, "settle", "check")
        /\ ctl' = [ctl EXCEPT ![of[p]] = "stock_idle"]
  /\ UNCHANGED <<helper, service, det, candidate, control, session, auto, worker, halt, of, want,
                 history>>

Completed(p) ==
  /\ Goto(p, "completed", "check")
  /\ ctl' = [ctl EXCEPT ![of[p]] = "completed"]
  /\ UNCHANGED <<helper, service, det, candidate, control, session, auto, worker, halt, of, want,
                 history>>

-----------------------------------------------------------------------------
(* _restore_controls, on the way to settle or as the first part of disarm. *)
Put(a) ==
  LET open == session[of[a]]
  IN  /\ \/ Goto(a, "put", IF open THEN "end" ELSE "settle")
         \/ Goto(a, "disarmPut", IF open THEN "disarmEnd" ELSE "disarm")
      /\ (open /\ RestoreOp) \/ (~open /\ UNCHANGED helper)
      /\ UNCHANGED <<objects, auto, worker, halt, of, want, history>>

(* Mutant of PutThrows: each call in a try of its own.                     *)
PutThrowsOn(a) ==
  /\ Goto(a, "put", "end") \/ Goto(a, "disarmPut", "disarmEnd")
  /\ session[of[a]] /\ Throws(RestoreOp)
  /\ UNCHANGED <<objects, auto, worker, halt, of, want, history>>

(* restore threw: end_session is not called. *)
PutThrows(a) ==
  /\ Goto(a, "put", "unflag") \/ Goto(a, "disarmPut", "disarmUnflag")
  /\ session[of[a]] /\ Throws(RestoreOp)
  /\ UNCHANGED <<objects, auto, worker, halt, of, want, history>>

End(a) ==
  /\ Goto(a, "end", "unflag") \/ Goto(a, "disarmEnd", "disarmUnflag")
  /\ \/ EndOp
     \/ Throws(EndOp)
  /\ UNCHANGED <<objects, auto, worker, halt, of, want, history>>

Unflag(a) ==
  /\ Goto(a, "unflag", "settle") \/ Goto(a, "disarmUnflag", "disarm")
  /\ session' = [session EXCEPT ![of[a]] = FALSE]
  /\ UNCHANGED <<helper, service, det, candidate, control, ctl, auto, worker, halt, of, want, history>>

(* Where disarm returns to; a request is done with its service. *)
Return(a) ==
  LET there == IF a \in Pollers THEN "completed" ELSE IF want[a] = "arm" THEN "arm" ELSE "idle"
  IN  /\ Goto(a, "disarm", there)
      /\ of' = IF a \in Pollers THEN of ELSE [of EXCEPT ![a] = 0]
      /\ off' = (off \/ (there = "idle" /\ of[a] = service))

(* Mutant of Disarm: only the settings are restored.                       *)
DisarmRestoresOnly(a) ==
  /\ Return(a)
  /\ UNCHANGED <<helper, objects, auto, worker, halt, want, crossed>>

Disarm(a) ==
  /\ Return(a)
  /\ control' = [control EXCEPT ![of[a]] = FALSE]
  /\ ctl' = [ctl EXCEPT ![of[a]] = "stopped"]
  /\ det' = [det EXCEPT ![of[a]] = "stopped"]
  /\ UNCHANGED <<helper, service, candidate, session, auto, worker, halt, want, crossed>>

-----------------------------------------------------------------------------
(* Requests *)

Off(h) ==
  /\ Goto(h, "idle", "disarmPut")
  /\ of' = [of EXCEPT ![h] = service] /\ want' = [want EXCEPT ![h] = "off"]
  /\ UNCHANGED <<helper, objects, auto, history>>

(* disarm_watch tells the worker.  Before the first service there is none, *)
(* and the next one to start clears the event.                             *)
AskDisarm(h) == service # 0 /\ Off(h) /\ halt' = TRUE /\ worker' = 0

(* stop_watch: a worker finds its service stopped, a service that is       *)
(* stopped is disarmed again.                                              *)
AskStop(h) == service # 0 /\ Off(h) /\ UNCHANGED <<halt, worker>>

Running == \E v \in Services : v = service /\ det[v] # "stopped"

More == \E v \in Services : v > service

(* A service that is not stopped is disarmed before the next is armed. *)
AskArm(h) ==
  /\ More /\ \A g \in Handlers : want[g] = "off"
  /\ \/ Running /\ Goto(h, "idle", "disarmPut") /\ of' = [of EXCEPT ![h] = service]
     \/ ~Running /\ Goto(h, "idle", "arm") /\ UNCHANGED of
  /\ want' = [want EXCEPT ![h] = "arm"]
  /\ UNCHANGED <<helper, objects, auto, worker, halt, history>>

(* launch_and_arm starts a program, then arms for it; without arm_watcher  *)
(* it only disarms the service there is, and the worker is not told.       *)
AskLaunch(h) ==
  \/ AskArm(h)
  \/ Running /\ Off(h) /\ UNCHANGED <<halt, worker>>

Arm(h) ==
  /\ Goto(h, "arm", "ensure")
  /\ service' = service + 1
  /\ control' = [control EXCEPT ![service'] = TRUE]
  /\ ctl' = [ctl EXCEPT ![service'] = "stock_idle"]
  /\ off' = FALSE
  /\ UNCHANGED <<helper, det, candidate, session, auto, worker, halt, of, want, crossed>>

Fresh(p) == pc[p] = "new" /\ \A q \in Pollers : q < p => pc[q] # "new"

(* _ensure_autopilot_worker *)
Ensure(h) ==
  LET alive == worker # 0 /\ pc[worker] # "gone"
  IN  /\ pc[h] = "ensure"
      /\ want' = [want EXCEPT ![h] = "off"]
      /\ \/ alive /\ Goto(h, "ensure", "idle") /\ UNCHANGED <<auto, worker, halt>>
         \/ /\ ~alive /\ halt' = FALSE
            /\ \E p \in Pollers :
                 /\ Fresh(p) /\ worker' = p /\ auto' = auto \cup {p}
                 /\ pc' = [pc EXCEPT ![h] = "idle", ![p] = "check"]
      /\ UNCHANGED <<helper, objects, of, history>>

(* /api/watch/start: a service without control, and without a worker. *)
StartPassive(h) ==
  /\ More /\ pc[h] = "idle" /\ ~Running
  /\ \A g \in Handlers : want[g] = "off"
  /\ service' = service + 1
  /\ UNCHANGED <<helper, det, candidate, control, ctl, session, threads, history>>

Connect(p) ==
  /\ Fresh(p) /\ service # 0 /\ Goto(p, "new", "check")
  /\ of' = [of EXCEPT ![p] = service]
  /\ UNCHANGED <<helper, objects, auto, worker, halt, want, history>>

-----------------------------------------------------------------------------
(* Each sample of a clamping service renews the lease; the watchdog ends   *)
(* one that is not renewed.                                                *)
Beating ==
  \E p \in Pollers : /\ pc[p] \notin {"new", "leave", "gone"} /\ of[p] # 0
                     /\ control[of[p]] /\ session[of[p]] /\ ctl[of[p]] = "optimized_active"

Watchdog ==
  /\ lease /\ ~Beating
  /\ (kept # {} /\ RestoreOp) \/ (kept = {} /\ EndOp)
  /\ UNCHANGED <<objects, threads, history>>

PollerStep(p) ==
  \/ Check(p) \/ Leave(p) \/ Adapt(p) \/ Rise(p) \/ Fall(p)
  \/ Begin(p) \/ Flag(p) \/ Apply(p) \/ Settle(p) \/ Completed(p)

RestoreStep(a) == Put(a) \/ PutThrows(a) \/ End(a) \/ Unflag(a) \/ Disarm(a)

HandlerStep(h) == Arm(h) \/ Ensure(h)

Next ==
  \/ Watchdog
  \/ \E p \in Pollers : PollerStep(p) \/ RestoreStep(p) \/ Connect(p)
  \/ \E h \in Handlers : HandlerStep(h) \/ RestoreStep(h) \/ AskDisarm(h) \/ AskStop(h)
                           \/ AskArm(h) \/ AskLaunch(h) \/ StartPassive(h)

Spec == Init /\ [][Next]_vars

-----------------------------------------------------------------------------
(* The CPU is clamped only under a lease, which the watchdog guards,       *)
(* unless an apply came between a restore and the end_session after it.    *)
Guarded == (hw = "clamped" /\ ~crossed) => lease

(* After a disarm was answered and until the next service is armed, no     *)
(* poller renews a lease, whatever it was doing when the request came: a   *)
(* clamp it puts in force too late ends with the lease.                    *)
DisarmedIsNotRenewed == off => ~Beating

=============================================================================
