---------------------------- MODULE WatchProofs -----------------------------
(***************************************************************************)
(* Proofs about Watch, for any number of services, of threads that sample  *)
(* and of requests at a time.                                              *)
(***************************************************************************)
EXTENDS Watch, TLAPS

USE BoundsAssumption, ActorsAssumption DEF Settings

-----------------------------------------------------------------------------
(* Where a poller and a request may be.                                    *)
Disarming == {"disarmPut", "disarmEnd", "disarmUnflag", "disarm"}

PollerPlaces ==
  {"new", "check", "leave", "gone", "rise", "adapt", "fall", "begin", "flag", "apply",
   "settle", "completed", "put", "end", "unflag"} \cup Disarming

HandlerPlaces == {"idle", "arm", "ensure"} \cup Disarming

Home(a) == IF a \in Pollers THEN PollerPlaces ELSE HandlerPlaces

Placed ==
  /\ pc \in [Actors -> PollerPlaces \cup HandlerPlaces]
  /\ \A a \in Actors : pc[a] \in Home(a)

Typed ==
  /\ service \in 0..MaxServices /\ want \in [Handlers -> {"arm", "off"}]
  /\ of \in [Actors -> 0..MaxServices]
  /\ control \in [Services -> BOOLEAN] /\ det \in [Services -> {"idle", "active", "stopped"}]

(* Nobody works on a service that is not made yet.                         *)
Made ==
  /\ \A a \in Actors : of[a] <= service
  /\ \A v \in Services : v > service => det[v] = "idle"

(* The original is the user's, or in force.                                *)
Sound == lost = FALSE /\ kept \subseteq {"stock"} /\ (kept = {} => hw = "stock")

(* An original is kept under a lease only, until an apply comes between a  *)
(* restoration and the end_session after it.                               *)
Ending == \E a \in Actors : pc[a] \in {"end", "disarmEnd"}

KeptUnderLease == ~crossed => (kept # {} => lease) /\ (Ending => kept = {})

(* Only the service there is has control, and not once it was disarmed.    *)
Uncontrolled == \A v \in Services : ~control[v]

OneControls ==
  /\ \A v \in Services : control[v] => v = service /\ det[v] # "stopped"
  /\ off => Uncontrolled

(* One request at a time arms, and when it does no service has control.    *)
ArmsAlone(h) ==
  /\ want[h] = "arm" =>
       /\ pc[h] # "idle"
       /\ pc[h] \in Disarming => of[h] = service
       /\ pc[h] # "ensure" => service < MaxServices
       /\ \A g \in Handlers : want[g] = "arm" => g = h
  /\ pc[h] \in {"arm", "ensure"} => want[h] = "arm"
  /\ pc[h] = "arm" => Uncontrolled

Arming == \A h \in Handlers : ArmsAlone(h)

IInv == Placed /\ Typed /\ Made /\ Sound /\ KeptUnderLease /\ OneControls /\ Arming

-----------------------------------------------------------------------------
(* What any step does to the helper.                                       *)
HelperMove ==
  \/ UNCHANGED helper
  \/ H!Open \/ H!Drop \/ H!Apply \/ RestoreOp

(* Every step of a poller or a request is one of them.                     *)
LEMMA ActorMove ==
  ASSUME NEW a, PollerStep(a) \/ RestoreStep(a) \/ Connect(a)
                \/ HandlerStep(a) \/ AskDisarm(a) \/ AskStop(a) \/ AskLaunch(a) \/ StartPassive(a)
  PROVE  HelperMove
<1>1. CASE PollerStep(a)
  <2>1. CASE Check(a) \/ Leave(a) \/ Adapt(a) \/ Rise(a) \/ Fall(a)
    BY <2>1 DEF Check, Leave, Adapt, Rise, Fall, HelperMove
  <2>2. CASE Begin(a) \/ Apply(a)
    BY <2>2 DEF Begin, Apply, Throws, HelperMove
  <2>3. CASE Flag(a) \/ Settle(a) \/ Completed(a)
    BY <2>3 DEF Flag, Settle, Completed, HelperMove
  <2> QED
    BY <1>1, <2>1, <2>2, <2>3 DEF PollerStep
<1>2. CASE RestoreStep(a)
  BY <1>2 DEF RestoreStep, Put, PutThrows, End, EndOp, Unflag, Disarm, Throws, HelperMove
<1>3. CASE Connect(a) \/ HandlerStep(a) \/ StartPassive(a)
  BY <1>3 DEF Connect, HandlerStep, Arm, Ensure, StartPassive, HelperMove
<1>4. CASE AskDisarm(a) \/ AskStop(a) \/ AskLaunch(a)
  BY <1>4 DEF AskDisarm, AskStop, AskLaunch, AskArm, Off, HelperMove
<1> QED
  BY <1>1, <1>2, <1>3, <1>4

(* Every move of the helper keeps the original the user's, or in force.    *)
LEMMA SoundKept == Sound /\ HelperMove => Sound'
<1> SUFFICES ASSUME Sound, HelperMove PROVE Sound'
  OBVIOUS
<1>1. CASE UNCHANGED helper
  BY <1>1 DEF helper, Sound
<1>2. CASE H!Open \/ H!Drop \/ H!Apply
  BY <1>2 DEF H!Open, H!Drop, H!Apply, Sound
<1>3. CASE RestoreOp
  BY <1>3 DEF RestoreOp, H!Release, helper, Sound
<1> QED
  BY <1>1, <1>2, <1>3 DEF HelperMove

-----------------------------------------------------------------------------
(* Where a step takes its poller or its request.                           *)

(* Going from one place to another of one's own.                           *)
LEMMA Going ==
  ASSUME Placed, NEW a \in Actors, NEW here, NEW there, Goto(a, here, there), there \in Home(a)
  PROVE  /\ Placed' /\ pc[a] = here /\ pc'[a] = there
         /\ \A b \in Actors \ {a} : pc'[b] = pc[b]
BY DEF Goto, Placed, Home

(* A sample.                                                               *)
LEMMA PollerWalk ==
  ASSUME Placed, NEW p \in Pollers, PollerStep(p) \/ Connect(p)
  PROVE  /\ Placed' /\ pc'[p] \notin {"end", "disarmEnd"}
         /\ \A b \in Actors \ {p} : pc'[b] = pc[b]
<1> USE DEF Home, PollerPlaces, Disarming, Actors
<1>1. CASE Check(p)
  BY <1>1, Going DEF Check
<1>2. CASE Leave(p) \/ Adapt(p)
  BY <1>2, Going DEF Leave, Adapt
<1>3. CASE Rise(p)
  BY <1>3, Going DEF Rise
<1>4. CASE Fall(p)
  BY <1>4, Going DEF Fall, Upset
<1>5. CASE Begin(p)
  BY <1>5, Going DEF Begin
<1>6. CASE Flag(p) \/ Apply(p)
  BY <1>6, Going DEF Flag, Apply
<1>7. CASE Settle(p) \/ Completed(p)
  BY <1>7, Going DEF Settle, Completed
<1>8. CASE Connect(p)
  BY <1>8, Going DEF Connect
<1> QED
  BY <1>1, <1>2, <1>3, <1>4, <1>5, <1>6, <1>7, <1>8 DEF PollerStep

(* A part of a restoration.                                                *)
LEMMA RestoreWalk ==
  ASSUME Placed, NEW a \in Actors, RestoreStep(a)
  PROVE  /\ Placed' /\ \A b \in Actors \ {a} : pc'[b] = pc[b]
         /\ \/ Put(a) /\ pc'[a] \in {"end", "disarmEnd"} /\ RestoreOp
            \/ Put(a) /\ pc'[a] \in {"settle", "disarm"} /\ UNCHANGED helper
            \/ PutThrows(a) /\ pc'[a] \in {"unflag", "disarmUnflag"}
            \/ /\ End(a) /\ pc[a] \in {"end", "disarmEnd"}
               /\ pc'[a] \in {"unflag", "disarmUnflag"}
            \/ Unflag(a) /\ pc'[a] \in {"settle", "disarm"}
            \/ Disarm(a) /\ pc[a] = "disarm" /\ pc'[a] \in {"completed", "arm", "idle"}
         /\ a \in Handlers => pc[a] \in Disarming /\ (pc'[a] \in Disarming \/ Disarm(a))
<1> USE DEF Home, PollerPlaces, HandlerPlaces, Disarming, Actors
<1>0. pc[a] \in Home(a) /\ (a \in Handlers => a \notin Pollers)
  BY DEF Placed
<1>1. CASE Put(a)
  BY <1>0, <1>1, Going DEF Put, Goto
<1>2. CASE PutThrows(a)
  BY <1>0, <1>2, Going DEF PutThrows, Goto
<1>3. CASE End(a)
  BY <1>0, <1>3, Going DEF End, Goto
<1>4. CASE Unflag(a)
  BY <1>0, <1>4, Going DEF Unflag, Goto
<1>5. CASE Disarm(a)
  BY <1>0, <1>5, Going DEF Disarm, Return, Goto
<1> QED
  BY <1>1, <1>2, <1>3, <1>4, <1>5 DEF RestoreStep

(* A request.                                                              *)
LEMMA RequestWalk ==
  ASSUME Placed, NEW h \in Handlers, HandlerStep(h) \/ AskDisarm(h) \/ AskStop(h) \/ AskLaunch(h)
  PROVE  /\ Placed' /\ pc'[h] \in {"idle", "arm", "ensure", "disarmPut"}
         /\ \A b \in Handlers \ {h} : pc'[b] = pc[b]
         /\ \A b \in Actors : pc'[b] \in {"end", "disarmEnd"} => pc[b] = pc'[b]
<1> USE DEF Home, PollerPlaces, HandlerPlaces, Disarming, Actors
<1>0. h \notin Pollers
  OBVIOUS
<1>1. CASE Arm(h)
  BY <1>0, <1>1, Going DEF Arm
<1>2. CASE Ensure(h)
  <2>1. CASE Goto(h, "ensure", "idle")
    BY <1>0, <2>1, Going
  <2>2. CASE \E p \in Pollers : pc' = [pc EXCEPT ![h] = "idle", ![p] = "check"]
    BY <1>0, <2>2 DEF Placed
  <2> QED
    BY <1>2, <2>1, <2>2 DEF Ensure
<1>3. CASE AskDisarm(h) \/ AskStop(h) \/ AskLaunch(h)
  BY <1>0, <1>3, Going DEF AskDisarm, AskStop, AskLaunch, AskArm, Off
<1> QED
  BY <1>1, <1>2, <1>3 DEF HandlerStep

-----------------------------------------------------------------------------
(* An original is kept under a lease.                                      *)

(* A sample that is not a restoration opens a lease, applies under one, or *)
(* changes nothing of the helper.                                          *)
LEMMA SampleKept ==
  ASSUME Placed, KeptUnderLease, NEW p \in Pollers, PollerStep(p) \/ Connect(p)
  PROVE  KeptUnderLease'
<1>1. /\ pc'[p] \notin {"end", "disarmEnd"} /\ p \in Actors
      /\ \A b \in Actors \ {p} : pc'[b] = pc[b]
  BY PollerWalk DEF Actors
<1>2. Ending' => Ending
  BY <1>1 DEF Ending
<1>3. CASE UNCHANGED <<helper, crossed>>
  BY <1>2, <1>3 DEF helper, KeptUnderLease
<1>4. CASE Begin(p)
  <2>1. UNCHANGED <<hw, kept, crossed>> /\ (lease' = TRUE \/ lease' = lease)
    BY <1>4 DEF Begin, Throws, H!Open, helper, history
  <2> QED
    BY <1>2, <2>1 DEF KeptUnderLease
<1>5. CASE Apply(p)
  <2>1. ~crossed' => ~crossed /\ ~Ending
    BY <1>5, Zenon DEF Apply, Ending
  <2>2. CASE UNCHANGED helper
    BY <1>2, <2>1, <2>2 DEF helper, KeptUnderLease
  <2>3. CASE H!Apply
    BY <1>2, <2>1, <2>3 DEF H!Apply, KeptUnderLease
  <2> QED
    BY <1>5, <2>2, <2>3 DEF Apply, Throws
<1> QED
  BY <1>3, <1>4, <1>5
  DEF PollerStep, Check, Leave, Adapt, Rise, Fall, Flag, Settle, Completed, Connect, history

(* A restoration gives the original up before it ends the session.         *)
LEMMA RestoreKept ==
  ASSUME Placed, KeptUnderLease, NEW a \in Actors, RestoreStep(a)
  PROVE  KeptUnderLease'
<1>1. \A b \in Actors \ {a} : pc'[b] = pc[b]
  BY RestoreWalk
<1>2. crossed' = crossed
  BY DEF RestoreStep, Put, PutThrows, End, Unflag, Disarm, Return, history
<1>3. CASE RestoreOp
  BY <1>3, <1>2, <1>1 DEF RestoreOp, H!Release, helper, KeptUnderLease, Ending
<1>4. CASE UNCHANGED helper /\ pc'[a] \notin {"end", "disarmEnd"}
  <2>1. Ending' => Ending
    BY <1>1, <1>4 DEF Ending
  <2> QED
    BY <1>2, <1>4, <2>1 DEF helper, KeptUnderLease
<1>5. CASE End(a)
  <2>1. Ending /\ (Ending' => Ending) /\ kept' = kept
    <3>1. pc[a] \in {"end", "disarmEnd"}
      BY <1>5, RestoreWalk DEF End, Goto
    <3>2. kept' = kept
      BY <1>5 DEF End, EndOp, Throws, H!Drop, helper
    <3> QED
      BY <3>1, <3>2 DEF Ending
  <2> QED
    BY <1>2, <2>1 DEF KeptUnderLease
<1> QED
  BY <1>3, <1>4, <1>5, RestoreWalk DEF PutThrows, Throws, Unflag, Disarm

(* Requests leave the helper alone.                                        *)
LEMMA RequestKept ==
  ASSUME Placed, KeptUnderLease, NEW h \in Handlers,
         HandlerStep(h) \/ AskDisarm(h) \/ AskStop(h) \/ AskLaunch(h) \/ StartPassive(h)
  PROVE  KeptUnderLease'
<1>1. UNCHANGED <<helper, crossed>>
  BY DEF HandlerStep, Arm, Ensure, AskDisarm, AskStop, AskLaunch, AskArm, Off, StartPassive, history
<1>2. Ending' => Ending
  <2>1. CASE StartPassive(h)
    BY <2>1 DEF StartPassive, threads, Ending
  <2>2. CASE ~StartPassive(h)
    BY <2>2, RequestWalk DEF Ending
  <2> QED
    BY <2>1, <2>2
<1> QED
  BY <1>1, <1>2 DEF helper, KeptUnderLease

(* The watchdog gives the original up before it drops the lease.           *)
LEMMA WatchdogKept == KeptUnderLease /\ Watchdog => KeptUnderLease'
<1> SUFFICES ASSUME KeptUnderLease, Watchdog PROVE KeptUnderLease'
  OBVIOUS
<1>1. crossed' = crossed /\ (Ending' <=> Ending)
  BY DEF Watchdog, history, threads, Ending
<1>2. kept' = {} /\ (kept # {} \/ lease' \in {FALSE, lease})
  BY DEF Watchdog, RestoreOp, EndOp, H!Release, H!Drop, helper
<1> QED
  BY <1>1, <1>2 DEF KeptUnderLease

-----------------------------------------------------------------------------
(* Services, and who works on them.                                        *)

(* A sample leaves services and requests alone, but for the detector,      *)
(* which is stopped by no sample.                                          *)
LEMMA SampleTables ==
  ASSUME Typed, Made, NEW p \in Pollers, PollerStep(p) \/ Connect(p)
  PROVE  /\ Typed' /\ Made' /\ UNCHANGED <<service, control, want, off>>
         /\ \A h \in Handlers : of'[h] = of[h]
         /\ \A v \in Services : det'[v] = "stopped" => det[v] = "stopped"
<1>0. p \in Actors /\ \A h \in Handlers : h # p
  BY DEF Actors
<1>1. UNCHANGED <<service, control, want, off>>
  BY DEF PollerStep, Check, Leave, Adapt, Rise, Fall, Begin, Flag, Apply, Settle, Completed,
         Connect, objects, history
<1>2. of' = of \/ of' = [of EXCEPT ![p] = 0] \/ of' = [of EXCEPT ![p] = service]
  BY <1>0 DEF PollerStep, Check, Leave, Adapt, Rise, Fall, Begin, Flag, Apply, Settle, Completed,
         Connect, Typed
<1>3. det' = det \/ (\E s \in {"idle", "active"} : det' = [det EXCEPT ![of[p]] = s])
  BY DEF PollerStep, Check, Leave, Adapt, Rise, Fall, Begin, Flag, Apply, Settle, Completed,
         Connect, objects
<1>4. /\ of' \in [Actors -> 0..MaxServices] /\ \A a \in Actors : of'[a] <= service
      /\ \A h \in Handlers : of'[h] = of[h]
  <2>1. 0 \in 0..MaxServices /\ service \in 0..MaxServices /\ 0 <= service /\ service <= service
    BY DEF Typed
  <2>2. ASSUME NEW v \in {0, service}, of' = [of EXCEPT ![p] = v]
        PROVE  /\ of' \in [Actors -> 0..MaxServices] /\ \A a \in Actors : of'[a] <= service
               /\ \A h \in Handlers : of'[h] = of[h]
    BY <1>0, <2>1, <2>2 DEF Typed, Made, Actors
  <2>3. CASE of' = of
    BY <2>3 DEF Typed, Made
  <2> QED
    BY <1>2, <2>2, <2>3
<1>5. /\ det' \in [Services -> {"idle", "active", "stopped"}]
      /\ \A v \in Services : det'[v] = "stopped" => det[v] = "stopped"
      /\ \A v \in Services : v > service => det'[v] = "idle"
  <2>1. \A v \in Services : v > service => v # of[p]
    BY <1>0 DEF Typed, Made, Services
  <2>2. CASE det' = det
    BY <2>2 DEF Typed, Made
  <2>3. ASSUME NEW s \in {"idle", "active"}, det' = [det EXCEPT ![of[p]] = s]
        PROVE  /\ det' \in [Services -> {"idle", "active", "stopped"}]
               /\ \A v \in Services : det'[v] = "stopped" => det[v] = "stopped"
               /\ \A v \in Services : v # of[p] => det'[v] = det[v]
    BY <2>3 DEF Typed
  <2> QED
    BY <1>3, <2>1, <2>2, <2>3 DEF Made
<1> QED
  BY <1>1, <1>4, <1>5 DEF Typed, Made

(* A restoration leaves them alone, but for its end.                       *)
LEMMA RestoreTables ==
  ASSUME NEW a \in Actors, RestoreStep(a)
  PROVE  Disarm(a) \/ UNCHANGED <<service, det, control, want, off, of>>
BY DEF RestoreStep, Put, PutThrows, End, Unflag, objects, history

(* The end of a disarm takes control from its service.                     *)
LEMMA DisarmTables ==
  ASSUME Typed, Made, OneControls, NEW a \in Actors, Disarm(a)
  PROVE  /\ Typed' /\ Made' /\ OneControls' /\ UNCHANGED <<service, want>>
         /\ \A b \in Actors \ {a} : of'[b] = of[b]
         /\ of[a] = service => Uncontrolled'
         /\ Uncontrolled => Uncontrolled'
<1>1. /\ control' \in [Services -> BOOLEAN] /\ det' \in [Services -> {"idle", "active", "stopped"}]
      /\ \A v \in Services : control'[v] => control[v] /\ v # of[a]
      /\ \A v \in Services : v # of[a] => det'[v] = det[v]
  BY DEF Disarm, Typed
<1>2. UNCHANGED <<service, want>>
  BY DEF Disarm
<1>3. /\ of' \in [Actors -> 0..MaxServices] /\ \A b \in Actors : of'[b] <= service
      /\ \A b \in Actors \ {a} : of'[b] = of[b]
  BY DEF Disarm, Return, Typed, Made
<1>4. Typed' /\ Made'
  BY <1>1, <1>2, <1>3 DEF Typed, Made, Services
<1>5. of[a] = service => Uncontrolled'
  BY <1>1 DEF OneControls, Uncontrolled
<1>6. Uncontrolled => Uncontrolled'
  BY <1>1 DEF Uncontrolled
<1>7. off' => Uncontrolled'
  BY <1>5, <1>6 DEF Disarm, Return, OneControls
<1>8. OneControls'
  BY <1>1, <1>2, <1>7 DEF OneControls
<1> QED
  BY <1>2, <1>3, <1>4, <1>5, <1>6, <1>8

(* Arming gives control to the service it makes, when no other has it.     *)
LEMMA ArmTables ==
  ASSUME Typed, Made, NEW h \in Handlers, ArmsAlone(h), Arm(h)
  PROVE  Typed' /\ Made' /\ OneControls' /\ UNCHANGED <<want, of>> /\ pc[h] = "arm"
<1>1. pc[h] = "arm" /\ want[h] = "arm" /\ service < MaxServices /\ Uncontrolled
  BY DEF Arm, Goto, ArmsAlone
<1>2. service' = service + 1 /\ service' \in Services /\ UNCHANGED <<det, of, want>> /\ off' = FALSE
  BY <1>1 DEF Arm, Typed, Services
<1>3. control' = [control EXCEPT ![service'] = TRUE]
  BY DEF Arm
<1>4. det[service'] = "idle"
  BY <1>2 DEF Made, Typed
<1>5. Typed' /\ Made'
  BY <1>2, <1>3 DEF Typed, Made, Services
<1>6. OneControls'
  BY <1>1, <1>2, <1>3, <1>4 DEF OneControls, Uncontrolled, Typed
<1> QED
  BY <1>1, <1>2, <1>5, <1>6

-----------------------------------------------------------------------------
(* Requests that arm.                                                      *)

(* What a step leaves alone of a request that it is not a step of.         *)
LEMMA StillArming ==
  ASSUME NEW h \in Handlers, ArmsAlone(h),
         pc'[h] = pc[h], of'[h] = of[h], UNCHANGED <<service, want>>, Uncontrolled => Uncontrolled'
  PROVE  ArmsAlone(h)'
BY DEF ArmsAlone

(* Samples are of no request.                                              *)
LEMMA SampleArming ==
  ASSUME Placed, Typed, Made, OneControls, Arming, NEW p \in Pollers, PollerStep(p) \/ Connect(p)
  PROVE  OneControls' /\ Arming'
<1>1. /\ UNCHANGED <<service, control, want, off>> /\ \A h \in Handlers : of'[h] = of[h]
      /\ \A v \in Services : det'[v] = "stopped" => det[v] = "stopped"
  BY SampleTables
<1>2. \A h \in Handlers : pc'[h] = pc[h]
  BY PollerWalk DEF Actors
<1>3. Uncontrolled' <=> Uncontrolled
  BY <1>1 DEF Uncontrolled
<1>4. OneControls'
  BY <1>1, <1>3 DEF OneControls
<1>5. ASSUME NEW h \in Handlers PROVE ArmsAlone(h)'
  BY <1>1, <1>2, <1>3, StillArming DEF Arming
<1> QED
  BY <1>4, <1>5 DEF Arming

(* A disarm that was asked for in order to arm takes control from the one  *)
(* service that may have it.                                               *)
LEMMA RestoreArming ==
  ASSUME Placed, Typed, Made, OneControls, Arming, NEW a \in Actors, RestoreStep(a)
  PROVE  Typed' /\ Made' /\ OneControls' /\ Arming'
<1>1. /\ Typed' /\ Made' /\ OneControls' /\ UNCHANGED <<service, want>>
      /\ \A b \in Actors \ {a} : of'[b] = of[b]
      /\ Disarm(a) /\ of[a] = service => Uncontrolled'
      /\ Uncontrolled => Uncontrolled'
      /\ ~Disarm(a) => of' = of
  <2>1. CASE Disarm(a)
    BY <2>1, DisarmTables
  <2>2. CASE ~Disarm(a)
    <3>1. UNCHANGED <<service, det, control, want, off, of>>
      BY <2>2, RestoreTables
    <3>2. Uncontrolled' <=> Uncontrolled
      BY <3>1 DEF Uncontrolled
    <3>3. Typed' /\ Made'
      BY <3>1 DEF Typed, Made
    <3>4. OneControls'
      BY <3>1, <3>2 DEF OneControls
    <3> QED
      BY <2>2, <3>1, <3>2, <3>3, <3>4
  <2> QED
    BY <2>1, <2>2
<1>2. /\ \A b \in Actors \ {a} : pc'[b] = pc[b]
      /\ a \in Handlers => pc[a] \in Disarming /\ (pc'[a] \in Disarming \/ Disarm(a))
  BY RestoreWalk
<1>3. ASSUME NEW h \in Handlers PROVE ArmsAlone(h)'
  <2>1. ArmsAlone(h) /\ h \in Actors
    BY DEF Arming, Actors
  <2>2. CASE h # a
    BY <1>1, <1>2, <2>1, <2>2, StillArming
  <2>3. CASE h = a /\ ~Disarm(a)
    <3>1. of'[h] = of[h] /\ pc'[h] \in Disarming /\ pc[h] \in Disarming
      BY <1>1, <1>2, <2>3
    <3> QED
      BY <1>1, <2>1, <3>1 DEF ArmsAlone, Disarming
  <2>4. CASE h = a /\ Disarm(a)
    <3>1. pc[h] = "disarm" /\ pc'[h] = IF want[h] = "arm" THEN "arm" ELSE "idle"
      BY <2>1, <2>4 DEF Disarm, Return, Goto, Placed
    <3>2. want[h] = "arm" => /\ service < MaxServices /\ Uncontrolled'
                             /\ \A g \in Handlers : want[g] = "arm" => g = h
      BY <1>1, <2>1, <2>4, <3>1 DEF ArmsAlone, Disarming
    <3> QED
      BY <1>1, <3>1, <3>2 DEF ArmsAlone, Disarming
  <2> QED
    BY <2>2, <2>3, <2>4
<1> QED
  BY <1>1, <1>3 DEF Arming

(* A request to arm waits until no other does, and finds or makes the      *)
(* service there is without control.                                       *)
LEMMA RequestArming ==
  ASSUME Placed, Typed, Made, OneControls, Arming, NEW h \in Handlers,
         HandlerStep(h) \/ AskDisarm(h) \/ AskStop(h) \/ AskLaunch(h) \/ StartPassive(h)
  PROVE  Typed' /\ Made' /\ OneControls' /\ Arming'
<1>0. h \in Actors
  BY DEF Actors
<1>1. ~Running => Uncontrolled
  BY DEF Running, Uncontrolled, OneControls
<1>2. CASE Arm(h)
  <2>1. Typed' /\ Made' /\ OneControls' /\ UNCHANGED <<want, of>> /\ pc[h] = "arm"
    BY <1>2, ArmTables DEF Arming
  <2>2. /\ pc'[h] = "ensure" /\ \A g \in Handlers \ {h} : pc'[g] = pc[g]
    BY <1>0, <1>2 DEF Arm, Goto, Placed, Actors
  <2>3. want[h] = "arm" /\ \A g \in Handlers \ {h} : want[g] # "arm"
    BY <2>1 DEF Arming, ArmsAlone
  <2>4. ASSUME NEW g \in Handlers PROVE ArmsAlone(g)'
    <3>1. CASE g = h
      BY <2>1, <2>2, <2>3, <3>1 DEF ArmsAlone, Disarming
    <3>2. CASE g # h
      <4>1. want[g] # "arm" /\ pc[g] \notin {"arm", "ensure"}
        BY <2>3, <3>2 DEF Arming, ArmsAlone
      <4> QED
        BY <2>1, <2>2, <3>2, <4>1 DEF ArmsAlone
    <3> QED
      BY <3>1, <3>2
  <2> QED
    BY <2>1, <2>4 DEF Arming
<1>3. CASE StartPassive(h)
  <2>1. /\ service' = service + 1 /\ service' \in Services /\ Uncontrolled
        /\ UNCHANGED <<det, control, want, of, pc, off>> /\ \A g \in Handlers : want[g] = "off"
    BY <1>1, <1>3 DEF StartPassive, More, Services, Typed, threads, history
  <2>2. Typed' /\ Made'
    BY <2>1 DEF Typed, Made, Services
  <2>3. Uncontrolled' /\ OneControls'
    BY <2>1 DEF OneControls, Uncontrolled
  <2> QED
    BY <2>1, <2>2, <2>3 DEF Arming, ArmsAlone
<1>4. CASE AskDisarm(h) \/ AskStop(h) \/ AskLaunch(h) \/ Ensure(h)
  <2>1. /\ UNCHANGED <<service, det, control, off>>
        /\ of' = of \/ of' = [of EXCEPT ![h] = service]
        /\ want' = [want EXCEPT ![h] = "off"] \/ want' = [want EXCEPT ![h] = "arm"]
    BY <1>4 DEF AskDisarm, AskStop, AskLaunch, AskArm, Off, Ensure, objects, history
  <2>2. \A g \in Handlers \ {h} : pc'[g] = pc[g]
    BY <1>4, RequestWalk DEF HandlerStep
  <2>3. Typed' /\ Made'
    BY <2>1 DEF Typed, Made, Services
  <2>4. OneControls' /\ (Uncontrolled' <=> Uncontrolled)
    BY <2>1 DEF OneControls, Uncontrolled
  <2>5. \/ want'[h] = "off" /\ pc'[h] \notin {"arm", "ensure"}
        \/ /\ AskArm(h) /\ want'[h] = "arm"
           /\ \/ pc'[h] = "arm" /\ Uncontrolled
              \/ pc'[h] = "disarmPut" /\ of'[h] = service
           /\ service < MaxServices /\ \A g \in Handlers : want[g] = "off"
    <3>1. CASE Off(h)
      BY <1>0, <3>1 DEF Off, Goto, Placed, Typed
    <3>2. CASE AskArm(h)
      BY <1>0, <1>1, <3>2 DEF AskArm, Goto, More, Services, Placed, Typed
    <3>3. CASE Ensure(h)
      BY <1>0, <3>3, RequestWalk DEF Ensure, HandlerStep, Typed, Goto, Placed, Actors
    <3> QED
      BY <1>4, <3>1, <3>2, <3>3 DEF AskDisarm, AskStop, AskLaunch
  <2>6. ASSUME NEW g \in Handlers PROVE ArmsAlone(g)'
    <3>1. CASE g = h
      BY <1>0, <2>1, <2>4, <2>5, <3>1 DEF ArmsAlone, Disarming, Typed
    <3>2. CASE g # h
      <4>1. /\ pc'[g] = pc[g] /\ of'[g] = of[g] /\ want'[g] = want[g] /\ g \in Actors
            /\ \A k \in Handlers : k # h => want'[k] = want[k]
        BY <1>0, <2>1, <2>2, <3>2 DEF Typed, Actors
      <4>2. ArmsAlone(g)
        BY DEF Arming
      <4>3. CASE want'[h] = "off"
        <5>1. \A k \in Handlers : want'[k] = "arm" => want[k] = "arm"
          BY <4>1, <4>3
        <5> QED
          BY <2>1, <2>4, <4>1, <4>2, <5>1 DEF ArmsAlone
      <4>4. CASE want[g] = "off"
        BY <2>4, <4>1, <4>2, <4>4 DEF ArmsAlone
      <4> QED
        BY <2>5, <4>3, <4>4
    <3> QED
      BY <3>1, <3>2
  <2> QED
    BY <2>3, <2>4, <2>6 DEF Arming
<1> QED
  BY <1>2, <1>3, <1>4 DEF HandlerStep

-----------------------------------------------------------------------------
(* The inductive invariant holds throughout.                               *)

(* It holds at the start.                                                  *)
LEMMA Initially == Init => IInv
<1> SUFFICES ASSUME Init PROVE IInv
  OBVIOUS
<1>1. Placed /\ Typed /\ Made
  BY DEF Init, Placed, Home, PollerPlaces, HandlerPlaces, Typed, Made, Services, Actors
<1>2. Sound /\ KeptUnderLease
  BY DEF Init, Sound, KeptUnderLease
<1>3. OneControls
  BY DEF Init, OneControls
<1>4. Arming
  <2>1. \A h \in Handlers : want[h] = "off" /\ pc[h] = "idle"
    BY DEF Init, Actors
  <2> QED
    BY <2>1 DEF Arming, ArmsAlone
<1> QED
  BY <1>1, <1>2, <1>3, <1>4 DEF IInv

(* Every step keeps it.                                                    *)
LEMMA Inductive == IInv /\ [Next]_vars => IInv'
<1> SUFFICES ASSUME IInv, [Next]_vars PROVE IInv'
  OBVIOUS
<1>0. Placed /\ Typed /\ Made /\ Sound /\ KeptUnderLease /\ OneControls /\ Arming
  BY DEF IInv
<1>1. ASSUME NEW p \in Pollers, PollerStep(p) \/ Connect(p) PROVE IInv'
  <2>1. Placed' /\ KeptUnderLease' /\ Typed' /\ Made' /\ OneControls' /\ Arming'
    BY <1>0, <1>1, PollerWalk, SampleKept, SampleTables, SampleArming
  <2>2. Sound'
    BY <1>0, <1>1, ActorMove, SoundKept
  <2> QED
    BY <2>1, <2>2 DEF IInv
<1>2. ASSUME NEW a \in Actors, RestoreStep(a) PROVE IInv'
  <2>1. Placed' /\ KeptUnderLease' /\ Typed' /\ Made' /\ OneControls' /\ Arming'
    BY <1>0, <1>2, RestoreWalk, RestoreKept, RestoreArming
  <2>2. Sound'
    BY <1>0, <1>2, ActorMove, SoundKept
  <2> QED
    BY <2>1, <2>2 DEF IInv
<1>3. ASSUME NEW h \in Handlers,
             HandlerStep(h) \/ AskDisarm(h) \/ AskStop(h) \/ AskLaunch(h) \/ StartPassive(h)
      PROVE  IInv'
  <2>1. KeptUnderLease' /\ Typed' /\ Made' /\ OneControls' /\ Arming'
    BY <1>0, <1>3, RequestKept, RequestArming
  <2>2. Sound'
    BY <1>0, <1>3, ActorMove, SoundKept
  <2>3. Placed'
    <3>1. CASE StartPassive(h)
      BY <1>0, <3>1 DEF StartPassive, threads, Placed
    <3> QED
      BY <1>0, <1>3, <3>1, RequestWalk
  <2> QED
    BY <2>1, <2>2, <2>3 DEF IInv
<1>4. CASE Watchdog
  <2>1. Sound'
    <3>1. HelperMove
      BY <1>4 DEF Watchdog, RestoreOp, EndOp, HelperMove
    <3> QED
      BY <1>0, <3>1, SoundKept
  <2>2. UNCHANGED <<service, det, control, pc, of, want, off>>
    BY <1>4 DEF Watchdog, objects, threads, history
  <2>3. Placed' /\ Typed' /\ Made' /\ Arming' /\ (Uncontrolled' <=> Uncontrolled)
    BY <1>0, <2>2 DEF Placed, Typed, Made, Arming, ArmsAlone, Uncontrolled
  <2>4. OneControls'
    BY <1>0, <2>2, <2>3 DEF OneControls
  <2> QED
    BY <1>0, <1>4, <2>1, <2>3, <2>4, WatchdogKept DEF IInv
<1>5. CASE UNCHANGED vars
  <2>1. UNCHANGED <<helper, service, det, control, pc, of, want, off, crossed>>
    BY <1>5 DEF vars, objects, threads, history
  <2>2. Placed' /\ Typed' /\ Made' /\ Arming' /\ (Uncontrolled' <=> Uncontrolled) /\ (Ending' <=> Ending)
    BY <1>0, <2>1 DEF Placed, Typed, Made, Arming, ArmsAlone, Uncontrolled, Ending
  <2>3. Sound' /\ KeptUnderLease' /\ OneControls'
    BY <1>0, <2>1, <2>2 DEF helper, Sound, KeptUnderLease, OneControls
  <2> QED
    BY <2>2, <2>3 DEF IInv
<1>6. \A h \in Handlers : AskArm(h) => AskLaunch(h)
  BY DEF AskLaunch
<1> QED
  BY <1>1, <1>2, <1>3, <1>4, <1>5, <1>6 DEF Next, Actors

(* Hence it always holds.                                                  *)
LEMMA AlwaysIInv == Spec => []IInv
BY Initially, Inductive, PTL DEF Spec

(* Whatever a sampling thread is doing when another thread or a request    *)
(* restores, and whichever calls throw: a clamp in force is under a lease, *)
(* unless it was applied between a restore and its end_session.            *)
THEOREM ClampIsGuarded == Spec => []Guarded
<1>1. IInv => Guarded
  BY DEF IInv, Sound, KeptUnderLease, Guarded
<1> QED
  BY <1>1, AlwaysIInv, PTL

(* However many connections and workers sample while a service is disarmed *)
(* and others are armed: none of them renews a lease after the disarm.     *)
THEOREM DisarmIsFinal == Spec => []DisarmedIsNotRenewed
<1>1. IInv => DisarmedIsNotRenewed
  <2> SUFFICES ASSUME IInv, off, Beating PROVE FALSE
    BY DEF DisarmedIsNotRenewed
  <2>1. PICK p \in Pollers : of[p] # 0 /\ control[of[p]]
    BY DEF Beating
  <2>2. of[p] \in Services
    BY <2>1 DEF IInv, Typed, Services, Actors
  <2> QED
    BY <2>1, <2>2 DEF IInv, OneControls, Uncontrolled
<1> QED
  BY <1>1, AlwaysIInv, PTL

=============================================================================
