------------------------- MODULE CalibrationProofs --------------------------
(***************************************************************************)
(* Proofs about Calibration, for any layout of the core classes, any caps  *)
(* and repetitions, and any number of sweeps and of stops at a time.       *)
(***************************************************************************)
EXTENDS Calibration, TLAPS

-----------------------------------------------------------------------------
(* Where a sweep's thread may be.                                          *)
Sweeping == {"class", "point", "apply", "rep", "launch", "running", "record"}

Places == {"new", "begin", "restore", "end", "close", "over"} \cup Sweeping

Spots == [class : Nat \ {0}, control : Nat, rep : Nat \ {0}]

Flags ==
  /\ lease \in BOOLEAN /\ lost \in BOOLEAN /\ other \in BOOLEAN /\ running \in BOOLEAN
  /\ cancel \in BOOLEAN /\ error \in BOOLEAN /\ told \in BOOLEAN /\ raced \in BOOLEAN
  /\ disturbed \in BOOLEAN /\ broken \in BOOLEAN

Typed ==
  /\ Flags /\ thread \in 0..MaxSweeps /\ step \in Nat /\ points \in Nat
  /\ pc \in [Sweeps -> Places] /\ at \in [Sweeps -> Spots]
  /\ stop \in [Stops -> {"idle", "join", "restore", "answer"}]
  /\ measured \in [Sweeps -> Nat] /\ late \in [Sweeps -> Nat]
  /\ verdict \in [Sweeps -> {"none", "partial", "complete"}]

(* The types hold initially.                                               *)
LEMMA TypedInit == Init => Typed
<1> SUFFICES ASSUME Init PROVE Typed
  OBVIOUS
<1>1. thread \in 0..MaxSweeps /\ step \in Nat /\ points \in Nat
  BY BoundsAssumption DEF Init
<1>2. pc \in [Sweeps -> Places] /\ stop \in [Stops -> {"idle", "join", "restore", "answer"}]
  BY DEF Init, Places
<1>3. at \in [Sweeps -> Spots]
  <2>1. First \in Spots
    BY DEF First, Spots
  <2> QED
    BY <2>1 DEF Init
<1>4. /\ measured \in [Sweeps -> Nat] /\ late \in [Sweeps -> Nat]
      /\ verdict \in [Sweeps -> {"none", "partial", "complete"}]
  BY DEF Init
<1>5. Flags
  BY DEF Init, Flags
<1> QED
  BY <1>1, <1>2, <1>3, <1>4, <1>5 DEF Typed

(* Every step keeps the flags.                                             *)
LEMMA FlagsKept == Flags /\ [Next]_vars => Flags'
<1> SUFFICES ASSUME Flags, [Next]_vars PROVE Flags'
  OBVIOUS
<1> USE DEF Flags, state, history, helper
<1>1. ASSUME RestoreOp \/ EndOp \/ H!Open \/ H!Apply \/ UNCHANGED helper
      PROVE  lease' \in BOOLEAN /\ lost' \in BOOLEAN
  BY <1>1 DEF RestoreOp, EndOp, H!Open, H!Apply, H!Release, H!Drop
<1>2. CASE Start
  BY <1>2 DEF Start
<1>3. ASSUME NEW r \in Stops, Stop(r) \/ Join(r) \/ StopRestore(r) \/ Answer(r) PROVE Flags'
  <2>1. CASE Stop(r) \/ Answer(r)
    BY <2>1 DEF Stop, Answer
  <2>2. CASE Join(r)
    BY <2>2 DEF Join, Alive
  <2>3. CASE StopRestore(r)
    BY <1>1, <2>3 DEF StopRestore, Call
  <2> QED
    BY <1>3, <2>1, <2>2, <2>3
<1>4. ASSUME NEW s \in Sweeps, Step(s) PROVE Flags'
  <2>1. CASE Class(s) \/ Point(s) \/ Rep(s)
    BY <2>1 DEF Class, Point, Rep
  <2>2. CASE Launch(s) \/ Record(s) \/ Close(s)
    BY <2>2 DEF Launch, Record, Close
  <2>3. CASE Ended(s) \/ Fail(s)
    BY <2>3 DEF Ended, Fail
  <2>4. CASE Begin(s)
    BY <1>1, <2>4 DEF Begin, Call
  <2>5. CASE Apply(s)
    BY <1>1, <2>5 DEF Apply
  <2>6. CASE Restore(s) \/ End(s)
    BY <1>1, <2>6 DEF Restore, End, Call
  <2> QED
    BY <1>4, <2>1, <2>2, <2>3, <2>4, <2>5, <2>6 DEF Step
<1>5. CASE OtherBegin \/ OtherEnd \/ Watchdog
  BY <1>1, <1>5 DEF OtherBegin, OtherEnd, Watchdog
<1>6. CASE UNCHANGED vars
  BY <1>6 DEF vars
<1> QED
  BY <1>2, <1>3, <1>4, <1>5, <1>6 DEF Next

(* Moving a thread, and its spot.                                          *)
LEMMA MoveTyped ==
  ASSUME Typed, NEW s \in Sweeps
  PROVE  /\ NextClass(s) \in Spots /\ NextPoint(s) \in Spots /\ First \in Spots
         /\ [at[s] EXCEPT !.rep = @ + 1] \in Spots
         /\ \A to \in Spots : Move(s, to) => at' \in [Sweeps -> Spots]
         /\ \A here, there \in Places : Goto(s, here, there) => pc' \in [Sweeps -> Places]
<1>1. at[s] \in Spots /\ at \in [Sweeps -> Spots] /\ pc \in [Sweeps -> Places]
  BY DEF Typed
<1>2. NextClass(s) \in Spots /\ NextPoint(s) \in Spots /\ First \in Spots
      /\ [at[s] EXCEPT !.rep = @ + 1] \in Spots
  <2>1. PICK k \in Nat \ {0}, n \in Nat, r \in Nat \ {0} : at[s] = [class |-> k, control |-> n, rep |-> r]
    BY <1>1 DEF Spots
  <2>2. [class |-> k + 1, control |-> 0, rep |-> 1] \in Spots
        /\ [class |-> k, control |-> n + 1, rep |-> 1] \in Spots
        /\ [class |-> k, control |-> n, rep |-> r + 1] \in Spots
        /\ [class |-> 1, control |-> 0, rep |-> 1] \in Spots
    BY DEF Spots
  <2>3. NextClass(s) = [class |-> k + 1, control |-> 0, rep |-> 1] /\ First = [class |-> 1, control |-> 0, rep |-> 1]
    BY <2>1 DEF NextClass, First
  <2>4. NextPoint(s) = [class |-> k, control |-> n + 1, rep |-> 1]
    BY <2>1 DEF NextPoint
  <2>5. [at[s] EXCEPT !.rep = @ + 1] = [class |-> k, control |-> n, rep |-> r + 1]
    BY <2>1
  <2> QED
    BY <2>2, <2>3, <2>4, <2>5
<1>3. \A to \in Spots : Move(s, to) => at' \in [Sweeps -> Spots]
  BY <1>1 DEF Move
<1>4. \A here, there \in Places : Goto(s, here, there) => pc' \in [Sweeps -> Places]
  BY <1>1 DEF Goto
<1> QED
  BY <1>2, <1>3, <1>4

(* Every step keeps the types.                                             *)
LEMMA TypedStep == Typed /\ [Next]_vars => Typed'
<1> SUFFICES ASSUME Typed, [Next]_vars PROVE Typed'
  OBVIOUS
<1> USE DEF state, history
<1>0. Flags' /\ {"new", "begin", "class", "point", "apply", "rep", "launch", "running", "record",
                "restore", "end", "close", "over"} \subseteq Places
  BY FlagsKept DEF Typed, Places, Sweeping
<1>1. CASE Start
  <2>1. thread' \in Sweeps /\ thread' \in 0..MaxSweeps
    BY <1>1, BoundsAssumption DEF Start, Typed, Sweeps
  <2>2. pc' \in [Sweeps -> Places] /\ late' \in [Sweeps -> Nat]
    BY <1>0, <1>1, <2>1, MoveTyped DEF Start
  <2> QED
    BY <1>0, <1>1, <2>1, <2>2 DEF Start, Typed
<1>2. ASSUME NEW r \in Stops, Stop(r) \/ Join(r) \/ StopRestore(r) \/ Answer(r) PROVE Typed'
  <2>1. late' \in [Sweeps -> Nat]
    BY <1>2 DEF Stop, Join, StopRestore, Answer, Typed
  <2>2. stop' \in [Stops -> {"idle", "join", "restore", "answer"}]
    BY <1>2 DEF Stop, Join, StopRestore, Answer, Stopping, Typed
  <2> QED
    BY <1>0, <1>2, <2>1, <2>2 DEF Stop, Join, StopRestore, Answer, Typed
<1>3. ASSUME NEW s \in Sweeps, Begin(s) \/ Class(s) \/ Ended(s) \/ Fail(s) \/ Restore(s) \/ End(s)
      PROVE  Typed'
  <2>1. pc' \in [Sweeps -> Places]
    BY <1>0, <1>3, MoveTyped DEF Begin, Class, Ended, Fail, Restore, End
  <2> QED
    BY <1>0, <1>3, <2>1 DEF Begin, Class, Ended, Fail, Restore, End, Typed
<1>4. ASSUME NEW s \in Sweeps, Point(s) \/ Apply(s) \/ Rep(s) PROVE Typed'
  <2>1. pc' \in [Sweeps -> Places]
    BY <1>0, <1>4, MoveTyped DEF Point, Apply, Settle, Rep
  <2>2. at' \in [Sweeps -> Spots]
    BY <1>4, MoveTyped DEF Point, Apply, Settle, Rep, Typed
  <2>3. step' \in Nat
    BY <1>4 DEF Point, Apply, Rep, Typed
  <2> QED
    BY <1>0, <1>4, <2>1, <2>2, <2>3 DEF Point, Apply, Rep, Typed
<1>5. ASSUME NEW s \in Sweeps, Launch(s) PROVE Typed'
  <2>1. pc' \in [Sweeps -> Places]
    BY <1>0, <1>5, MoveTyped DEF Launch
  <2>2. late \in [Sweeps -> Nat] /\ late[s] + 1 \in Nat
    BY DEF Typed
  <2>3. late' \in [Sweeps -> Nat]
    BY <1>5, <2>2 DEF Launch
  <2> QED
    BY <1>0, <1>5, <2>1, <2>3 DEF Launch, Typed
<1>6. ASSUME NEW s \in Sweeps, Record(s) PROVE Typed'
  <2>1. pc' \in [Sweeps -> Places] /\ at' \in [Sweeps -> Spots]
    BY <1>0, <1>6, MoveTyped DEF Record
  <2>2. measured \in [Sweeps -> Nat] /\ measured[s] + 1 \in Nat /\ points + 1 \in Nat
    BY DEF Typed
  <2>3. measured' \in [Sweeps -> Nat] /\ points' \in Nat
    BY <1>6, <2>2 DEF Record
  <2> QED
    BY <1>0, <1>6, <2>1, <2>3 DEF Record, Typed
<1>7. ASSUME NEW s \in Sweeps, Close(s) PROVE Typed'
  <2>1. pc' \in [Sweeps -> Places]
    BY <1>0, <1>7, MoveTyped DEF Close
  <2>2. verdict' \in [Sweeps -> {"none", "partial", "complete"}]
    BY <1>7 DEF Close, Typed
  <2> QED
    BY <1>0, <1>7, <2>1, <2>2 DEF Close, Typed
<1>8. CASE OtherBegin \/ OtherEnd \/ Watchdog
  BY <1>0, <1>8 DEF OtherBegin, OtherEnd, Watchdog, Typed
<1>9. CASE UNCHANGED vars
  BY <1>0, <1>9 DEF vars, Typed
<1> QED
  BY <1>1, <1>2, <1>3, <1>4, <1>5, <1>6, <1>7, <1>8, <1>9 DEF Next, Step

-----------------------------------------------------------------------------
(* One sweep at a time.                                                    *)

(* A step of a thread moves that thread, on from a place where it lives,   *)
(* and only its end clears is_running.                                     *)
LEMMA ThreadMoves ==
  ASSUME Typed, NEW s \in Sweeps, Step(s)
  PROVE  /\ Alive(s) /\ pc'[s] # "new" /\ \A x \in Sweeps \ {s} : pc'[x] = pc[x]
         /\ UNCHANGED <<thread, stop, raced, told, cancel, other>>
         /\ \/ running' = running /\ pc'[s] # "over"
            \/ running' = FALSE /\ pc'[s] = "over"
<1> USE DEF state, history
<1>1. pc \in [Sweeps -> Places]
  BY DEF Typed
<1>2. \A here, there : Goto(s, here, there) =>
        pc[s] = here /\ pc'[s] = there /\ \A x \in Sweeps \ {s} : pc'[x] = pc[x]
  BY <1>1 DEF Goto
<1>3. CASE Begin(s) \/ Class(s) \/ Point(s)
  BY <1>2, <1>3 DEF Begin, Class, Point, Alive
<1>4. CASE Apply(s)
  BY <1>2, <1>4 DEF Apply, Settle, Alive
<1>5. CASE Rep(s) \/ Launch(s)
  BY <1>2, <1>5 DEF Rep, Launch, Alive
<1>6. CASE Ended(s) \/ Fail(s) \/ Record(s)
  BY <1>2, <1>6 DEF Ended, Fail, Record, Alive
<1>7. CASE Restore(s) \/ End(s)
  BY <1>2, <1>7 DEF Restore, End, Alive
<1>8. CASE Close(s)
  BY <1>2, <1>8 DEF Close, Alive
<1> QED
  BY <1>3, <1>4, <1>5, <1>6, <1>7, <1>8 DEF Step

(* The inductive invariant: the sweeps begin in their order, a stop was    *)
(* sent to one, and once it has joined without giving up none is alive.    *)
SweepInv ==
  /\ \A s \in Sweeps : pc[s] = "new" <=> s > thread
  /\ (running \/ \E r \in Stops : stop[r] # "idle") => thread # 0
  /\ OneSweep
  /\ (~raced /\ \E r \in Stops : stop[r] \in {"restore", "answer"}) => \A s \in Sweeps : ~Alive(s)

(* No sweep has begun.                                                     *)
LEMMA SweepInit == Init => SweepInv
BY BoundsAssumption DEF Init, SweepInv, OneSweep, Alive, Sweeps

(* Every step keeps it.                                                    *)
LEMMA SweepStep == Typed /\ SweepInv /\ [Next]_vars => SweepInv'
<1> SUFFICES ASSUME Typed, SweepInv, [Next]_vars PROVE SweepInv'
  OBVIOUS
<1> USE DEF state, history
<1>1. thread \in Nat /\ Sweeps \subseteq Nat /\ pc \in [Sweeps -> Places]
      /\ stop \in [Stops -> {"idle", "join", "restore", "answer"}]
  BY BoundsAssumption DEF Typed, Sweeps
<1>2. ASSUME NEW r \in Stops, NEW here, NEW there, Stopping(r, here, there)
      PROVE  stop[r] = here /\ stop'[r] = there /\ \A q \in Stops \ {r} : stop'[q] = stop[q]
  BY <1>1, <1>2 DEF Stopping
<1>3. CASE Start
  <2>1. ~running /\ thread' = thread + 1 /\ running' = TRUE /\ stop' = stop
        /\ pc' = [pc EXCEPT ![thread'] = "begin"]
        /\ raced' = (raced \/ \E r \in Stops : stop[r] # "idle")
    BY <1>3 DEF Start, Goto
  <2>2. thread' \in Sweeps /\ thread' # 0
    BY <1>1, <1>3, <2>1, BoundsAssumption DEF Start, Sweeps
  <2>3. pc'[thread'] = "begin" /\ \A x \in Sweeps \ {thread'} : pc'[x] = pc[x]
    BY <1>1, <2>1, <2>2
  <2>4. \A x \in Sweeps : pc'[x] = "new" <=> x > thread'
    BY <1>1, <2>1, <2>2, <2>3 DEF SweepInv
  <2>5. ~raced' => ~raced /\ \A r \in Stops : stop[r] = "idle"
    BY <2>1
  <2>6. ~raced => \A x \in Sweeps : ~Alive(x)
    BY <2>1 DEF SweepInv, OneSweep
  <2>7. ~raced' => \A x \in Sweeps : Alive(x)' => x = thread' /\ running'
    BY <2>1, <2>3, <2>5, <2>6 DEF Alive
  <2> QED
    BY <2>1, <2>2, <2>4, <2>5, <2>7 DEF SweepInv, OneSweep
<1>4. ASSUME NEW r \in Stops, Stop(r) PROVE SweepInv'
  <2>1. running /\ stop[r] = "idle" /\ stop'[r] = "join" /\ UNCHANGED <<running, thread, pc, raced>>
        /\ \A q \in Stops \ {r} : stop'[q] = stop[q]
    BY <1>2, <1>4 DEF Stop
  <2> QED
    BY <2>1 DEF SweepInv, OneSweep, Alive
<1>5. ASSUME NEW r \in Stops, Join(r) PROVE SweepInv'
  <2>1. stop[r] = "join" /\ UNCHANGED <<running, thread, pc>> /\ raced' = (raced \/ Alive(thread))
    BY <1>2, <1>5 DEF Join
  <2>2. thread # 0
    BY <2>1 DEF SweepInv
  <2>3. \A x \in Sweeps : Alive(x)' <=> Alive(x)
    BY <2>1 DEF Alive
  <2>4. ~raced' => ~raced /\ \A x \in Sweeps : ~Alive(x)
    BY <2>1 DEF SweepInv, OneSweep
  <2> QED
    BY <2>1, <2>2, <2>3, <2>4 DEF SweepInv, OneSweep
<1>6. ASSUME NEW r \in Stops, StopRestore(r) \/ Answer(r) PROVE SweepInv'
  <2>1. stop[r] \in {"restore", "answer"} /\ UNCHANGED <<thread, pc, raced>> /\ (running' => running)
        /\ (stop'[r] # "idle" => running' = running)
        /\ \A q \in Stops \ {r} : stop'[q] = stop[q]
    BY <1>2, <1>6 DEF StopRestore, Answer
  <2>2. thread # 0 /\ (~raced => \A x \in Sweeps : ~Alive(x))
    BY <2>1 DEF SweepInv
  <2>3. \A x \in Sweeps : Alive(x)' <=> Alive(x)
    BY <2>1 DEF Alive
  <2> QED
    BY <2>1, <2>2, <2>3 DEF SweepInv, OneSweep
<1>7. ASSUME NEW s \in Sweeps, Step(s) PROVE SweepInv'
  <2>1. /\ Alive(s) /\ pc'[s] # "new" /\ \A x \in Sweeps \ {s} : pc'[x] = pc[x]
        /\ UNCHANGED <<thread, stop, raced>>
        /\ \/ running' = running /\ pc'[s] # "over"
           \/ running' = FALSE /\ pc'[s] = "over"
    BY <1>7, ThreadMoves
  <2>2. \A x \in Sweeps : pc'[x] = "new" <=> pc[x] = "new"
    BY <2>1 DEF Alive
  <2>3. \A x \in Sweeps : Alive(x)' => Alive(x)
    BY <2>1 DEF Alive
  <2>4. ~raced => s = thread /\ (running' = FALSE => \A x \in Sweeps : ~Alive(x)')
    BY <2>1 DEF SweepInv, OneSweep, Alive
  <2>5. running \in BOOLEAN
    BY DEF Typed, Flags
  <2>6. OneSweep'
    BY <2>1, <2>3, <2>4, <2>5 DEF SweepInv, OneSweep
  <2> QED
    BY <2>1, <2>2, <2>3, <2>6 DEF SweepInv
<1>8. CASE OtherBegin \/ OtherEnd \/ Watchdog \/ UNCHANGED vars
  <2>1. UNCHANGED <<running, thread, pc, stop, raced>>
    BY <1>8 DEF OtherBegin, OtherEnd, Watchdog, vars
  <2> QED
    BY <2>1 DEF SweepInv, OneSweep, Alive
<1> QED
  BY <1>3, <1>4, <1>5, <1>6, <1>7, <1>8 DEF Next

-----------------------------------------------------------------------------
(* One workload after a stop.                                              *)

(* A told sweep that has launched one is past the place where it would     *)
(* launch another, and the cancel event keeps it from coming back there.   *)
LateInv ==
  /\ told => cancel
  /\ \A s \in Sweeps : late[s] # 0 => told /\ late[s] = 1 /\ pc[s] # "launch"

(* No workload has run.                                                    *)
LEMMA LateInit == Init => LateInv
BY DEF Init, LateInv

(* Every step keeps it: only Launch counts, and only Rep leads there.      *)
LEMMA LateStep == Typed /\ LateInv /\ [Next]_vars => LateInv'
<1> SUFFICES ASSUME Typed, LateInv, [Next]_vars PROVE LateInv'
  OBVIOUS
<1> USE DEF state, history
<1>1. CASE Start \/ \E r \in Stops : Stop(r)
  BY <1>1 DEF Start, Stop, LateInv
<1>2. ASSUME UNCHANGED <<told, cancel, pc, late>> PROVE LateInv'
  BY <1>2 DEF LateInv
<1>3. CASE \E r \in Stops : Join(r) \/ StopRestore(r) \/ Answer(r)
  BY <1>2, <1>3 DEF Join, StopRestore, Answer
<1>4. CASE OtherBegin \/ OtherEnd \/ Watchdog \/ UNCHANGED vars
  BY <1>2, <1>4 DEF OtherBegin, OtherEnd, Watchdog, vars
<1>5. ASSUME NEW s \in Sweeps, Step(s) PROVE LateInv'
  <2>1. /\ \A x \in Sweeps \ {s} : pc'[x] = pc[x]
        /\ UNCHANGED <<told, cancel>>
    BY <1>5, ThreadMoves
  <2>2. pc \in [Sweeps -> Places] /\ late \in [Sweeps -> Nat]
    BY DEF Typed
  <2>3. CASE Launch(s)
    <3>1. pc[s] = "launch" /\ pc'[s] = "running"
          /\ late' = IF told THEN [late EXCEPT ![s] = @ + 1] ELSE late
      BY <2>2, <2>3 DEF Launch, Goto
    <3>2. late[s] = 0
      BY <3>1 DEF LateInv
    <3> QED
      BY <2>1, <2>2, <3>1, <3>2 DEF LateInv
  <2>4. CASE Rep(s)
    <3>1. late' = late /\ (pc'[s] = "launch" => ~cancel)
      BY <2>2, <2>4 DEF Rep, Goto
    <3> QED
      BY <2>1, <3>1 DEF LateInv
  <2>5. CASE Begin(s) \/ Class(s) \/ Point(s) \/ Apply(s)
    <3>1. late' = late /\ pc'[s] # "launch"
      BY <2>2, <2>5 DEF Begin, Class, Point, Apply, Settle, Goto
    <3> QED
      BY <2>1, <3>1 DEF LateInv
  <2>6. CASE Ended(s) \/ Fail(s) \/ Record(s) \/ Restore(s) \/ End(s) \/ Close(s)
    <3>1. late' = late /\ pc'[s] # "launch"
      BY <2>2, <2>6 DEF Ended, Fail, Record, Restore, End, Close, Goto
    <3> QED
      BY <2>1, <3>1 DEF LateInv
  <2> QED
    BY <1>5, <2>3, <2>4, <2>5, <2>6 DEF Step
<1> QED
  BY <1>1, <1>3, <1>4, <1>5 DEF Next

-----------------------------------------------------------------------------
(* The helper is left as it was found.                                     *)

(* While its settings are not the user's it keeps the user's, and a sweep  *)
(* that has still to restore is alive; while the lease is taken, somebody  *)
(* who will give it back is at work.                                       *)
Owing(s) == pc[s] \in Sweeping \cup {"restore"}

HelperInv ==
  (~broken /\ ~lost) =>
    /\ kept \subseteq {Stock} /\ (kept = {} => hw = Stock)
    /\ kept # {} => \E s \in Sweeps : Owing(s)
    /\ lease => other \/ \E s \in Sweeps : Owing(s) \/ pc[s] = "end"

(* Nothing is kept, and the lease is free.                                 *)
LEMMA HelperInit == Init => HelperInv
BY DEF Init, HelperInv

(* What the calls leave when they neither throw nor lose anything.         *)
Kept == ~lost /\ kept \subseteq {Stock} /\ (kept = {} => hw = Stock)

(* Every call keeps it, and what it does to the original and the lease.    *)
LEMMA CallsKeep ==
  ASSUME ~lost => Kept, ~lost'
  PROVE  /\ RestoreOp => Kept' /\ kept' = {} /\ (lease' => kept = {} /\ lease)
         /\ EndOp => Kept' /\ kept' = kept /\ ~lease'
         /\ H!Open => Kept' /\ kept' = kept
         /\ H!Apply => Kept' /\ lease /\ (kept' # {})
         /\ UNCHANGED helper => Kept' /\ kept' = kept /\ lease' = lease
<1>1. ASSUME RestoreOp PROVE Kept' /\ kept' = {} /\ (lease' => kept = {} /\ lease)
  <2>1. CASE hw' \in kept /\ lost' = lost /\ H!Release
    BY <2>1 DEF H!Release, Kept
  <2>2. CASE kept = {} /\ UNCHANGED helper
    BY <2>2 DEF helper, Kept
  <2> QED
    BY <1>1, <2>1, <2>2 DEF RestoreOp
<1>2. ASSUME EndOp PROVE Kept' /\ kept' = kept /\ ~lease'
  BY <1>2 DEF EndOp, H!Drop, Kept, helper
<1>3. ASSUME H!Open PROVE Kept' /\ kept' = kept
  BY <1>3 DEF H!Open, Kept
<1>4. ASSUME H!Apply PROVE Kept' /\ lease /\ kept' # {}
  BY <1>4 DEF H!Apply, Kept
<1>5. ASSUME UNCHANGED helper PROVE Kept' /\ kept' = kept /\ lease' = lease
  BY <1>5 DEF helper, Kept
<1> QED
  BY <1>1, <1>2, <1>3, <1>4, <1>5

(* Every step keeps it: an apply leaves its sweep owing a restoration.     *)
LEMMA HelperStep == Typed /\ HelperInv /\ [Next]_vars => HelperInv'
<1> SUFFICES ASSUME Typed, HelperInv, [Next]_vars, ~broken', ~lost'
             PROVE  /\ Kept'
                    /\ (kept # {})' => \E s \in Sweeps : Owing(s)'
                    /\ lease' => other' \/ \E s \in Sweeps : (Owing(s) \/ pc[s] = "end")'
  BY DEF HelperInv, Kept
<1> USE DEF state, history
<1> DEFINE Work == \E s \in Sweeps : Owing(s)
           Open == \E s \in Sweeps : Owing(s) \/ pc[s] = "end"
           Good == /\ Kept'
                   /\ (kept # {})' => Work'
                   /\ lease' => other' \/ Open'
<1> SUFFICES Good
  OBVIOUS
<1>1. ~broken => /\ ~lost => Kept
                 /\ ~lost => (kept # {} => Work)
                 /\ ~lost => (lease => other \/ Open)
  BY DEF HelperInv, Kept
<1>2. Work => Open
  OBVIOUS
<1>3. ASSUME UNCHANGED <<helper, pc, broken, other>> PROVE Good
  BY <1>1, <1>3, CallsKeep DEF Owing, helper
<1>4. CASE Start
  <2>1. UNCHANGED <<helper, other, broken>> /\ pc' = [pc EXCEPT ![thread'] = "begin"] /\ pc[thread'] = "new"
    BY <1>4 DEF Start, Goto
  <2>2. \A s \in Sweeps : (Owing(s) \/ pc[s] = "end") => pc'[s] = pc[s]
    BY <2>1 DEF Typed, Owing, Sweeping
  <2>3. (Work => Work') /\ (Open => Open')
    BY <2>2 DEF Owing
  <2> QED
    BY <1>1, <2>1, <2>3, CallsKeep DEF helper
<1>5. ASSUME NEW r \in Stops, Stop(r) \/ Join(r) \/ Answer(r) PROVE Good
  BY <1>3, <1>5 DEF Stop, Join, Answer
<1>6. ASSUME NEW r \in Stops, StopRestore(r) PROVE Good
  <2>1. ~broken /\ RestoreOp /\ UNCHANGED <<pc, other>>
    BY <1>6 DEF StopRestore, Call
  <2>2. Open => Open'
    BY <2>1 DEF Owing
  <2> HIDE DEF Work, Open
  <2>3. Kept' /\ kept' = {} /\ (lease' => lease)
    BY <1>1, <2>1, CallsKeep
  <2>4. ~lost
    BY <2>1 DEF RestoreOp, H!Release, helper
  <2> QED
    BY <1>1, <2>1, <2>2, <2>3, <2>4
<1>7. ASSUME NEW s \in Sweeps, Step(s) PROVE Good
  <2>1. other' = other /\ \A x \in Sweeps \ {s} : pc'[x] = pc[x]
    BY <1>7, ThreadMoves
  <2>2. pc \in [Sweeps -> Places]
    BY DEF Typed
  <2>3. ASSUME ~broken, UNCHANGED helper, ~Owing(s) \/ Owing(s)', pc[s] # "end"
        PROVE  Good
    <3>1. (Work => Work') /\ (Open => Open')
      BY <2>1, <2>3 DEF Owing
    <3>2. ~lost /\ Kept' /\ kept' = kept /\ lease' = lease
      BY <1>1, <2>3, CallsKeep DEF helper
    <3> HIDE DEF Work, Open
    <3> QED
      BY <1>1, <2>1, <2>3, <3>1, <3>2
  <2>4. CASE Begin(s)
    <3>1. Owing(s)' /\ ~broken /\ (H!Open \/ UNCHANGED helper)
      BY <2>2, <2>4 DEF Begin, Call, Goto, Owing, Sweeping
    <3> QED
      BY <1>1, <3>1, CallsKeep
  <2>5. CASE Class(s) \/ Point(s) \/ Rep(s)
    <3>1. UNCHANGED <<helper, broken>> /\ Owing(s)' /\ pc[s] # "end"
      BY <2>2, <2>5 DEF Class, Point, Rep, Goto, Owing, Sweeping
    <3> QED
      BY <2>3, <3>1
  <2>6. CASE Apply(s)
    <3>1. Owing(s)' /\ ~broken /\ (H!Apply \/ UNCHANGED helper)
      BY <2>2, <2>6 DEF Apply, Settle, Goto, Owing, Sweeping
    <3> QED
      BY <1>1, <3>1, CallsKeep
  <2>7. CASE Launch(s) \/ Ended(s) \/ Fail(s) \/ Record(s)
    <3>1. UNCHANGED <<helper, broken>> /\ Owing(s)' /\ pc[s] # "end"
      BY <2>2, <2>7 DEF Launch, Ended, Fail, Record, Goto, Owing, Sweeping
    <3> QED
      BY <2>3, <3>1
  <2>8. CASE Restore(s)
    <3>1. ~broken /\ RestoreOp /\ pc'[s] = "end"
      BY <2>2, <2>8 DEF Restore, Goto
    <3> QED
      BY <1>1, <3>1, CallsKeep
  <2>9. CASE End(s)
    <3>1. ~broken /\ EndOp /\ pc[s] = "end"
      BY <2>2, <2>9 DEF End, Call, Goto
    <3>2. Work => Work'
      BY <2>1, <3>1 DEF Owing, Sweeping
    <3>3. ~lost
      BY <3>1 DEF EndOp, H!Drop, helper
    <3> HIDE DEF Work, Open
    <3> QED
      BY <1>1, <3>1, <3>2, <3>3, CallsKeep
  <2>10. CASE Close(s)
    <3>1. UNCHANGED <<helper, broken>> /\ pc[s] = "close"
      BY <2>2, <2>10 DEF Close, Goto
    <3> QED
      BY <2>3, <3>1 DEF Owing, Sweeping
  <2> QED
    BY <1>7, <2>4, <2>5, <2>6, <2>7, <2>8, <2>9, <2>10 DEF Step
<1>8. CASE OtherBegin
  <2>1. H!Open /\ other' /\ UNCHANGED <<pc, broken>>
    BY <1>8 DEF OtherBegin
  <2>2. Work => Work'
    BY <2>1 DEF Owing
  <2>3. ~lost
    BY <2>1 DEF H!Open
  <2> HIDE DEF Work, Open
  <2> QED
    BY <1>1, <2>1, <2>2, <2>3, CallsKeep
<1>9. CASE OtherEnd \/ Watchdog
  <2>1. (kept # {} /\ RestoreOp) \/ (kept = {} /\ EndOp)
    BY <1>9 DEF OtherEnd, Watchdog
  <2>2. ~broken
    BY <1>9 DEF OtherEnd, Watchdog
  <2>3. kept' = {} /\ Kept' /\ ~lease'
    BY <1>1, <2>1, <2>2, CallsKeep
  <2> QED
    BY <2>3
<1>10. CASE UNCHANGED vars
  BY <1>3, <1>10 DEF vars
<1> QED
  BY <1>4, <1>5, <1>6, <1>7, <1>8, <1>9, <1>10 DEF Next

-----------------------------------------------------------------------------
(* Where in the sweep a thread is.                                         *)

Measuring == {"rep", "launch", "running", "record"}

SpotInv ==
  \A s \in Sweeps :
    /\ pc[s] \in {"new", "begin"} => at[s] = First
    /\ pc[s] = "class" => at[s].class \in 1..(Len(Layout) + 1) /\ at[s].control = 0 /\ at[s].rep = 1
    /\ pc[s] \in {"point", "apply"} =>
         at[s].class \in Classes /\ at[s].control <= Caps + 1 /\ at[s].rep = 1
    /\ pc[s] = "apply" => at[s].control <= Caps
    /\ pc[s] \in Measuring =>
         at[s].class \in Classes /\ at[s].control <= Caps /\ at[s].rep <= Reps + 1
    /\ pc[s] \in {"launch", "running", "record"} => at[s].rep <= Reps

(* Every sweep is to begin with the first spot.                            *)
LEMMA SpotInit == Init => SpotInv
BY DEF Init, SpotInv, Measuring

(* The fields of the spots a thread moves to.                              *)
LEMMA NextSpots ==
  ASSUME Typed, NEW s \in Sweeps
  PROVE  /\ at[s].class \in Nat \ {0} /\ at[s].control \in Nat /\ at[s].rep \in Nat \ {0}
         /\ Move(s, NextClass(s)) =>
              at'[s].class = at[s].class + 1 /\ at'[s].control = 0 /\ at'[s].rep = 1
         /\ Move(s, NextPoint(s)) =>
              at'[s].class = at[s].class /\ at'[s].control = at[s].control + 1 /\ at'[s].rep = 1
         /\ Move(s, [at[s] EXCEPT !.rep = @ + 1]) =>
              at'[s].class = at[s].class /\ at'[s].control = at[s].control /\ at'[s].rep = at[s].rep + 1
         /\ \A to : Move(s, to) => \A x \in Sweeps \ {s} : at'[x] = at[x]
<1>1. at[s] \in Spots /\ at \in [Sweeps -> Spots]
  BY DEF Typed
<1>2. \A to : Move(s, to) => at'[s] = to /\ \A x \in Sweeps \ {s} : at'[x] = at[x]
  BY <1>1 DEF Move
<1>3. at[s].class \in Nat \ {0} /\ at[s].control \in Nat /\ at[s].rep \in Nat \ {0}
  BY <1>1 DEF Spots
<1>4. [at[s] EXCEPT !.rep = @ + 1].class = at[s].class
      /\ [at[s] EXCEPT !.rep = @ + 1].control = at[s].control
      /\ [at[s] EXCEPT !.rep = @ + 1].rep = at[s].rep + 1
  BY <1>1 DEF Spots
<1>5. Move(s, [at[s] EXCEPT !.rep = @ + 1]) => at'[s] = [at[s] EXCEPT !.rep = @ + 1]
  BY <1>2
<1>6. Move(s, NextClass(s)) => at'[s] = [class |-> at[s].class + 1, control |-> 0, rep |-> 1]
  BY <1>2 DEF NextClass
<1>7. Move(s, NextPoint(s)) => at'[s] = [class |-> at[s].class, control |-> at[s].control + 1, rep |-> 1]
  BY <1>2 DEF NextPoint
<1>8. Move(s, [at[s] EXCEPT !.rep = @ + 1]) =>
        at'[s].class = at[s].class /\ at'[s].control = at[s].control /\ at'[s].rep = at[s].rep + 1
  BY ONLY <1>4, <1>5, Zenon
<1>9. \A to : Move(s, to) => \A x \in Sweeps \ {s} : at'[x] = at[x]
  BY <1>2
<1>10. Move(s, NextClass(s)) =>
         at'[s].class = at[s].class + 1 /\ at'[s].control = 0 /\ at'[s].rep = 1
  BY <1>6
<1>11. Move(s, NextPoint(s)) =>
         at'[s].class = at[s].class /\ at'[s].control = at[s].control + 1 /\ at'[s].rep = 1
  BY <1>7
<1> QED
  BY <1>3, <1>8, <1>9, <1>10, <1>11

(* Where a step of a thread takes it, and its spot.                        *)
LEMMA SpotMoves ==
  ASSUME Typed, SpotInv, NEW s \in Sweeps, Step(s)
  PROVE  SpotInv' /\ \A x \in Sweeps \ {s} : at'[x] = at[x]
<1> USE DEF state, history
<1>1. pc \in [Sweeps -> Places] /\ \A x \in Sweeps \ {s} : pc'[x] = pc[x]
  BY ThreadMoves DEF Typed
<1>2. Caps \in Nat /\ Reps \in Nat \ {0} /\ Len(Layout) \in Nat \ {0}
  BY BoundsAssumption
<1>3. at[s].class \in Nat \ {0} /\ at[s].control \in Nat /\ at[s].rep \in Nat \ {0}
  BY NextSpots
<1> DEFINE Here(x) ==
      /\ pc[x] \in {"new", "begin"} => at[x] = First
      /\ pc[x] = "class" => at[x].class \in 1..(Len(Layout) + 1) /\ at[x].control = 0 /\ at[x].rep = 1
      /\ pc[x] \in {"point", "apply"} =>
           at[x].class \in Classes /\ at[x].control <= Caps + 1 /\ at[x].rep = 1
      /\ pc[x] = "apply" => at[x].control <= Caps
      /\ pc[x] \in Measuring =>
           at[x].class \in Classes /\ at[x].control <= Caps /\ at[x].rep <= Reps + 1
      /\ pc[x] \in {"launch", "running", "record"} => at[x].rep <= Reps
<1>4. \A x \in Sweeps : Here(x)
  BY DEF SpotInv, Here
<1> HIDE DEF Here
<1>5. Move(s, NextClass(s)) =>
        at'[s].class = at[s].class + 1 /\ at'[s].control = 0 /\ at'[s].rep = 1
  BY NextSpots
<1>6. Move(s, NextPoint(s)) =>
        at'[s].class = at[s].class /\ at'[s].control = at[s].control + 1 /\ at'[s].rep = 1
  BY NextSpots
<1>7. \A x \in Sweeps \ {s} : at'[x] = at[x]
  <2>1. \A to : Move(s, to) => \A x \in Sweeps \ {s} : at'[x] = at[x]
    BY NextSpots
  <2>2. at' = at \/ \E to : Move(s, to)
    BY DEF Step, Begin, Class, Point, Apply, Settle, Rep, Launch, Ended, Fail, Record, Restore, End, Close
  <2> QED
    BY <2>1, <2>2
<1>8. SUFFICES Here(s)'
  <2>1. \A x \in Sweeps \ {s} : Here(x)'
    BY <1>1, <1>4, <1>7 DEF Here
  <2> QED
    BY <1>7, <2>1 DEF SpotInv, Here
<1>9. CASE Begin(s)
  <2>1. pc[s] = "begin" /\ pc'[s] = "class" /\ at' = at
    BY <1>1, <1>9 DEF Begin, Goto
  <2> QED
    BY <1>2, <1>4, <2>1 DEF Here, First, Measuring
<1>10. CASE Class(s)
  <2>1. pc[s] = "class" /\ at' = at /\ (\/ pc'[s] = "restore"
                                        \/ pc'[s] = "point" /\ at[s].class \in Classes)
    BY <1>1, <1>10 DEF Class, Goto
  <2>2. at[s].control = 0 /\ at[s].rep = 1
    BY <1>4, <2>1 DEF Here
  <2> QED
    BY <1>2, <2>1, <2>2 DEF Here, Measuring
<1>11. CASE Point(s)
  <2>1. pc[s] = "point" /\ (\/ pc'[s] = "apply" /\ at' = at /\ at[s].control <= Caps
                            \/ pc'[s] = "class" /\ Move(s, NextClass(s)))
    BY <1>1, <1>11 DEF Point, Goto
  <2>2. at[s].class \in Classes /\ at[s].rep = 1
    BY <1>4, <2>1 DEF Here
  <2>3. CASE pc'[s] = "apply" /\ at' = at /\ at[s].control <= Caps
    BY <1>2, <1>3, <2>2, <2>3 DEF Here, Measuring
  <2>4. CASE pc'[s] = "class" /\ Move(s, NextClass(s))
    <3>1. at[s].class + 1 \in 1..(Len(Layout) + 1)
      BY <1>2, <1>3, <2>2 DEF Classes
    <3> QED
      BY <1>2, <1>5, <2>4, <3>1 DEF Here, Measuring
  <2> QED
    BY <2>1, <2>3, <2>4
<1>12. CASE Apply(s)
  <2>1. pc[s] = "apply" /\ (\/ pc'[s] = "rep" /\ at' = at
                            \/ pc'[s] = "class" /\ Move(s, NextClass(s)))
    BY <1>1, <1>12 DEF Apply, Settle, Goto
  <2>2. at[s].class \in Classes /\ at[s].rep = 1 /\ at[s].control <= Caps
    BY <1>4, <2>1 DEF Here
  <2>3. CASE pc'[s] = "rep" /\ at' = at
    BY <1>2, <1>3, <2>2, <2>3 DEF Here, Measuring
  <2>4. CASE pc'[s] = "class" /\ Move(s, NextClass(s))
    <3>1. at[s].class + 1 \in 1..(Len(Layout) + 1)
      BY <1>2, <1>3, <2>2 DEF Classes
    <3> QED
      BY <1>2, <1>5, <2>4, <3>1 DEF Here, Measuring
  <2> QED
    BY <2>1, <2>3, <2>4
<1>13. CASE Rep(s)
  <2>1. pc[s] = "rep" /\ (\/ pc'[s] = "launch" /\ at' = at /\ at[s].rep <= Reps
                          \/ pc'[s] = "point" /\ Move(s, NextPoint(s)))
    BY <1>1, <1>13 DEF Rep, Goto
  <2>2. at[s].class \in Classes /\ at[s].control <= Caps
    BY <1>4, <2>1 DEF Here, Measuring
  <2>3. CASE pc'[s] = "launch" /\ at' = at /\ at[s].rep <= Reps
    BY <1>2, <1>3, <2>2, <2>3 DEF Here, Measuring
  <2>4. CASE pc'[s] = "point" /\ Move(s, NextPoint(s))
    BY <1>2, <1>6, <1>3, <2>2, <2>4 DEF Here, Measuring
  <2> QED
    BY <2>1, <2>3, <2>4
<1>14. CASE Launch(s) \/ Ended(s) \/ Fail(s)
  <2>1. pc[s] \in {"launch", "running", "record"} /\ at' = at
        /\ pc'[s] \in {"running", "record", "restore"}
    BY <1>1, <1>14 DEF Launch, Ended, Fail, Goto
  <2> QED
    BY <1>2, <1>4, <2>1 DEF Here, Measuring
<1>15. CASE Record(s)
  <2>1. pc[s] = "record" /\ (\/ pc'[s] = "rep" /\ Move(s, [at[s] EXCEPT !.rep = @ + 1])
                             \/ pc'[s] = "point" /\ Move(s, NextPoint(s)))
    BY <1>1, <1>15 DEF Record, Goto
  <2>2. at[s].class \in Classes /\ at[s].control <= Caps /\ at[s].rep <= Reps
    BY <1>4, <2>1 DEF Here, Measuring
  <2>3. CASE pc'[s] = "rep" /\ Move(s, [at[s] EXCEPT !.rep = @ + 1])
    <3>1. at'[s].class = at[s].class /\ at'[s].control = at[s].control /\ at'[s].rep = at[s].rep + 1
      BY <2>3, NextSpots
    <3> QED
      BY <1>2, <1>3, <2>2, <2>3, <3>1 DEF Here, Measuring
  <2>4. CASE pc'[s] = "point" /\ Move(s, NextPoint(s))
    BY <1>2, <1>6, <1>3, <2>2, <2>4 DEF Here, Measuring
  <2> QED
    BY <2>1, <2>3, <2>4
<1>16. CASE Restore(s) \/ End(s) \/ Close(s)
  <2>1. at' = at /\ pc'[s] \in {"end", "close", "over"}
    BY <1>1, <1>16 DEF Restore, End, Close, Goto
  <2> QED
    BY <2>1 DEF Here, Measuring
<1> QED
  BY <1>9, <1>10, <1>11, <1>12, <1>13, <1>14, <1>15, <1>16 DEF Step

(* Every step keeps it.                                                    *)
LEMMA SpotStep == Typed /\ SweepInv /\ SpotInv /\ [Next]_vars => SpotInv'
<1> SUFFICES ASSUME Typed, SweepInv, SpotInv, [Next]_vars PROVE SpotInv'
  OBVIOUS
<1> USE DEF state, history
<1>1. ASSUME UNCHANGED <<pc, at>> PROVE SpotInv'
  BY <1>1 DEF SpotInv
<1>2. CASE Start
  <2>1. at' = at /\ pc[thread'] = "new" /\ pc' = [pc EXCEPT ![thread'] = "begin"] /\ pc \in [Sweeps -> Places]
    BY <1>2 DEF Start, Goto, Typed
  <2>2. \A x \in Sweeps : pc'[x] = pc[x] \/ (pc[x] = "new" /\ pc'[x] = "begin")
    BY <2>1
  <2> QED
    BY <2>1, <2>2 DEF SpotInv, Measuring
<1>3. CASE \E r \in Stops : Stop(r) \/ Join(r) \/ StopRestore(r) \/ Answer(r)
  BY <1>1, <1>3 DEF Stop, Join, StopRestore, Answer
<1>4. CASE OtherBegin \/ OtherEnd \/ Watchdog \/ UNCHANGED vars
  BY <1>1, <1>4 DEF OtherBegin, OtherEnd, Watchdog, vars
<1>5. CASE \E s \in Sweeps : Step(s)
  BY <1>5, SpotMoves
<1> QED
  BY <1>2, <1>3, <1>4, <1>5 DEF Next

-----------------------------------------------------------------------------
(* A workload runs under what the applies of its sweep come to.            *)

(* What the caps are before control n of class k is applied.               *)
Found(k, n) ==
  IF n > 0 THEN Left(k, n - 1)
  ELSE IF k = 1 THEN Stock.cap ELSE Left(k - 1, Caps)

(* Until a sweep is told to stop it goes from spot to spot without leaving *)
(* any out; a workload's settings stay what its point's apply came to.     *)
Due(s) ==
  (pc[s] \in {"begin", "class", "point", "apply"} /\ ~cancel) =>
    hw.cap = Found(at[s].class, at[s].control)

Applied(s) ==
  pc[s] \in Measuring =>
    hw = [boost |-> at[s].control = 0, cap |-> Left(at[s].class, at[s].control)]

(* Nobody else restored, no two sweeps live, and nothing was lost.         *)
Sound == ~disturbed /\ ~raced /\ ~broken /\ ~lost

LabelInv ==
  /\ hw \in Settings
  /\ Sound => \A s \in Sweeps : Due(s) /\ Applied(s)

(* The settings are the user's.                                            *)
LEMMA LabelInit == Init => LabelInv
<1>1. Stock \in Settings
  BY BoundsAssumption DEF Stock, Settings
<1>2. Init => \A s \in Sweeps : Due(s) /\ Applied(s)
  BY DEF Init, Due, Applied, Measuring
<1> QED
  BY <1>1, <1>2 DEF Init, LabelInv

(* The first spot finds the user's caps; the next class finds what the     *)
(* last control of the class before left, the next control what the one    *)
(* before it left.                                                         *)
LEMMA FoundNext ==
  ASSUME NEW k \in Nat \ {0}, NEW n \in Nat
  PROVE  /\ Found(1, 0) = Stock.cap
         /\ Found(k + 1, 0) = Left(k, Caps)
         /\ Found(k, n + 1) = Left(k, n)
<1>1. k + 1 # 1 /\ (k + 1) - 1 = k /\ n + 1 > 0 /\ (n + 1) - 1 = n /\ ~(0 > 0)
  OBVIOUS
<1> QED
  BY <1>1, Zenon DEF Found

(* The classes before a class are the one before it and those before that. *)
LEMMA EarlierSplits ==
  ASSUME NEW k \in Nat \ {0, 1}
  PROVE  Earlier(k) = Earlier(k - 1) \cup Layout[k - 1]
<1>1. \A j : j \in 1..(k - 1) <=> j \in 1..((k - 1) - 1) \/ j = k - 1
  OBVIOUS
<1>2. \A c : c \in Earlier(k) <=> \E j \in 1..(k - 1) : c \in Layout[j]
  BY Zenon DEF Earlier
<1>3. \A c : c \in Earlier(k - 1) <=> \E j \in 1..((k - 1) - 1) : c \in Layout[j]
  BY Zenon DEF Earlier
<1>4. \A c : c \in Earlier(k) <=> c \in Earlier(k - 1) \/ c \in Layout[k - 1]
  BY ONLY <1>1, <1>2, <1>3, Zenon
<1> QED
  BY <1>4, Zenon

(* What a point's request makes of the caps it finds.                      *)
LEMMA RequestLeaves ==
  ASSUME Typed, hw \in Settings, NEW s \in Sweeps, Request(s), at[s].class \in Classes,
         hw.cap = Found(at[s].class, at[s].control)
  PROVE  hw' = [boost |-> at[s].control = 0, cap |-> Left(at[s].class, at[s].control)]
<1> DEFINE k == at[s].class
           n == at[s].control
<1>1. k \in Nat \ {0} /\ n \in Nat
  BY NextSpots
<1>2. Caps \in Nat \ {0}
  BY BoundsAssumption
<1>3. hw.cap = Found(k, n) /\ (n = 0 => hw' = Boosted) /\ (n # 0 => hw' = Capped(k, n))
  BY DEF Request
<1>4. hw = [boost |-> hw.boost, cap |-> hw.cap]
  BY DEF Settings
<1> HIDE DEF k, n
<1>5. CASE n = 0
  <2>1. Found(k, n) = Left(k, n)
    <3>1. CASE k = 1
      <4>1. Earlier(1) = {}
        BY DEF Earlier
      <4> QED
        BY <1>5, <3>1, <4>1 DEF Found, Left, Stock
    <3>2. CASE k # 1
      <4>1. Earlier(k) = Earlier(k - 1) \cup Layout[k - 1] /\ k - 1 \in Nat /\ ~(0 > 0)
        BY <1>1, <3>2, EarlierSplits
      <4>2. Found(k, n) = Left(k - 1, Caps)
        BY <1>5, <3>2, <4>1 DEF Found
      <4>3. \A c \in Cpus : Left(k - 1, Caps)[c] = Left(k, n)[c]
        BY <1>2, <1>5, <3>2, <4>1 DEF Left
      <4>4. Left(k - 1, Caps) = Left(k, n)
        BY <4>3 DEF Left
      <4> QED
        BY <4>2, <4>4
    <3> QED
      BY <3>1, <3>2
  <2>2. hw' = [boost |-> TRUE, cap |-> hw.cap]
    BY <1>3, <1>4, <1>5 DEF Boosted
  <2> QED
    BY <1>3, <1>5, <2>1, <2>2 DEF k, n
<1>6. CASE n # 0
  <2>1. hw.cap = Left(k, n - 1) /\ n > 0 /\ n - 1 \in Nat
    BY <1>1, <1>3, <1>6 DEF Found
  <2>2. \A c \in Cpus : Capped(k, n).cap[c] = Left(k, n)[c]
    <3> SUFFICES ASSUME NEW c \in Cpus PROVE Capped(k, n).cap[c] = Left(k, n)[c]
      OBVIOUS
    <3>1. Capped(k, n).cap[c] = IF c \in Layout[k] THEN n ELSE IF hw.cap[c] = 0 THEN 1 ELSE hw.cap[c]
      BY DEF Capped, Unboosted
    <3>2. Left(k, n)[c] = IF c \in Layout[k] THEN n ELSE IF c \in Earlier(k) THEN Caps ELSE 1
      BY <2>1 DEF Left
    <3>3. c \notin Layout[k] =>
            hw.cap[c] = IF c \in Earlier(k) THEN Caps
                        ELSE IF n - 1 = 0 /\ k = 1 THEN 0 ELSE 1
      BY <2>1 DEF Left
    <3> QED
      BY <1>2, <3>1, <3>2, <3>3
  <2>3. Capped(k, n).cap = Left(k, n)
    BY <2>2 DEF Capped, Left
  <2>4. Capped(k, n) = [boost |-> FALSE, cap |-> Capped(k, n).cap]
    BY DEF Capped
  <2> QED
    BY <1>3, <1>6, <2>3, <2>4 DEF k, n
<1> QED
  BY <1>5, <1>6

(* Every step keeps it.                                                    *)
LEMMA LabelStep ==
  Typed /\ SweepInv /\ HelperInv /\ SpotInv /\ LabelInv /\ [Next]_vars => LabelInv'
<1> SUFFICES ASSUME Typed, SweepInv, HelperInv, SpotInv, LabelInv, [Next]_vars PROVE LabelInv'
  OBVIOUS
<1> USE DEF state, history
<1>1. pc \in [Sweeps -> Places] /\ hw \in Settings
  BY DEF Typed, LabelInv
<1>2. ASSUME RestoreOp \/ EndOp \/ H!Open \/ H!Apply \/ UNCHANGED helper
      PROVE  hw' \in Settings /\ (~lost' => ~lost)
  <2>1. lost \in BOOLEAN
    BY DEF Typed, Flags
  <2>2. CASE RestoreOp
    BY <1>1, <2>1, <2>2 DEF RestoreOp, H!Release, helper
  <2>3. CASE EndOp \/ H!Open \/ H!Apply \/ UNCHANGED helper
    BY <1>1, <2>1, <2>3 DEF EndOp, H!Open, H!Apply, H!Drop, helper
  <2> QED
    BY <1>2, <2>2, <2>3
<1>3. ASSUME UNCHANGED <<hw, pc, at>>, cancel => cancel', Sound' => Sound PROVE LabelInv'
  BY <1>3 DEF LabelInv, Due, Applied
<1>4. ASSUME hw' \in Settings, ~Sound' PROVE LabelInv'
  BY <1>4 DEF LabelInv
<1>5. CASE Start
  <2>1. /\ UNCHANGED <<helper, at, disturbed, broken>> /\ ~running
        /\ pc[thread'] = "new" /\ pc' = [pc EXCEPT ![thread'] = "begin"]
        /\ raced' = (raced \/ \E r \in Stops : stop[r] # "idle")
    BY <1>5 DEF Start, Goto
  <2>2. hw' = hw /\ (Sound' => Sound)
    BY <2>1 DEF helper, Sound
  <2>3. Sound => \A x \in Sweeps : ~Alive(x)
    BY <2>1 DEF SweepInv, OneSweep, Sound
  <2>4. Sound => hw = Stock
    BY <2>3 DEF HelperInv, Sound, Owing, Alive, Sweeping
  <2>5. ASSUME Sound, NEW x \in Sweeps PROVE Due(x)' /\ Applied(x)'
    <3>1. pc'[x] \in {"new", "begin", "over"} /\ (pc'[x] = "begin" => at[x] = First)
      BY <1>1, <2>1, <2>3, <2>5 DEF SpotInv, Alive
    <3>2. Found(1, 0) = Stock.cap /\ First.class = 1 /\ First.control = 0
      BY FoundNext DEF First
    <3> QED
      BY <2>1, <2>2, <2>4, <2>5, <3>1, <3>2 DEF Due, Applied, Measuring
  <2> QED
    BY <1>1, <2>2, <2>5 DEF LabelInv
<1>6. ASSUME NEW r \in Stops, Stop(r) \/ Join(r) \/ Answer(r) PROVE LabelInv'
  BY <1>3, <1>6 DEF Stop, Join, Answer, Sound, helper, Flags, Typed
<1>7. ASSUME NEW r \in Stops, StopRestore(r) PROVE LabelInv'
  <2>1. stop[r] = "restore" /\ UNCHANGED <<pc, raced, disturbed>> /\ (~broken' => ~broken)
        /\ (RestoreOp \/ UNCHANGED helper)
    BY <1>7 DEF StopRestore, Call, Stopping
  <2>2. ~raced => \A x \in Sweeps : ~Alive(x)
    BY <2>1 DEF SweepInv
  <2>3. \A x \in Sweeps : pc[x] \in Measuring \cup {"begin", "class", "point", "apply"} => Alive(x)
    BY DEF Alive, Measuring
  <2> QED
    BY <1>2, <2>1, <2>2, <2>3 DEF LabelInv, Due, Applied, Measuring, Sound
<1>8. ASSUME NEW s \in Sweeps, Step(s) PROVE LabelInv'
  <2>1. /\ Alive(s) /\ \A x \in Sweeps \ {s} : pc'[x] = pc[x] /\ at'[x] = at[x]
        /\ raced' = raced
    BY <1>8, ThreadMoves, SpotMoves
  <2>2. ~raced => \A x \in Sweeps \ {s} : ~Alive(x)
    BY <2>1 DEF SweepInv, OneSweep
  <2>3. \A x \in Sweeps \ {s} : Sound' => Due(x)' /\ Applied(x)'
    BY <2>1, <2>2 DEF Sound, Alive, Due, Applied, Measuring
  <2>4. ASSUME hw' \in Settings, Sound' => Due(s)' /\ Applied(s)' PROVE LabelInv'
    BY <2>3, <2>4 DEF LabelInv
  <2>5. Sound => Due(s) /\ Applied(s)
    BY DEF LabelInv
  <2>6. cancel' = cancel
    BY <1>8 DEF Step, Begin, Class, Point, Apply, Rep, Launch, Ended, Fail, Record, Restore, End, Close
  <2>7. at[s].class \in Nat \ {0} /\ at[s].control \in Nat
    BY NextSpots
  <2>8. ASSUME hw' = hw, Sound' => Sound, at' = at, pc'[s] \in Measuring => pc[s] \in Measuring,
               pc'[s] \in {"class", "point", "apply"} => pc[s] \in {"begin", "class", "point"},
               pc'[s] # "begin"
        PROVE  LabelInv'
    <3>1. Sound' => Due(s)' /\ Applied(s)'
      BY <2>5, <2>6, <2>8 DEF Due, Applied
    <3> QED
      BY <1>1, <2>4, <2>8, <3>1
  <2>9. CASE Begin(s)
    <3>1. pc[s] = "begin" /\ pc'[s] = "class" /\ at' = at /\ (Sound' => ~broken /\ ~disturbed)
          /\ (H!Open \/ UNCHANGED helper)
      BY <1>1, <2>9 DEF Begin, Call, Goto, Sound
    <3>2. hw' = hw
      BY <3>1 DEF H!Open, helper
    <3>3. Sound' => Sound
      BY <1>2, <2>1, <3>1 DEF Sound
    <3> QED
      BY <2>8, <3>1, <3>2, <3>3 DEF Measuring
  <2>10. CASE Class(s) \/ Launch(s) \/ Ended(s) \/ Fail(s)
    <3>1. UNCHANGED <<helper, disturbed, broken, at>>
          /\ (pc'[s] \in Measuring => pc[s] \in Measuring)
          /\ (pc'[s] = "point" => pc[s] = "class") /\ pc'[s] \notin {"begin", "class", "apply"}
      BY <1>1, <2>10 DEF Class, Launch, Ended, Fail, Goto, Measuring
    <3>2. hw' = hw /\ (Sound' => Sound)
      BY <2>1, <3>1 DEF helper, Sound
    <3> QED
      BY <2>8, <3>1, <3>2
  <2>11. CASE Point(s)
    <3>1. UNCHANGED <<helper, disturbed, broken>> /\ pc[s] = "point"
          /\ \/ pc'[s] = "apply" /\ at' = at
             \/ pc'[s] = "class" /\ Move(s, NextClass(s)) /\ (cancel \/ at[s].control > Caps)
      BY <1>1, <2>11 DEF Point, Goto
    <3>2. hw' = hw /\ (Sound' => Sound)
      BY <2>1, <3>1 DEF helper, Sound
    <3>3. CASE pc'[s] = "apply" /\ at' = at
      BY <2>8, <3>1, <3>2, <3>3 DEF Measuring
    <3>4. CASE pc'[s] = "class" /\ Move(s, NextClass(s)) /\ (cancel \/ at[s].control > Caps)
      <4>1. at'[s].class = at[s].class + 1 /\ at'[s].control = 0
        BY <3>4, NextSpots
      <4>2. ~cancel => at[s].control = Caps + 1
        BY <2>7, <3>1, <3>4, BoundsAssumption DEF SpotInv
      <4>3. Found(at[s].class, Caps + 1) = Left(at[s].class, Caps)
            /\ Found(at[s].class + 1, 0) = Left(at[s].class, Caps)
        BY <2>7, BoundsAssumption, FoundNext
      <4>4. Sound' => Due(s)'
        BY <2>5, <2>6, <3>1, <3>2, <4>1, <4>2, <4>3 DEF Due
      <4> QED
        BY <1>1, <2>4, <3>2, <3>4, <4>4 DEF Applied, Measuring
    <3> QED
      BY <3>1, <3>3, <3>4
  <2>12. CASE Apply(s)
    <3>1. hw' \in Settings /\ (~lost' => ~lost)
      BY <1>2, <2>12 DEF Apply
    <3>2. Sound' => Request(s) /\ Sound
      BY <2>1, <2>12, <3>1 DEF Apply, Sound
    <3>3. /\ pc[s] = "apply" /\ \/ pc'[s] = "rep" /\ at' = at /\ ~cancel
                                \/ pc'[s] = "class" /\ cancel
      BY <1>1, <2>12 DEF Apply, Settle, Goto
    <3>4. at[s].class \in Classes
      BY <3>3 DEF SpotInv
    <3>5. ASSUME Sound', ~cancel
          PROVE  hw' = [boost |-> at[s].control = 0, cap |-> Left(at[s].class, at[s].control)]
      BY <1>1, <2>5, <3>2, <3>3, <3>4, <3>5, RequestLeaves DEF Due
    <3>6. Sound' => Due(s)' /\ Applied(s)'
      BY <2>6, <3>3, <3>5 DEF Due, Applied, Measuring
    <3> QED
      BY <2>4, <3>1, <3>6
  <2>13. CASE Rep(s) \/ Record(s)
    <3>1. UNCHANGED <<helper, disturbed, broken>> /\ pc[s] \in Measuring
          /\ \/ pc'[s] = "launch" /\ at' = at
             \/ pc'[s] = "rep" /\ Move(s, [at[s] EXCEPT !.rep = @ + 1])
             \/ pc'[s] = "point" /\ Move(s, NextPoint(s))
      BY <1>1, <2>13 DEF Rep, Record, Goto, Measuring
    <3>2. hw' = hw /\ (Sound' => Sound)
      BY <2>1, <3>1 DEF helper, Sound
    <3>3. Sound' => hw.cap = Left(at[s].class, at[s].control)
      BY <2>5, <3>1, <3>2 DEF Applied
    <3>4. CASE pc'[s] = "point" /\ Move(s, NextPoint(s))
      <4>1. at'[s].class = at[s].class /\ at'[s].control = at[s].control + 1
        BY <3>4, NextSpots
      <4>2. Found(at[s].class, at[s].control + 1) = Left(at[s].class, at[s].control)
        BY <2>7, FoundNext
      <4>3. Sound' => Due(s)'
        BY <3>2, <3>3, <4>1, <4>2 DEF Due
      <4> QED
        BY <1>1, <2>4, <3>2, <3>4, <4>3 DEF Applied, Measuring
    <3>5. CASE \/ pc'[s] = "launch" /\ at' = at
               \/ pc'[s] = "rep" /\ Move(s, [at[s] EXCEPT !.rep = @ + 1])
      <4>1. at'[s].class = at[s].class /\ at'[s].control = at[s].control
        <5>1. Move(s, [at[s] EXCEPT !.rep = @ + 1]) =>
                at'[s].class = at[s].class /\ at'[s].control = at[s].control
          BY NextSpots
        <5> QED
          BY <3>5, <5>1
      <4>2. Sound' => Applied(s)'
        BY <2>5, <3>1, <3>2, <4>1 DEF Applied
      <4> QED
        BY <1>1, <2>4, <3>2, <3>5, <4>2 DEF Due
    <3> QED
      BY <3>1, <3>4, <3>5
  <2>14. CASE Restore(s) \/ End(s) \/ Close(s)
    <3>1. RestoreOp \/ EndOp \/ UNCHANGED helper
      BY <2>14 DEF Restore, End, Close, Call
    <3>2. pc'[s] \in {"end", "close", "over"}
      BY <1>1, <2>14 DEF Restore, End, Close, Goto
    <3> QED
      BY <1>2, <2>4, <3>1, <3>2 DEF Due, Applied, Measuring
  <2> QED
    BY <1>8, <2>9, <2>10, <2>11, <2>12, <2>13, <2>14 DEF Step
<1>9. CASE OtherBegin
  BY <1>3, <1>9 DEF OtherBegin, H!Open, Sound
<1>10. CASE OtherEnd \/ Watchdog
  BY <1>2, <1>4, <1>10 DEF OtherEnd, Watchdog, Sound
<1>11. CASE UNCHANGED vars
  BY <1>3, <1>11 DEF vars, helper, Sound
<1> QED
  BY <1>5, <1>6, <1>7, <1>8, <1>9, <1>10, <1>11 DEF Next

-----------------------------------------------------------------------------
(* Every point once.                                                       *)

(* The points before the n-th control of the k-th class.                   *)
Before(k, n) == ((k - 1) * (Caps + 1) + n) * Reps

(* Repetitions add up to points, points to classes, classes to the sweep.  *)
LEMMA BeforeAdds ==
  ASSUME NEW k \in Nat \ {0}, NEW n \in Nat
  PROVE  /\ Before(k, n) \in Nat /\ Total \in Nat /\ Before(1, 0) = 0
         /\ Before(k, n) + Reps = Before(k, n + 1)
         /\ Before(k, Caps + 1) = Before(k + 1, 0)
         /\ Before(Len(Layout) + 1, 0) = Total
         /\ (k \in Classes /\ n <= Caps) => Before(k, n) + Reps <= Total
<1> DEFINE w == Caps + 1
<1>1. Len(Layout) \in Nat \ {0} /\ w \in Nat \ {0} /\ Reps \in Nat \ {0} /\ Caps \in Nat
  BY BoundsAssumption
<1>2. \A a, b \in Nat : a * b \in Nat
  OBVIOUS
<1>3. \A a, b, c \in Nat : (a + b) * c = a * c + b * c
  OBVIOUS
<1>4. \A a, b, c \in Nat : a <= b => a * c <= b * c
  <2>1. ASSUME NEW a \in Nat, NEW b \in Nat, NEW c \in Nat, a <= b PROVE a * c <= b * c
    <3>1. b - a \in Nat /\ b = a + (b - a)
      BY <2>1
    <3>2. b * c = a * c + (b - a) * c /\ (b - a) * c \in Nat /\ a * c \in Nat
      BY <1>2, <1>3, <3>1
    <3> QED
      BY <3>2
  <2> QED
    BY <2>1
<1>5. k - 1 \in Nat /\ (k - 1) * w \in Nat
  BY <1>1, <1>2
<1>6. Before(k, n) \in Nat /\ Total \in Nat /\ Before(1, 0) = 0
  <2>1. Before(k, n) \in Nat
    BY <1>1, <1>2, <1>5 DEF Before
  <2>2. Len(Layout) * w \in Nat
    BY <1>1, <1>2
  <2>3. Total \in Nat
    BY <1>1, <1>2, <2>2 DEF Total
  <2> QED
    BY <1>1, <2>1, <2>3 DEF Before
<1>7. Before(k, n) + Reps = Before(k, n + 1)
  <2>1. (((k - 1) * w + n) + 1) * Reps = ((k - 1) * w + n) * Reps + 1 * Reps
    BY <1>1, <1>3, <1>5
  <2>2. ((k - 1) * w + n) + 1 = (k - 1) * w + (n + 1) /\ 1 * Reps = Reps
    BY <1>1, <1>5
  <2> QED
    BY <2>1, <2>2 DEF Before
<1>8. Before(k, w) = Before(k + 1, 0)
  <2>1. ((k - 1) + 1) * w = (k - 1) * w + 1 * w
    BY <1>1, <1>3, <1>5
  <2>2. (k - 1) + 1 = (k + 1) - 1 /\ 1 * w = w
    BY <1>1
  <2>3. (k - 1) * w + w = ((k + 1) - 1) * w + 0
    BY <1>1, <1>2, <2>1, <2>2
  <2> QED
    BY <2>3 DEF Before
<1>9. Before(Len(Layout) + 1, 0) = Total
  <2>1. (Len(Layout) + 1) - 1 = Len(Layout) /\ Len(Layout) * w + 0 = Len(Layout) * w
    BY <1>1, <1>2
  <2> QED
    BY <2>1 DEF Before, Total
<1>10. ASSUME k \in Classes, n <= Caps PROVE Before(k, n) + Reps <= Total
  <2>1. k <= Len(Layout) /\ n + 1 <= w
    BY <1>1, <1>10 DEF Classes
  <2>2. (k - 1) * w + (n + 1) <= k * w
    <3>1. ((k - 1) + 1) * w = (k - 1) * w + 1 * w
      BY <1>1, <1>3, <1>5
    <3>2. (k - 1) + 1 = k /\ 1 * w = w
      BY <1>1
    <3> QED
      BY <1>1, <1>5, <2>1, <3>1, <3>2
  <2>3. k * w <= Len(Layout) * w /\ k * w \in Nat /\ Len(Layout) * w \in Nat
    BY <1>1, <1>2, <1>4, <2>1
  <2>4. (k - 1) * w + (n + 1) <= Len(Layout) * w
    BY <1>5, <2>2, <2>3
  <2>5. ((k - 1) * w + (n + 1)) * Reps <= (Len(Layout) * w) * Reps
    BY <1>1, <1>4, <1>5, <2>3, <2>4
  <2> QED
    BY <1>7, <2>5 DEF Before, Total
<1> QED
  BY <1>6, <1>7, <1>8, <1>9, <1>10

(* The counters of a living sweep, and what they are as long as nothing    *)
(* cut it short.                                                           *)
Reached(s) == Before(at[s].class, at[s].control)

Exact(s) ==
  /\ measured[s] = points
  /\ pc[s] \in {"begin", "class", "point", "apply"} => points = Reached(s) /\ step = points
  /\ pc[s] = "rep" => points + 1 = Reached(s) + at[s].rep /\ step = points
  /\ pc[s] \in {"launch", "running", "record"} =>
       points + 1 = Reached(s) + at[s].rep /\ step = points + 1
  /\ pc[s] \in {"restore", "end", "close"} => points = Total /\ step = Total

Counting(s) ==
  /\ error => pc[s] \in {"restore", "end", "close"}
  /\ pc[s] \in {"launch", "running", "record"} => points < step
  /\ (~cancel /\ ~error) => Exact(s)

CountInv ==
  ~raced =>
    /\ \A s \in Sweeps : pc[s] = "new" => measured[s] = 0
    /\ \A s \in Sweeps : verdict[s] = "complete" => measured[s] = Total /\ pc[s] = "over"
    /\ points <= step /\ step <= Total
    /\ \A s \in Sweeps : Alive(s) => Counting(s)

(* Nothing is counted.                                                     *)
LEMMA CountInit == Init => CountInv
<1>1. Total \in Nat
  BY BeforeAdds
<1> QED
  BY <1>1 DEF Init, CountInv, Alive

(* Every step keeps it.                                                    *)
LEMMA CountStep ==
  Typed /\ SweepInv /\ SpotInv /\ CountInv /\ [Next]_vars => CountInv'
<1> SUFFICES ASSUME Typed, SweepInv, SpotInv, CountInv, [Next]_vars, ~raced'
             PROVE  CountInv'
  BY DEF CountInv
<1> USE DEF state, history
<1>1. pc \in [Sweeps -> Places] /\ measured \in [Sweeps -> Nat] /\ points \in Nat /\ step \in Nat
      /\ cancel \in BOOLEAN /\ error \in BOOLEAN
  BY DEF Typed, Flags
<1>2. Total \in Nat
  BY BeforeAdds
<1>3. ASSUME ~raced, UNCHANGED <<pc, at, measured, verdict, points, step, error>>,
             cancel' \/ cancel' = cancel
      PROVE  CountInv'
  BY <1>1, <1>3 DEF CountInv, Counting, Exact, Alive, Reached
<1>4. CASE Start
  <2>1. /\ ~raced /\ ~running /\ UNCHANGED <<at, measured, verdict>>
        /\ step' = 0 /\ points' = 0 /\ error' = FALSE
    BY <1>4 DEF Start
  <2>2. PICK t \in Sweeps : t = thread'
    BY <1>4, BoundsAssumption DEF Start, Typed, Sweeps
  <2>3. pc[t] = "new" /\ pc'[t] = "begin" /\ \A x \in Sweeps \ {t} : pc'[x] = pc[x]
    BY <1>1, <1>4, <2>2 DEF Start, Goto
  <2>4. \A x \in Sweeps : ~Alive(x)
    BY <2>1 DEF SweepInv, OneSweep
  <2>5. at[t] = First /\ measured[t] = 0 /\ Before(1, 0) = 0
    <3>1. 1 \in Nat \ {0} /\ 0 \in Nat
      OBVIOUS
    <3>2. Before(1, 0) = 0
      BY <3>1, BeforeAdds
    <3>3. at[t] = First
      BY <2>3 DEF SpotInv
    <3> QED
      BY <2>1, <2>3, <3>2, <3>3 DEF CountInv
  <2>6. Counting(t)'
    <3>1. at'[t].class = 1 /\ at'[t].control = 0 /\ measured'[t] = 0
      BY <2>1, <2>5 DEF First
    <3>2. Reached(t)' = 0
      BY <2>5, <3>1 DEF Reached, Before
    <3> QED
      BY <2>1, <2>3, <3>1, <3>2 DEF Counting, Exact
  <2>7. \A x \in Sweeps : Alive(x)' => Counting(x)'
    BY <2>3, <2>4, <2>6 DEF Alive
  <2>8. \A x \in Sweeps : verdict[x] = "complete" => measured[x] = Total /\ pc[x] = "over"
    BY <2>1 DEF CountInv
  <2>9. \A x \in Sweeps : verdict'[x] = "complete" => measured'[x] = Total /\ pc'[x] = "over"
    BY <2>1, <2>3, <2>8
  <2>10. \A x \in Sweeps : pc'[x] = "new" => measured'[x] = 0
    BY <2>1, <2>3 DEF CountInv
  <2> QED
    BY <1>2, <2>1, <2>7, <2>9, <2>10 DEF CountInv
<1>5. CASE \E r \in Stops : Stop(r) \/ StopRestore(r) \/ Answer(r)
  BY <1>3, <1>5 DEF Stop, StopRestore, Answer
<1>6. ASSUME NEW r \in Stops, Join(r) PROVE CountInv'
  <2>1. ~raced /\ UNCHANGED <<pc, at, measured, verdict, points, step, error, cancel>>
    BY <1>6 DEF Join
  <2> QED
    BY <1>3, <2>1
<1>7. CASE OtherBegin \/ OtherEnd \/ Watchdog \/ UNCHANGED vars
  BY <1>3, <1>7 DEF OtherBegin, OtherEnd, Watchdog, vars
<1>8. ASSUME NEW s \in Sweeps, Step(s) PROVE CountInv'
  <2>1. /\ Alive(s) /\ pc'[s] # "new" /\ ~raced
        /\ \A x \in Sweeps \ {s} : pc'[x] = pc[x] /\ at'[x] = at[x]
        /\ cancel' = cancel
    BY <1>8, ThreadMoves, SpotMoves
  <2>2. \A x \in Sweeps \ {s} : ~Alive(x)'
    BY <2>1 DEF SweepInv, OneSweep, Alive
  <2>3. Counting(s) /\ points <= step /\ step <= Total
    BY <2>1 DEF CountInv
  <2>4. ASSUME points' <= step', step' <= Total, Alive(s)' => Counting(s)',
               \A x \in Sweeps \ {s} : measured'[x] = measured[x] /\ verdict'[x] = verdict[x],
               verdict'[s] = "complete" => measured'[s] = Total /\ pc'[s] = "over"
        PROVE  CountInv'
    <3>1. \A x \in Sweeps : verdict[x] = "complete" => measured[x] = Total /\ pc[x] = "over"
      BY <2>1 DEF CountInv
    <3>2. \A x \in Sweeps : verdict'[x] = "complete" => measured'[x] = Total /\ pc'[x] = "over"
      BY <2>1, <2>4, <3>1
    <3>3. \A x \in Sweeps : pc'[x] = "new" => measured'[x] = 0
      BY <2>1, <2>4 DEF CountInv
    <3> QED
      BY <2>2, <2>4, <3>2, <3>3 DEF CountInv
  <2>5. verdict[s] # "complete"
    BY <2>1 DEF CountInv, Alive
  <2>6. /\ at[s].class \in Nat \ {0} /\ at[s].control \in Nat /\ at[s].rep \in Nat \ {0}
        /\ Move(s, NextClass(s)) => at'[s].class = at[s].class + 1 /\ at'[s].control = 0
        /\ Move(s, NextPoint(s)) =>
             at'[s].class = at[s].class /\ at'[s].control = at[s].control + 1
        /\ Move(s, [at[s] EXCEPT !.rep = @ + 1]) =>
             /\ at'[s].class = at[s].class /\ at'[s].control = at[s].control
             /\ at'[s].rep = at[s].rep + 1
    BY NextSpots
  <2>7. Caps \in Nat /\ Reps \in Nat \ {0} /\ Len(Layout) \in Nat \ {0}
    BY BoundsAssumption
  <2>8. /\ Reached(s) \in Nat /\ Reached(s) + Reps = Before(at[s].class, at[s].control + 1)
        /\ Before(at[s].class, Caps + 1) = Before(at[s].class + 1, 0)
        /\ Before(Len(Layout) + 1, 0) = Total
        /\ (at[s].class \in Classes /\ at[s].control <= Caps) => Reached(s) + Reps <= Total
    BY <2>6, BeforeAdds DEF Reached
  <2>9. CASE Begin(s) \/ Launch(s)
    <3>1. /\ UNCHANGED <<at, measured, verdict, points, step, error>>
          /\ \/ pc[s] = "begin" /\ pc'[s] = "class"
             \/ pc[s] = "launch" /\ pc'[s] = "running"
      BY <1>1, <2>9 DEF Begin, Launch, Goto
    <3>2. Counting(s)'
      BY <2>1, <2>3, <3>1 DEF Counting, Exact, Reached
    <3> QED
      BY <2>3, <2>4, <2>5, <3>1, <3>2
  <2>10. CASE Class(s)
    <3>1. /\ UNCHANGED <<at, measured, verdict, points, step, error>> /\ pc[s] = "class"
          /\ \/ pc'[s] = "point"
             \/ pc'[s] = "restore" /\ (cancel \/ at[s].class \notin Classes)
      BY <1>1, <2>10 DEF Class, Goto
    <3>2. at[s].class \in 1..(Len(Layout) + 1) /\ at[s].control = 0
      BY <3>1 DEF SpotInv
    <3>3. at[s].class \notin Classes => Reached(s) = Total
      BY <2>7, <2>8, <3>2 DEF Classes, Reached
    <3>4. Counting(s)'
      BY <2>1, <2>3, <3>1, <3>3 DEF Counting, Exact, Reached
    <3> QED
      BY <2>3, <2>4, <2>5, <3>1, <3>4
  <2>11. CASE Point(s)
    <3>1. /\ UNCHANGED <<measured, verdict, points, step, error>> /\ pc[s] = "point"
          /\ \/ pc'[s] = "apply" /\ at' = at
             \/ pc'[s] = "class" /\ Move(s, NextClass(s)) /\ (cancel \/ at[s].control > Caps)
      BY <1>1, <2>11 DEF Point, Goto
    <3>2. at[s].control <= Caps + 1
      BY <3>1 DEF SpotInv
    <3>3. CASE pc'[s] = "apply" /\ at' = at
      <4>1. Counting(s)'
        BY <2>1, <2>3, <3>1, <3>3 DEF Counting, Exact, Reached
      <4> QED
        BY <2>3, <2>4, <2>5, <3>1, <4>1
    <3>4. CASE pc'[s] = "class" /\ Move(s, NextClass(s)) /\ (cancel \/ at[s].control > Caps)
      <4>1. ~cancel => Reached(s)' = Reached(s)
        <5>1. ~cancel => at[s].control = Caps + 1
          BY <2>6, <2>7, <3>2, <3>4
        <5>2. Reached(s)' = Before(at[s].class + 1, 0)
          BY <2>6, <3>4 DEF Reached, Before
        <5> QED
          BY <2>8, <5>1, <5>2 DEF Reached
      <4>2. Counting(s)'
        BY <2>1, <2>3, <3>1, <3>4, <4>1 DEF Counting, Exact
      <4> QED
        BY <2>3, <2>4, <2>5, <3>1, <4>2
    <3> QED
      BY <3>1, <3>3, <3>4
  <2>12. CASE Apply(s)
    <3>1. /\ UNCHANGED <<measured, verdict, points, step, error>> /\ pc[s] = "apply"
          /\ \/ pc'[s] = "rep" /\ at' = at
             \/ pc'[s] = "class" /\ cancel
      BY <1>1, <2>12 DEF Apply, Settle, Goto
    <3>2. at[s].rep = 1
      BY <3>1 DEF SpotInv
    <3>3. Counting(s)'
      BY <2>1, <2>3, <2>8, <3>1, <3>2 DEF Counting, Exact, Reached
    <3> QED
      BY <2>3, <2>4, <2>5, <3>1, <3>3
  <2>13. CASE Rep(s)
    <3>1. UNCHANGED <<measured, verdict, points, error>> /\ pc[s] = "rep"
      BY <1>1, <2>13 DEF Rep, Goto
    <3>2. at[s].class \in Classes /\ at[s].control <= Caps /\ at[s].rep <= Reps + 1
      BY <3>1 DEF SpotInv, Measuring
    <3>3. CASE /\ ~cancel /\ at[s].rep <= Reps
               /\ Goto(s, "rep", "launch") /\ step' = step + 1 /\ UNCHANGED at
      <4>1. pc'[s] = "launch" /\ ~error
        BY <1>1, <2>3, <3>1, <3>3 DEF Goto, Counting
      <4>2. points + 1 = Reached(s) + at[s].rep /\ step = points /\ measured[s] = points
        BY <2>3, <3>1, <3>3, <4>1 DEF Counting, Exact
      <4>3. step' <= Total
        BY <1>1, <1>2, <2>6, <2>7, <2>8, <3>2, <3>3, <4>2
      <4>4. Counting(s)'
        BY <1>1, <2>1, <3>1, <3>3, <4>1, <4>2 DEF Counting, Exact, Reached
      <4> QED
        BY <1>1, <2>3, <2>4, <2>5, <3>1, <3>3, <4>3, <4>4
    <3>4. CASE /\ cancel \/ at[s].rep > Reps
               /\ Goto(s, "rep", "point") /\ Move(s, NextPoint(s)) /\ UNCHANGED step
      <4>1. pc'[s] = "point"
        BY <1>1, <3>4 DEF Goto
      <4>2. Reached(s)' = Reached(s) + Reps
        BY <2>6, <2>8, <3>4 DEF Reached, Before
      <4>3. ~cancel => at[s].rep = Reps + 1
        BY <2>6, <2>7, <3>2, <3>4
      <4>4. Counting(s)'
        BY <1>1, <2>1, <2>3, <2>7, <2>8, <3>1, <3>4, <4>1, <4>2, <4>3 DEF Counting, Exact
      <4> QED
        BY <2>3, <2>4, <2>5, <3>1, <3>4, <4>4
    <3> QED
      BY <2>13, <3>3, <3>4 DEF Rep
  <2>14. CASE Ended(s)
    <3>1. /\ UNCHANGED <<at, measured, verdict, points, step>> /\ pc[s] = "running"
          /\ \/ pc'[s] = "record" /\ error' = error
             \/ pc'[s] = "restore" /\ error' = TRUE
      BY <1>1, <2>14 DEF Ended, Goto
    <3>2. Counting(s)'
      BY <2>1, <2>3, <3>1 DEF Counting, Exact, Reached
    <3> QED
      BY <2>3, <2>4, <2>5, <3>1, <3>2
  <2>15. CASE Fail(s)
    <3>1. /\ UNCHANGED <<at, measured, verdict, points, step>>
          /\ pc'[s] = "restore" /\ error' = TRUE
      BY <1>1, <2>15 DEF Fail, Goto
    <3>2. Counting(s)'
      BY <3>1 DEF Counting
    <3> QED
      BY <2>3, <2>4, <2>5, <3>1, <3>2
  <2>16. CASE Record(s)
    <3>1. /\ UNCHANGED <<verdict, step, error>> /\ points' = points + 1 /\ pc[s] = "record"
          /\ measured' = [measured EXCEPT ![s] = @ + 1]
          /\ \/ pc'[s] = "rep" /\ Move(s, [at[s] EXCEPT !.rep = @ + 1])
             \/ pc'[s] = "point" /\ cancel
      BY <1>1, <2>16 DEF Record, Goto
    <3>2. measured'[s] = measured[s] + 1 /\ \A x \in Sweeps \ {s} : measured'[x] = measured[x]
      BY <1>1, <3>1
    <3>3. points < step /\ ~error
      BY <2>3, <3>1 DEF Counting
    <3>4. points' <= step'
      BY <1>1, <3>1, <3>3
    <3>5. CASE pc'[s] = "rep" /\ Move(s, [at[s] EXCEPT !.rep = @ + 1])
      <4>1. Reached(s)' = Reached(s) /\ at'[s].rep = at[s].rep + 1
        BY <2>6, <3>5 DEF Reached, Before
      <4>2. ~cancel => /\ points + 1 = Reached(s) + at[s].rep
                       /\ step = points + 1 /\ measured[s] = points
        BY <2>3, <3>1, <3>3 DEF Counting, Exact
      <4>3. ~cancel => Exact(s)'
        BY <1>1, <2>6, <2>8, <3>1, <3>2, <3>5, <4>1, <4>2 DEF Exact
      <4>4. Counting(s)'
        BY <2>1, <3>1, <3>3, <3>5, <4>3 DEF Counting
      <4> QED
        BY <2>3, <2>4, <2>5, <3>1, <3>2, <3>4, <4>4
    <3>6. CASE pc'[s] = "point" /\ cancel
      <4>1. Counting(s)'
        BY <2>1, <3>1, <3>3, <3>6 DEF Counting
      <4> QED
        BY <2>3, <2>4, <2>5, <3>1, <3>2, <3>4, <4>1
    <3> QED
      BY <3>1, <3>5, <3>6
  <2>17. CASE Restore(s) \/ End(s)
    <3>1. /\ UNCHANGED <<at, measured, verdict, points, step, error>>
          /\ pc[s] \in {"restore", "end"} /\ pc'[s] \in {"end", "close"}
      BY <1>1, <2>17 DEF Restore, End, Goto
    <3>2. Counting(s)'
      BY <2>1, <2>3, <3>1 DEF Counting, Exact, Reached
    <3> QED
      BY <2>3, <2>4, <2>5, <3>1, <3>2
  <2>18. CASE Close(s)
    <3>1. /\ UNCHANGED <<at, measured, points, step, error>> /\ pc[s] = "close" /\ pc'[s] = "over"
          /\ verdict' = [verdict EXCEPT ![s] = IF cancel \/ error THEN "partial" ELSE "complete"]
      BY <1>1, <2>18 DEF Close, Goto
    <3>2. verdict'[s] = "complete" => measured'[s] = Total
      BY <2>3, <3>1 DEF Counting, Exact, Typed
    <3>3. \A x \in Sweeps \ {s} : verdict'[x] = verdict[x]
      BY <3>1 DEF Typed
    <3> QED
      BY <2>3, <2>4, <3>1, <3>2, <3>3 DEF Alive
  <2> QED
    BY <1>8, <2>9, <2>10, <2>11, <2>12, <2>13, <2>14, <2>15, <2>16, <2>17, <2>18 DEF Step
<1> QED
  BY <1>4, <1>5, <1>6, <1>7, <1>8 DEF Next

-----------------------------------------------------------------------------
(* The theorems.                                                           *)

(* The inductive invariant.                                                *)
IInv ==
  Typed /\ SweepInv /\ LateInv /\ HelperInv /\ SpotInv /\ LabelInv /\ CountInv

(* It holds initially and every step keeps it.                             *)
LEMMA IInvHolds == Spec => []IInv
<1>1. Init => IInv
  BY TypedInit, SweepInit, LateInit, HelperInit, SpotInit, LabelInit, CountInit DEF IInv
<1>2. IInv /\ [Next]_vars => IInv'
  BY TypedStep, SweepStep, LateStep, HelperStep, SpotStep, LabelStep, CountStep DEF IInv
<1> QED
  BY <1>1, <1>2, PTL DEF Spec

(* Types: the spots a sweep passes, its counters and its verdict.          *)
THEOREM CalibrationTyped == Spec => []Typed
<1>1. IInv => Typed
  BY DEF IInv
<1> QED
  BY <1>1, IInvHolds, PTL

(* Start refuses while is_running is set, and only the end of the sweep    *)
(* that set it, or a stop that has seen its thread end, clears it: unless  *)
(* a join gave up or a start came during a stop, one sweep lives at most.  *)
THEOREM SweepsDoNotOverlap == Spec => []OneSweep
<1>1. IInv => OneSweep
  BY DEF IInv, SweepInv
<1> QED
  BY <1>1, IInvHolds, PTL

(* The cancel event, set by a stop and looked at before every repetition,  *)
(* lets a sweep launch no more than the one workload it was about to.      *)
THEOREM OneMoreRun == Spec => []OneRunAfterStop
<1>1. IInv => OneRunAfterStop
  BY DEF IInv, Typed, LateInv, OneRunAfterStop
<1> QED
  BY <1>1, IInvHolds, PTL

(* However the sweeps, the stops and the other client interleave, when     *)
(* none of them is at work the settings are the user's and the lease is    *)
(* free, unless a call threw or a write of a restoration was refused.      *)
THEOREM QuietMeansStock == Spec => []QuietIsStock
<1>1. ASSUME IInv, Quiet, ~broken, ~lost PROVE hw = Stock /\ ~lease
  <2>1. \A s \in Sweeps : ~Owing(s) /\ pc[s] # "end"
    BY <1>1 DEF Quiet, Alive, Owing, Sweeping
  <2> QED
    BY <1>1, <2>1 DEF IInv, HelperInv, Quiet
<1>2. IInv => QuietIsStock
  BY <1>1 DEF QuietIsStock
<1> QED
  BY <1>2, IInvHolds, PTL

(* For any layout, caps and repetitions: at every workload of a sweep that *)
(* nobody disturbs, the stock points of the later classes included, the    *)
(* settings are exactly what the sweep's applies come to, of every CPU.    *)
THEOREM PointsAreSwept == Spec => []RunsAsSwept
<1>1. IInv => RunsAsSwept
  BY DEF IInv, LabelInv, RunsAsSwept, Sound, Applied, Measuring
<1> QED
  BY <1>1, IInvHolds, PTL

(* A sweep that was neither stopped nor failed has gone through every      *)
(* class, control and repetition once, whatever their numbers; the steps   *)
(* it counts never exceed the total it announced.                          *)
THEOREM CompletionIsFull == Spec => []CompleteIsFull
<1>1. IInv => CompleteIsFull
  BY DEF IInv, CountInv, CompleteIsFull
<1> QED
  BY <1>1, IInvHolds, PTL

=============================================================================
