-------------------------- MODULE ApiServerProofs ---------------------------
(***************************************************************************)
(* Proofs about ApiServer and the engine's threads (LiveEngine), for any   *)
(* number of experiments, concurrent requests, points and repetitions.     *)
(***************************************************************************)
EXTENDS ApiServer, TLAPS

USE DEF Settings

-----------------------------------------------------------------------------
(* The inductive invariant, beside the types.                              *)

(* What a thread is about to persist is a state.                           *)
Aimed == \A t \in Threads : pc[t] \in {"show", "store"} => aim[t] \in States

(* The original that is kept is the user's, or in force.                   *)
Sound == ~lost => kept \subseteq {Stock} /\ (kept = {} => hw = Stock)

(* Places from which a thread gets to its finally block, if no call throws.*)
Bound == Places \ {"none", "end", "begin", "close"}

(* An original is kept only while a thread is bound to put it back; when   *)
(* the server was killed, until the first restore.                         *)
KeptIsUsed ==
  \/ broken \/ kept = {}
  \/ \E t \in Threads : pc[t] \in Bound
  \/ unsettled /\ (\A t \in Threads : pc[t] # "close") /\ (\A h \in Handlers : at[h] # "hwend")

(* A session is open only while a thread is bound to end it.               *)
LeaseIsUsed ==
  \/ broken \/ ~lease \/ unsettled
  \/ \E t \in Threads : pc[t] \in Bound \cup {"close"}

(* A thread that launched after its cancellation does not get to another   *)
(* launch as long as the event is set.                                     *)
LateIsLast == \A t \in late : Cancelled(t) /\ pc[t] \notin {"apply", "launch"}

IInv == TypeOK /\ Aimed /\ Sound /\ KeptIsUsed /\ LeaseIsUsed /\ LateIsLast

-----------------------------------------------------------------------------
(* What any step does to the helper.                                       *)
HelperMove ==
  \/ UNCHANGED helper
  \/ H!Open \/ H!Drop \/ RestoreOp
  \/ H!Apply

(* A call that throws is one of them.                                      *)
LEMMA ThrownMove ==
  ASSUME NEW ACTION op, Throws(op), op => HelperMove
  PROVE  HelperMove /\ broken' = TRUE
BY DEF Throws, HelperMove

(* Every step of an engine's thread is one of them.                        *)
LEMMA EngineMove ==
  ASSUME NEW t \in Threads, EngineStep(t)
  PROVE  HelperMove
<1>1. CASE Setup(t) \/ Loop(t) \/ Verdict(t) \/ Launch(t) \/ Ended(t) \/ Record(t)
  BY <1>1 DEF Setup, Loop, Verdict, Launch, Ended, Record, HelperMove
<1>2. CASE Show(t) \/ StoreState(t)
  BY <1>2 DEF Show, StoreState, HelperMove
<1>3. CASE EndStale(t) \/ Close(t)
  BY <1>3, ThrownMove DEF EndStale, Close, EndOp, HelperMove
<1>4. CASE Begin(t) \/ Reopen(t)
  BY <1>4, ThrownMove DEF Begin, Reopen, BeginOp, HelperMove
<1>5. CASE Apply(t)
  BY <1>5 DEF Apply, Throws, HelperMove
<1>6. CASE PutBack(t) \/ Finally(t)
  BY <1>6, ThrownMove DEF PutBack, Finally, HelperMove
<1> QED
  BY <1>1, <1>2, <1>3, <1>4, <1>5, <1>6 DEF EngineStep

(* So is every step of the server.                                         *)
LEMMA Moves == [Next]_vars => HelperMove
<1> SUFFICES ASSUME [Next]_vars PROVE HelperMove
  OBVIOUS
<1>1. ASSUME NEW t \in Threads, Engine(t) PROVE HelperMove
  BY <1>1, EngineMove DEF Engine
<1>2. ASSUME NEW e \in Experiments,
             CreateStart(e) \/ CreateRow(e) \/ CreateOverlay(e) \/ GetExperiment(e) \/ Validate(e)
      PROVE  HelperMove
  BY <1>2 DEF CreateStart, CreateRow, CreateOverlay, GetExperiment, Validate, HelperMove
<1>3. ASSUME NEW h \in Handlers, HandlerStep(h) PROVE HelperMove
  <2>1. CASE Cancel(h) \/ Test(h) \/ CancelRow(h) \/ RestoreRow(h) \/ Conclude(h) \/ ShowRestored(h)
    BY <2>1 DEF Cancel, Test, CancelRow, RestoreRow, Conclude, ShowRestored, HelperMove, evars
  <2>2. CASE RestoreHardware(h)
    BY <2>2, ThrownMove DEF RestoreHardware, EndOp, HelperMove
  <2> QED
    BY <1>3, <2>1, <2>2 DEF HandlerStep
<1>4. CASE Kill \/ Boot
  BY <1>4 DEF Kill, Boot, HelperMove
<1>5. CASE Watchdog
  BY <1>5 DEF Watchdog, RestoreOp, HelperMove
<1>6. CASE UNCHANGED vars
  BY <1>6 DEF vars, evars, HelperMove
<1> QED
  BY <1>1, <1>2, <1>3, <1>4, <1>5, <1>6 DEF Next

(* The helper's state has its type.                                        *)
HelperOK == lease \in BOOLEAN /\ hw \in Settings /\ kept \subseteq Settings /\ lost \in BOOLEAN

(* Every move of the helper keeps it.                                      *)
LEMMA HelperTyped == HelperOK /\ HelperMove => HelperOK'
<1> SUFFICES ASSUME HelperOK, HelperMove PROVE HelperOK'
  OBVIOUS
<1>1. CASE UNCHANGED helper
  BY <1>1 DEF helper, HelperOK
<1>2. CASE H!Open \/ H!Drop
  BY <1>2 DEF H!Open, H!Drop, HelperOK
<1>3. CASE RestoreOp
  BY <1>3 DEF RestoreOp, PutBackOp, H!Release, helper, HelperOK
<1>4. CASE H!Apply
  BY <1>4 DEF H!Apply, HelperOK
<1> QED
  BY <1>1, <1>2, <1>3, <1>4 DEF HelperMove

(* The original that is kept stays the user's.                             *)
LEMMA SoundKept == Sound /\ HelperMove => Sound'
<1> SUFFICES ASSUME Sound, HelperMove PROVE Sound'
  OBVIOUS
<1>1. CASE UNCHANGED helper
  BY <1>1 DEF helper, Sound
<1>2. CASE H!Open \/ H!Drop \/ H!Apply
  BY <1>2 DEF H!Open, H!Drop, H!Apply, Sound
<1>3. CASE RestoreOp
  BY <1>3 DEF RestoreOp, PutBackOp, H!Release, helper, Sound
<1> QED
  BY <1>1, <1>2, <1>3 DEF HelperMove

-----------------------------------------------------------------------------
(* The types of what is not the helper's, a column at a time.              *)
RowsOK == row \in [Experiments -> States \cup {"NONE"}] /\ overlay \in [Experiments -> Shown]

ControlOK ==
  /\ ev \in [Experiments -> {"none", "clear", "set"}]
  /\ runner \in [Experiments -> SUBSET Threads] /\ killed \in [Threads -> BOOLEAN]

FlagsOK == late \subseteq Threads /\ broken \in BOOLEAN /\ unsettled \in BOOLEAN

PlacesOK == pc \in [Threads -> Places]

AimsOK == todo \in [Threads -> Nat] /\ aim \in [Threads -> States \cup {"none"}]

(* Together they are the engine's types.                                   *)
LEMMA EngineTypes ==
  EngineTypeOK <=> HelperOK /\ RowsOK /\ ControlOK /\ FlagsOK /\ PlacesOK /\ AimsOK
BY DEF EngineTypeOK, HelperOK, RowsOK, ControlOK, FlagsOK, PlacesOK, AimsOK

(* Moving a thread.                                                        *)
LEMMA FromPlace ==
  ASSUME PlacesOK, NEW t \in Threads, NEW here, NEW there \in Places, From(t, here, there)
  PROVE  /\ PlacesOK' /\ pc[t] = here /\ pc'[t] = there
         /\ \A u \in Threads \ {t} : pc'[u] = pc[u]
BY DEF From, PlacesOK

(* Where an engine's step takes its thread.                                *)
LEMMA Walk ==
  ASSUME PlacesOK, NEW t \in Threads, EngineStep(t)
  PROVE  /\ PlacesOK' /\ \A u \in Threads \ {t} : pc'[u] = pc[u]
         /\ \/ pc[t] = "end" /\ pc'[t] = "begin"
            \/ pc[t] = "begin" /\ pc'[t] = "setup" /\ BeginOp
            \/ pc[t] \in {"end", "begin"} /\ pc'[t] = "none"
            \/ pc[t] \in Bound /\ pc'[t] \in Bound
            \/ pc[t] = "finally" /\ pc'[t] = "close" /\ RestoreOp
            \/ pc[t] = "finally" /\ pc'[t] = "none" /\ broken'
            \/ pc[t] = "close" /\ pc'[t] = "none" /\ (EndOp \/ broken')
<1> USE DEF Places, Bound
<1>1. CASE EndStale(t)
  BY <1>1, FromPlace DEF EndStale
<1>2. CASE Begin(t)
  BY <1>2, FromPlace DEF Begin
<1>3. CASE Setup(t)
  BY <1>3, FromPlace DEF Setup
<1>4. CASE Loop(t)
  BY <1>4, FromPlace DEF Loop
<1>5. CASE Verdict(t)
  BY <1>5, FromPlace DEF Verdict
<1>6. CASE Apply(t)
  BY <1>6, FromPlace DEF Apply
<1>7. CASE Launch(t) \/ Ended(t)
  BY <1>7, FromPlace DEF Launch, Ended
<1>8. CASE PutBack(t)
  BY <1>8, FromPlace DEF PutBack
<1>9. CASE Reopen(t)
  BY <1>9, FromPlace DEF Reopen
<1>10. CASE Record(t) \/ Show(t)
  BY <1>10, FromPlace DEF Record, Show
<1>11. CASE StoreState(t)
  BY <1>11, FromPlace DEF StoreState
<1>12. CASE Finally(t)
  BY <1>12, FromPlace DEF Finally, Throws
<1>13. CASE Close(t)
  BY <1>13, FromPlace DEF Close, Throws
<1> QED
  BY <1>1, <1>2, <1>3, <1>4, <1>5, <1>6, <1>7, <1>8, <1>9, <1>10, <1>11, <1>12, <1>13 DEF EngineStep

(* What an engine's step does to the tables; a thread that is about to     *)
(* persist has a state to persist.                                         *)
LEMMA EngineTables ==
  ASSUME EngineTypeOK, Aimed, NEW t \in Threads, EngineStep(t)
  PROVE  RowsOK' /\ ControlOK' /\ FlagsOK' /\ AimsOK' /\ Aimed'
<1> USE BoundsAssumption DEF RowsOK, ControlOK, FlagsOK, AimsOK, Shown, helper, stored, control, history
<1>1. RowsOK /\ ControlOK /\ FlagsOK /\ AimsOK /\ PlacesOK
  BY EngineTypes
<1>2. Exp(t) \in Experiments
  BY DEF Threads, Exp
<1>3. {"RESTORED", "SELECTED", "PROFILING", "VALIDATING", "COMPLETE"} \subseteq States
  BY DEF States
<1>4. ASSUME NEW state \in States, Aim(t, state)
      PROVE  aim' \in [Threads -> States \cup {"none"}] /\ aim'[t] \in States
             /\ \A u \in Threads \ {t} : aim'[u] = aim[u]
  BY <1>1, <1>4 DEF Aim
<1>5. /\ PlacesOK' /\ \A u \in Threads \ {t} : pc'[u] = pc[u]
  BY <1>1, Walk
<1>6. CASE EndStale(t) \/ Begin(t) \/ PutBack(t) \/ Reopen(t)
  <2>1. UNCHANGED <<stored, control, todo, aim, late, unsettled>> /\ broken' \in BOOLEAN
    BY <1>1, <1>6 DEF EndStale, Begin, PutBack, Reopen, Throws
  <2>2. pc'[t] \notin {"show", "store"}
    BY <1>1, <1>6, FromPlace DEF EndStale, Begin, PutBack, Reopen, Places
  <2> QED
    BY <1>1, <1>5, <2>1, <2>2 DEF Aimed
<1>7. CASE Setup(t)
  <2>1. todo' \in [Threads -> Nat]
    BY <1>1, <1>7 DEF Setup
  <2>2. RowsOK'
    BY <1>1, <1>2, <1>7 DEF Setup
  <2>3. aim' \in [Threads -> States \cup {"none"}] /\ Aimed'
    <3>1. CASE aim' = aim /\ From(t, "setup", "loop")
      BY <1>1, <1>5, <3>1, FromPlace DEF Aimed, Places
    <3>2. CASE \E state \in States : Aim(t, state)
      BY <1>1, <1>4, <1>5, <3>2 DEF Aimed
    <3> QED
      BY <1>3, <1>7, <3>1, <3>2 DEF Setup
  <2> QED
    BY <1>1, <1>7, <2>1, <2>2, <2>3 DEF Setup
<1>8. CASE Loop(t)
  <2>1. todo' \in [Threads -> Nat]
    BY <1>1, <1>8 DEF Loop
  <2>2. pc'[t] \notin {"show", "store"}
    BY <1>1, <1>8, FromPlace DEF Loop, Places
  <2> QED
    BY <1>1, <1>5, <1>8, <2>1, <2>2 DEF Loop, Aimed
<1>9. CASE Verdict(t) \/ Record(t)
  <2>1. \/ \E state \in States : Aim(t, state)
        \/ UNCHANGED aim /\ pc'[t] \notin {"show", "store"}
    BY <1>1, <1>3, <1>9, FromPlace DEF Verdict, Record, Places
  <2>2. aim' \in [Threads -> States \cup {"none"}] /\ Aimed'
    BY <1>1, <1>4, <1>5, <2>1 DEF Aimed
  <2> QED
    BY <1>1, <1>9, <2>2 DEF Verdict, Record
<1>10. CASE Apply(t)
  <2>1. ControlOK'
    BY <1>1, <1>2, <1>10 DEF Apply
  <2>2. pc'[t] \notin {"show", "store"} /\ broken' \in BOOLEAN
    BY <1>1, <1>10, FromPlace DEF Apply, Places, Throws
  <2> QED
    BY <1>1, <1>5, <1>10, <2>1, <2>2 DEF Apply, Aimed
<1>11. CASE Launch(t)
  <2>1. pc'[t] \notin {"show", "store"} /\ late' \subseteq Threads
    BY <1>1, <1>11, FromPlace DEF Launch, Places
  <2> QED
    BY <1>1, <1>5, <1>11, <2>1 DEF Launch, Aimed
<1>12. CASE Ended(t)
  <2>1. ControlOK'
    BY <1>1, <1>2, <1>12 DEF Ended
  <2>2. pc'[t] \notin {"show", "store"}
    BY <1>1, <1>12, FromPlace DEF Ended, Places
  <2> QED
    BY <1>1, <1>5, <1>12, <2>1, <2>2 DEF Ended, Aimed
<1>13. CASE Show(t)
  <2>1. pc[t] = "show" /\ RowsOK'
    BY <1>1, <1>2, <1>13, FromPlace DEF Show, Places
  <2> QED
    BY <1>1, <1>5, <1>13, <2>1 DEF Show, Aimed
<1>14. CASE StoreState(t)
  <2>1. pc[t] = "store" /\ pc'[t] \notin {"show", "store"}
    BY <1>1, <1>14, FromPlace DEF StoreState, Places
  <2>2. aim[t] \in States
    BY <2>1 DEF Aimed
  <2>3. RowsOK'
    BY <1>1, <1>2, <1>14, <2>2 DEF StoreState
  <2>4. aim' \in [Threads -> States \cup {"none"}] /\ \A u \in Threads \ {t} : aim'[u] = aim[u]
    BY <1>1, <1>14 DEF StoreState, Aim
  <2> QED
    BY <1>1, <1>5, <1>14, <2>1, <2>3, <2>4 DEF StoreState, Aimed
<1>15. CASE Finally(t)
  <2>1. ControlOK'
    BY <1>1, <1>2, <1>15 DEF Finally
  <2>2. pc'[t] \notin {"show", "store"} /\ broken' \in BOOLEAN
    BY <1>1, <1>15, FromPlace DEF Finally, Places, Throws
  <2> QED
    BY <1>1, <1>5, <1>15, <2>1, <2>2 DEF Finally, Aimed
<1>16. CASE Close(t)
  <2>1. pc'[t] \notin {"show", "store"} /\ FlagsOK'
    BY <1>1, <1>16, FromPlace DEF Close, Places, Throws
  <2> QED
    BY <1>1, <1>5, <1>16, <2>1 DEF Close, Aimed
<1> QED
  BY <1>6, <1>7, <1>8, <1>9, <1>10, <1>11, <1>12, <1>13, <1>14, <1>15, <1>16 DEF EngineStep

-----------------------------------------------------------------------------
(* The server's own columns.                                               *)
ServerOK ==
  /\ up \in BOOLEAN
  /\ create \in [Experiments -> {"new", "row", "profiling", "overlay", "done"}]
  /\ at \in [Handlers -> {"idle", "test", "cancel", "restore", "conclude",
                          "overlay", "hw", "hwend", "back"}]

(* With the engine's they are the server's types.                          *)
LEMMA ServerTypes == TypeOK <=> EngineTypeOK /\ ServerOK
BY DEF TypeOK, ServerOK

(* What a request about experiments does: no thread gets anywhere, but one *)
(* that starts.                                                            *)
LEMMA AskedTypes ==
  ASSUME TypeOK, Aimed, NEW e \in Experiments,
         CreateStart(e) \/ CreateRow(e) \/ CreateOverlay(e) \/ GetExperiment(e) \/ Validate(e)
  PROVE  /\ RowsOK' /\ ControlOK' /\ FlagsOK' /\ AimsOK' /\ PlacesOK' /\ ServerOK' /\ Aimed'
         /\ \A t \in Threads : pc'[t] = pc[t] \/ (pc[t] = "none" /\ pc'[t] = "end")
         /\ UNCHANGED <<helper, broken, unsettled, at>>
<1> USE DEF RowsOK, ControlOK, FlagsOK, AimsOK, ServerOK, Shown, helper, stored, control, history, server
<1>1. RowsOK /\ ControlOK /\ FlagsOK /\ AimsOK /\ PlacesOK /\ ServerOK
  BY EngineTypes, ServerTypes
<1>2. {"IDLE", "PROFILING", "RESTORED"} \subseteq States
  BY DEF States
<1>3. ASSUME NEW t \in Threads, NEW there \in {"end", "none"}, StartThread(t, there)
      PROVE  /\ ControlOK' /\ FlagsOK' /\ AimsOK' /\ PlacesOK' /\ Aimed'
             /\ \A u \in Threads : pc'[u] = pc[u] \/ (pc[u] = "none" /\ pc'[u] = "end")
             /\ UNCHANGED <<broken, unsettled>>
  <2>1. Exp(t) \in Experiments
    BY DEF Threads, Exp
  <2>2. ControlOK' /\ FlagsOK' /\ UNCHANGED <<todo, aim, broken, unsettled>>
    BY <1>1, <1>3, <2>1 DEF StartThread
  <2>3. /\ PlacesOK' /\ pc[t] = "none" /\ pc'[t] = there
        /\ \A u \in Threads \ {t} : pc'[u] = pc[u]
    BY <1>1, <1>3, FromPlace DEF StartThread, Places
  <2> QED
    BY <1>1, <2>2, <2>3 DEF Aimed
<1>4. ASSUME Resolve(e) PROVE overlay' \in [Experiments -> Shown]
  BY <1>1, <1>2, <1>4 DEF Resolve
<1>5. <<e, "profile">> \in Threads /\ <<e, "validate">> \in Threads
  BY DEF Threads
<1>6. ASSUME NEW here, NEW there \in {"row", "profiling", "overlay", "done"}, Created(e, here, there)
      PROVE  create' \in [Experiments -> {"new", "row", "profiling", "overlay", "done"}]
  BY <1>1, <1>6 DEF Created
<1>7. CASE CreateStart(e)
  BY <1>1, <1>3, <1>5, <1>6, <1>7 DEF CreateStart
<1>8. CASE CreateRow(e)
  BY <1>1, <1>2, <1>6, <1>8 DEF CreateRow, PlacesOK, Aimed
<1>9. CASE CreateOverlay(e)
  BY <1>1, <1>2, <1>6, <1>9 DEF CreateOverlay, PlacesOK, Aimed
<1>10. CASE GetExperiment(e)
  BY <1>1, <1>4, <1>10 DEF GetExperiment, PlacesOK, Aimed
<1>11. CASE Validate(e)
  <2>1. overlay' \in [Experiments -> Shown] /\ UNCHANGED <<helper, row, server>>
    BY <1>1, <1>4, <1>11 DEF Validate
  <2>2. PICK there \in {"end", "none"} : StartThread(<<e, "validate">>, there)
    BY <1>11 DEF Validate
  <2> QED
    BY <1>1, <1>3, <1>5, <2>1, <2>2
<1> QED
  BY <1>7, <1>8, <1>9, <1>10, <1>11

(* What a cancel or restore request does: no thread gets anywhere, and the *)
(* settings are restored before the session is ended.                      *)
LEMMA HandlerTypes ==
  ASSUME TypeOK, Aimed, NEW h \in Handlers, HandlerStep(h)
  PROVE  /\ RowsOK' /\ ControlOK' /\ FlagsOK' /\ ServerOK' /\ Aimed'
         /\ UNCHANGED <<pc, todo, aim, late>>
         /\ \A g \in Handlers \ {h} : at'[g] = at[g]
         /\ \/ UNCHANGED <<helper, broken, unsettled>> /\ at'[h] # "hwend"
            \/ RestoreOp /\ UNCHANGED <<broken, unsettled>>
            \/ broken'
            \/ at[h] = "hwend" /\ EndOp /\ at'[h] # "hwend"
<1> USE DEF RowsOK, ControlOK, FlagsOK, ServerOK, Shown, helper, stored, control, history, evars
<1>1. RowsOK /\ ControlOK /\ FlagsOK /\ ServerOK
  BY EngineTypes, ServerTypes
<1>2. h[1] \in Experiments
  BY DEF Handlers
<1>3. {"CANCELLING", "RESTORING", "RESTORED"} \subseteq States
  BY DEF States
<1>4. ASSUME NEW here, NEW there \in {"idle", "test", "cancel", "restore", "conclude",
                          "overlay", "hw", "hwend", "back"}, To(h, here, there)
      PROVE  /\ at' \in [Handlers -> {"idle", "test", "cancel", "restore", "conclude",
                          "overlay", "hw", "hwend", "back"}]
             /\ at[h] = here /\ at'[h] = there /\ \A g \in Handlers \ {h} : at'[g] = at[g]
  BY <1>1, <1>4 DEF To
<1>5. ASSUME NEW state \in States, Move(h, state)
      PROVE  row' \in [Experiments -> States \cup {"NONE"}]
  BY <1>1, <1>2, <1>5 DEF Move
<1>6. Aimed' \/ ~UNCHANGED <<pc, aim>>
  BY DEF Aimed
<1>7. CASE Cancel(h)
  <2>1. overlay' \in [Experiments -> Shown]
    BY <1>1, <1>2, <1>3, <1>7 DEF Cancel, Resolve
  <2>2. ControlOK'
    BY <1>1, <1>2, <1>7 DEF Cancel
  <2> QED
    BY <1>1, <1>4, <1>6, <1>7, <2>1, <2>2 DEF Cancel
<1>8. CASE Test(h)
  BY <1>1, <1>4, <1>6, <1>8 DEF Test
<1>9. CASE CancelRow(h)
  BY <1>1, <1>3, <1>4, <1>5, <1>6, <1>9 DEF CancelRow
<1>10. CASE RestoreRow(h)
  BY <1>1, <1>3, <1>4, <1>5, <1>6, <1>10 DEF RestoreRow
<1>11. CASE Conclude(h)
  BY <1>1, <1>3, <1>4, <1>5, <1>6, <1>11 DEF Conclude
<1>12. CASE ShowRestored(h)
  <2>1. overlay' \in [Experiments -> Shown]
    BY <1>1, <1>2, <1>3, <1>12 DEF ShowRestored
  <2> QED
    BY <1>1, <1>4, <1>6, <1>12, <2>1 DEF ShowRestored
<1>13. CASE RestoreHardware(h)
  <2>1. /\ UNCHANGED <<stored, control, pc, todo, aim, late, up, create>>
        /\ RowsOK' /\ ControlOK' /\ Aimed'
    BY <1>1, <1>6, <1>13 DEF RestoreHardware
  <2>2. \/ To(h, "hw", "hwend") /\ RestoreOp /\ UNCHANGED <<broken, unsettled>>
        \/ To(h, "hw", "idle") /\ broken' = TRUE /\ UNCHANGED unsettled
        \/ To(h, "hwend", "idle") /\ EndOp /\ unsettled' = FALSE /\ UNCHANGED broken
        \/ To(h, "hwend", "idle") /\ broken' = TRUE /\ UNCHANGED unsettled
    BY <1>13 DEF RestoreHardware, Throws
  <2>3. ServerOK' /\ \A g \in Handlers \ {h} : at'[g] = at[g]
    BY <1>1, <1>4, <2>1, <2>2
  <2>4. FlagsOK'
    BY <1>1, <2>1, <2>2
  <2>5. \/ RestoreOp /\ UNCHANGED <<broken, unsettled>>
        \/ broken'
        \/ at[h] = "hwend" /\ EndOp /\ at'[h] # "hwend"
    BY <1>4, <2>2
  <2> QED
    BY <2>1, <2>3, <2>4, <2>5
<1> QED
  BY <1>7, <1>8, <1>9, <1>10, <1>11, <1>12, <1>13 DEF HandlerStep

(* The death of the server and its next start.                             *)
LEMMA LifeTypes ==
  ASSUME TypeOK, Aimed, Kill \/ Boot
  PROVE  RowsOK' /\ ControlOK' /\ FlagsOK' /\ AimsOK' /\ PlacesOK' /\ ServerOK' /\ Aimed'
<1> USE DEF RowsOK, ControlOK, FlagsOK, AimsOK, PlacesOK, ServerOK, Aimed, Shown, helper, stored, control, history
<1>1. RowsOK /\ ControlOK /\ FlagsOK /\ AimsOK /\ PlacesOK /\ ServerOK
  BY EngineTypes, ServerTypes
<1>2. CASE Kill
  BY <1>1, <1>2 DEF Kill, Places
<1>3. CASE Boot
  <2>1. "RESTORED" \in States
    BY DEF States
  <2> QED
    BY <1>1, <1>3, <2>1 DEF Boot
<1> QED
  BY <1>2, <1>3

(* The invariant of the types holds in every step.                         *)
LEMMA TypesKept ==
  ASSUME TypeOK, Aimed, [Next]_vars
  PROVE  TypeOK' /\ Aimed'
<1>1. HelperOK'
  BY Moves, HelperTyped, EngineTypes, ServerTypes
<1>2. RowsOK /\ ControlOK /\ FlagsOK /\ AimsOK /\ PlacesOK /\ ServerOK /\ EngineTypeOK
  BY EngineTypes, ServerTypes
<1>3. SUFFICES RowsOK' /\ ControlOK' /\ FlagsOK' /\ AimsOK' /\ PlacesOK' /\ ServerOK' /\ Aimed'
  BY <1>1 DEF TypeOK, EngineTypeOK, HelperOK, RowsOK, ControlOK, FlagsOK, PlacesOK, AimsOK, ServerOK
<1>4. ASSUME NEW t \in Threads, Engine(t)
      PROVE  RowsOK' /\ ControlOK' /\ FlagsOK' /\ AimsOK' /\ PlacesOK' /\ ServerOK' /\ Aimed'
  BY <1>2, <1>4, EngineTables, Walk DEF Engine, server, ServerOK
<1>5. ASSUME NEW e \in Experiments,
             CreateStart(e) \/ CreateRow(e) \/ CreateOverlay(e) \/ GetExperiment(e) \/ Validate(e)
      PROVE  RowsOK' /\ ControlOK' /\ FlagsOK' /\ AimsOK' /\ PlacesOK' /\ ServerOK' /\ Aimed'
  BY <1>5, AskedTypes
<1>6. ASSUME NEW h \in Handlers, HandlerStep(h)
      PROVE  RowsOK' /\ ControlOK' /\ FlagsOK' /\ AimsOK' /\ PlacesOK' /\ ServerOK' /\ Aimed'
  BY <1>2, <1>6, HandlerTypes DEF AimsOK, PlacesOK
<1>7. CASE Kill \/ Boot
  BY <1>7, LifeTypes
<1>8. CASE Watchdog \/ UNCHANGED vars
  BY <1>2, <1>8 DEF Watchdog, vars, evars, server, stored, control, history,
     RowsOK, ControlOK, FlagsOK, AimsOK, PlacesOK, ServerOK, Aimed
<1> QED
  BY <1>4, <1>5, <1>6, <1>7, <1>8 DEF Next

-----------------------------------------------------------------------------
(* A kept original and an open session are somebody's to put back and to   *)
(* end, whatever threads and requests do.                                  *)
LEMMA UseKept ==
  ASSUME TypeOK, Aimed, KeptIsUsed, LeaseIsUsed, [Next]_vars
  PROVE  KeptIsUsed' /\ LeaseIsUsed'
<1>1. PlacesOK /\ ServerOK
  BY EngineTypes, ServerTypes
<1>2. RestoreOp => kept' = {} /\ (lease' = lease \/ lease' = FALSE)
  BY DEF RestoreOp, PutBackOp, H!Release, helper
<1>3. EndOp => ~lease' /\ kept' = kept
  BY DEF EndOp, H!Drop, helper
<1>4. ASSUME NEW t \in Threads, Engine(t) PROVE KeptIsUsed' /\ LeaseIsUsed'
  <2>1. /\ PlacesOK' /\ \A u \in Threads \ {t} : pc'[u] = pc[u]
        /\ \/ pc[t] = "end" /\ pc'[t] = "begin"
           \/ pc[t] = "begin" /\ pc'[t] = "setup" /\ BeginOp
           \/ pc[t] \in {"end", "begin"} /\ pc'[t] = "none"
           \/ pc[t] \in Bound /\ pc'[t] \in Bound
           \/ pc[t] = "finally" /\ pc'[t] = "close" /\ RestoreOp
           \/ pc[t] = "finally" /\ pc'[t] = "none" /\ broken'
           \/ pc[t] = "close" /\ pc'[t] = "none" /\ (EndOp \/ broken')
    BY <1>1, <1>4, Walk DEF Engine
  <2>2. UNCHANGED at /\ (broken => broken')
    <3>1. UNCHANGED at
      BY <1>4 DEF Engine, server
    <3>2. EngineStep(t)
      BY <1>4 DEF Engine
    <3>3. UNCHANGED broken \/ broken' = TRUE
      BY <3>2 DEF EngineStep, EndStale, Begin, Setup, Loop, Verdict, Apply, Launch, Ended, PutBack,
         Reopen, Record, Show, StoreState, Finally, Close, Throws, history
    <3> QED
      BY <3>1, <3>3
  <2>3. CASE pc[t] \in {"end", "begin"} /\ pc'[t] \in {"begin", "none"}
    <3>1. EndStale(t) \/ Begin(t)
      BY <1>4, <2>3 DEF Engine, EngineStep, Setup, Loop, Verdict, Apply, Launch, Ended, PutBack,
         Reopen, Record, Show, StoreState, Finally, Close, From
    <3>2. UNCHANGED <<helper, unsettled>> \/ (EndOp /\ UNCHANGED unsettled) \/ broken'
      BY <2>3, <3>1, FromPlace, <1>1 DEF EndStale, Begin, Throws, Places
    <3> QED
      BY <1>3, <2>1, <2>2, <2>3, <3>2 DEF KeptIsUsed, LeaseIsUsed, Bound, helper
  <2>4. CASE pc'[t] \in Bound
    BY <2>4 DEF KeptIsUsed, LeaseIsUsed
  <2>5. CASE pc[t] = "finally" /\ pc'[t] = "close" /\ RestoreOp
    BY <1>2, <2>5 DEF KeptIsUsed, LeaseIsUsed
  <2>6. CASE broken'
    BY <2>6 DEF KeptIsUsed, LeaseIsUsed
  <2>7. CASE pc[t] = "close" /\ pc'[t] = "none" /\ EndOp
    BY <1>3, <2>1, <2>2, <2>7 DEF KeptIsUsed, LeaseIsUsed, Bound
  <2> QED
    BY <2>1, <2>3, <2>4, <2>5, <2>6, <2>7 DEF Bound, Places
<1>5. ASSUME NEW e \in Experiments,
             CreateStart(e) \/ CreateRow(e) \/ CreateOverlay(e) \/ GetExperiment(e) \/ Validate(e)
      PROVE  KeptIsUsed' /\ LeaseIsUsed'
  <2>1. /\ \A t \in Threads : pc'[t] = pc[t] \/ (pc[t] = "none" /\ pc'[t] = "end")
        /\ UNCHANGED <<helper, broken, unsettled, at>>
    BY <1>5, AskedTypes
  <2> QED
    BY <2>1 DEF KeptIsUsed, LeaseIsUsed, Bound, helper
<1>6. ASSUME NEW h \in Handlers, HandlerStep(h) PROVE KeptIsUsed' /\ LeaseIsUsed'
  <2>1. /\ UNCHANGED pc /\ \A g \in Handlers \ {h} : at'[g] = at[g]
        /\ \/ UNCHANGED <<helper, broken, unsettled>> /\ at'[h] # "hwend"
           \/ RestoreOp /\ UNCHANGED <<broken, unsettled>>
           \/ broken'
           \/ at[h] = "hwend" /\ EndOp /\ at'[h] # "hwend"
    BY <1>6, HandlerTypes
  <2>2. CASE UNCHANGED <<helper, broken, unsettled>> /\ at'[h] # "hwend"
    BY <2>1, <2>2 DEF KeptIsUsed, LeaseIsUsed, helper
  <2>3. CASE RestoreOp /\ UNCHANGED <<broken, unsettled>>
    BY <1>2, <2>1, <2>3 DEF KeptIsUsed, LeaseIsUsed
  <2>4. CASE at[h] = "hwend" /\ EndOp /\ at'[h] # "hwend"
    <3>1. broken' \/ UNCHANGED broken
      BY <1>6 DEF HandlerStep, Cancel, Test, CancelRow, RestoreRow, Conclude, ShowRestored,
         RestoreHardware, Throws, evars, history
    <3> QED
      BY <1>3, <2>1, <2>4, <3>1 DEF KeptIsUsed, LeaseIsUsed
  <2> QED
    BY <2>1, <2>2, <2>3, <2>4 DEF KeptIsUsed, LeaseIsUsed
<1>7. CASE Kill
  BY <1>7 DEF Kill, KeptIsUsed, LeaseIsUsed
<1>8. CASE Boot \/ UNCHANGED vars
  BY <1>8 DEF Boot, vars, evars, server, helper, history, KeptIsUsed, LeaseIsUsed
<1>9. CASE Watchdog
  <2>1. (kept' = {} \/ kept' = kept) /\ ~lease' /\ UNCHANGED <<pc, broken, unsettled, at>>
    BY <1>9 DEF Watchdog, PutBackOp, H!Release, H!Drop, history, server
  <2> QED
    BY <2>1 DEF KeptIsUsed, LeaseIsUsed
<1> QED
  BY <1>4, <1>5, <1>6, <1>7, <1>8, <1>9 DEF Next

(* An engine's step leaves the events alone, and takes a cancelled thread  *)
(* to no launch but the one it had checked for.                            *)
LEMMA LateWalk ==
  ASSUME PlacesOK, NEW t \in Threads, EngineStep(t)
  PROVE  /\ UNCHANGED ev
         /\ late' \subseteq late \cup {t}
         /\ t \in late' => t \in late \/ (Cancelled(t) /\ pc'[t] = "running")
         /\ pc'[t] = "apply" => ~Cancelled(t)
         /\ pc'[t] = "launch" => pc[t] = "apply"
<1> USE DEF Places, control, history
<1>1. CASE EndStale(t) \/ Begin(t) \/ Setup(t) \/ Verdict(t)
  BY <1>1, FromPlace DEF EndStale, Begin, Setup, Verdict
<1>2. CASE Loop(t)
  BY <1>2, FromPlace DEF Loop
<1>3. CASE Apply(t) \/ Ended(t)
  BY <1>3, FromPlace DEF Apply, Ended
<1>4. CASE Launch(t)
  BY <1>4, FromPlace DEF Launch
<1>5. CASE PutBack(t) \/ Reopen(t) \/ Record(t) \/ Show(t)
  BY <1>5, FromPlace DEF PutBack, Reopen, Record, Show
<1>6. CASE StoreState(t)
  BY <1>6, FromPlace DEF StoreState
<1>7. CASE Finally(t) \/ Close(t)
  BY <1>7, FromPlace DEF Finally, Close
<1> QED
  BY <1>1, <1>2, <1>3, <1>4, <1>5, <1>6, <1>7 DEF EngineStep

(* A thread that was late is so no more when its event is replaced.        *)
LEMMA LateKept ==
  ASSUME TypeOK, Aimed, LateIsLast, [Next]_vars
  PROVE  LateIsLast'
<1>1. PlacesOK /\ ControlOK /\ late \subseteq Threads
  BY EngineTypes, ServerTypes DEF FlagsOK
<1>2. ASSUME NEW t \in Threads, Engine(t) PROVE LateIsLast'
  <2>1. /\ UNCHANGED ev
        /\ late' \subseteq late \cup {t}
        /\ t \in late' => t \in late \/ (Cancelled(t) /\ pc'[t] = "running")
        /\ pc'[t] = "apply" => ~Cancelled(t)
        /\ pc'[t] = "launch" => pc[t] = "apply"
    BY <1>1, <1>2, LateWalk DEF Engine
  <2>2. \A u \in Threads \ {t} : pc'[u] = pc[u]
    BY <1>1, <1>2, Walk DEF Engine
  <2> QED
    BY <1>1, <2>1, <2>2 DEF LateIsLast, Cancelled
<1>3. ASSUME NEW t \in Threads, NEW there \in {"end", "none"}, StartThread(t, there)
      PROVE  LateIsLast'
  <2>1. \A u \in late' : u \in late /\ Exp(u) # Exp(t)
    BY <1>3 DEF StartThread
  <2>2. \A u \in Threads : Exp(u) \in Experiments /\ (Exp(u) # Exp(t) => ev'[Exp(u)] = ev[Exp(u)] /\ pc'[u] = pc[u])
    BY <1>1, <1>3 DEF StartThread, From, PlacesOK, ControlOK, Threads, Exp
  <2> QED
    BY <1>1, <2>1, <2>2 DEF LateIsLast, Cancelled
<1>4. ASSUME NEW e \in Experiments,
             CreateStart(e) \/ CreateRow(e) \/ CreateOverlay(e) \/ GetExperiment(e) \/ Validate(e)
      PROVE  LateIsLast'
  <2>1. <<e, "profile">> \in Threads /\ <<e, "validate">> \in Threads
    BY DEF Threads
  <2>2. CASE CreateStart(e) \/ Validate(e)
    BY <1>3, <2>1, <2>2 DEF CreateStart, Validate
  <2>3. CASE CreateRow(e) \/ CreateOverlay(e) \/ GetExperiment(e)
    BY <2>3 DEF CreateRow, CreateOverlay, GetExperiment, control, history, LateIsLast, Cancelled
  <2> QED
    BY <1>4, <2>2, <2>3
<1>5. ASSUME NEW h \in Handlers, HandlerStep(h) PROVE LateIsLast'
  <2>1. UNCHANGED <<pc, late>>
    BY <1>5, HandlerTypes
  <2>2. UNCHANGED ev \/ ev' = [ev EXCEPT ![h[1]] = "set"]
    BY <1>5 DEF HandlerStep, Cancel, Test, CancelRow, RestoreRow, Conclude, ShowRestored,
       RestoreHardware, control, evars
  <2>3. \A t \in Threads : Exp(t) \in Experiments
    BY DEF Threads, Exp
  <2> QED
    BY <1>1, <2>1, <2>2, <2>3 DEF LateIsLast, Cancelled, ControlOK
<1>6. CASE Kill
  BY <1>6 DEF Kill, LateIsLast
<1>7. CASE Boot \/ Watchdog \/ UNCHANGED vars
  BY <1>7 DEF Boot, Watchdog, vars, evars, control, history, LateIsLast, Cancelled
<1> QED
  BY <1>2, <1>4, <1>5, <1>6, <1>7 DEF Next

-----------------------------------------------------------------------------
(* The invariant holds initially, for every value of the constants.        *)
LEMMA IInvInit == Init => IInv
<1> SUFFICES ASSUME Init PROVE IInv
  OBVIOUS
<1> USE DEF Init, EngineInit
<1>1. HelperOK /\ RowsOK /\ ControlOK /\ FlagsOK /\ PlacesOK /\ AimsOK
  BY DEF HelperOK, RowsOK, ControlOK, FlagsOK, PlacesOK, AimsOK, Shown, Places
<1>2. ServerOK
  BY DEF ServerOK
<1>3. Aimed /\ Sound /\ KeptIsUsed /\ LeaseIsUsed /\ LateIsLast
  BY DEF Aimed, Sound, KeptIsUsed, LeaseIsUsed, LateIsLast
<1> QED
  BY <1>1, <1>2, <1>3, EngineTypes, ServerTypes DEF IInv

(* Every step keeps it.                                                    *)
LEMMA IInvStep == IInv /\ [Next]_vars => IInv'
BY Moves, SoundKept, TypesKept, UseKept, LateKept DEF IInv

(* So it always holds.                                                     *)
LEMMA Invariant == Spec => []IInv
BY IInvInit, IInvStep, PTL DEF Spec

(* Type correctness of the server and the engine: in particular no thread  *)
(* persists anything but a state of the schema, and none makes more runs   *)
(* than it has to.                                                         *)
THEOREM ServerTyped == Spec => []TypeOK
<1>1. IInv => TypeOK
  BY DEF IInv
<1> QED
  BY <1>1, Invariant, PTL

(* Whenever the server is idle the machine has the user's settings and the *)
(* lease is free, however many experiments, validations, cancels and       *)
(* restore requests contended, unless a call failed, the kernel refused a  *)
(* write, or the server was killed and nothing was restored since.         *)
THEOREM IdleIsStock == Spec => []QuietIsStock
<1>1. ASSUME IInv PROVE QuietIsStock
  <2>1. SUFFICES ASSUME Quiet, ~broken, ~lost, ~unsettled
                 PROVE  hw = Stock /\ kept = {} /\ ~lease
    BY DEF QuietIsStock
  <2>2. \A t \in Threads : pc[t] \notin Bound \cup {"close"}
    BY <2>1 DEF Quiet, Bound
  <2>3. kept = {} /\ ~lease
    BY <1>1, <2>1, <2>2 DEF IInv, KeptIsUsed, LeaseIsUsed
  <2> QED
    BY <1>1, <2>1, <2>3 DEF IInv, Sound
<1> QED
  BY <1>1, Invariant, PTL

(* A thread launches at most one workload after its event was set, unless  *)
(* the start of a validation replaced the event.                           *)
THEOREM OneMoreLaunch == Spec => OneRunAfterCancel
<1> DEFINE Once == \A t \in Threads :
                     (pc[t] = "launch" /\ pc'[t] = "running" /\ Cancelled(t)) => t \notin late
<1>1. IInv /\ [Next]_vars => [Once]_vars
  BY DEF IInv, LateIsLast
<1> QED
  BY <1>1, Invariant, PTL DEF OneRunAfterCancel, Spec

=============================================================================
