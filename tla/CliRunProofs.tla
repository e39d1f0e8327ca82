---------------------------- MODULE CliRunProofs ----------------------------
(***************************************************************************)
(* Proofs about CliRun, for any number of run-fixed processes.             *)
(***************************************************************************)
EXTENDS CliRun, FiniteSetTheorems, TLAPS

USE RunsAssumption DEF Settings

-----------------------------------------------------------------------------
(* The row's UPDATE, with the audit row still to insert, keeps the columns' *)
(* types.                                                                   *)
LEMMA UpdateColumns ==
  ASSUME ColumnsOK, NEW e \in Runs, NEW to \in States, Update(e, to)
  PROVE  ColumnsOK'
<1>1. row' = [row EXCEPT ![e] = to] /\ pending' = [pending EXCEPT ![e] = {<<row[e], to>>}]
      /\ UNCHANGED <<status, audit>>
  BY DEF Update
<1>2. to \in Rows /\ row[e] \in Rows
  BY DEF ColumnsOK, Rows
<1>3. {<<row[e], to>>} \in SUBSET Moves
  BY <1>2 DEF Moves
<1> QED
  BY <1>1, <1>2, <1>3 DEF ColumnsOK

(* So does the audit row's INSERT.                                         *)
LEMMA InsertColumns ==
  ASSUME ColumnsOK, NEW e \in Runs, Insert(e)
  PROVE  ColumnsOK'
<1>1. PICK step \in pending[e] : audit' = [audit EXCEPT ![e] = Append(@, step)]
  BY DEF Insert
<1>2. step \in Moves /\ audit[e] \in Seq(Moves)
  BY DEF ColumnsOK
<1>3. Append(audit[e], step) \in Seq(Moves)
  BY <1>2
<1>4. pending' = [pending EXCEPT ![e] = {}] /\ UNCHANGED <<row, status>>
  BY DEF Insert
<1> QED
  BY <1>1, <1>3, <1>4 DEF ColumnsOK

(* The helper answers as Lease says: its state keeps its type.             *)
LEMMA HelperStep ==
  ASSUME HelperOK, H!Apply \/ H!Release \/ H!Open \/ H!Drop,
         holder' = holder \/ \E e \in SUBSET Runs : holder' = e
  PROVE  HelperOK'
BY DEF HelperOK, H!Apply, H!Release, H!Open, H!Drop

(* The points and column values the actions name.                          *)
LEMMA Names ==
  /\ {"begin", "apply", "check", "prepare", "open", "measure", "running", "ready", "failed",
           "finally", "restoring", "call", "returned", "threw", "restored", "broken", "end",
           "exit", "raised", "dead"} \subseteq Points
  /\ {"IDLE", "CHECKING", "PREPARING", "PROFILING", "PROFILE_READY", "FAILED",
      "RESTORING", "RESTORED", "RECOVERY_REQUIRED"} \subseteq States
  /\ {"restoring", "restored", "recovery_required"} \subseteq RestorationStatus
BY DEF Points, Stopped, States, RestorationStatus

(* Moving a process to another point.                                      *)
LEMMA GotoPoint ==
  ASSUME pc \in [Runs -> Points], NEW e \in Runs, NEW p \in Points, Goto(e, p)
  PROVE  pc' \in [Runs -> Points]
BY DEF Goto

(* One transition of the lifecycle.                                        *)
LEMMA AdvanceType ==
  ASSUME TypeOK, NEW e \in Runs, NEW point, NEW to \in States, NEW next \in Points,
         Advance(e, point, to, next)
  PROVE  TypeOK'
<1>1. Update(e, to) /\ Goto(e, next) /\ UNCHANGED <<helper, history>>
  BY DEF Advance
<1>2. ColumnsOK' /\ pc' \in [Runs -> Points]
  BY <1>1, UpdateColumns, GotoPoint DEF TypeOK
<1> QED
  BY <1>1, <1>2 DEF TypeOK, HelperOK, helper, history

(* Every step of every process keeps the type invariant.                   *)
LEMMA TypeStep == TypeOK /\ [Next]_vars => TypeOK'
<1> SUFFICES ASSUME TypeOK, [Next]_vars PROVE TypeOK'
  OBVIOUS
<1> USE DEF vars, helper, columns, history
<1>1. ASSUME NEW e \in Runs, Insert(e) PROVE TypeOK'
  BY <1>1, InsertColumns DEF Insert, TypeOK, HelperOK
<1>2. ASSUME NEW e \in Runs, Create(e) PROVE TypeOK'
  BY <1>2, UpdateColumns, GotoPoint, Names DEF Create, TypeOK, HelperOK
<1>3. ASSUME NEW e \in Runs, Begin(e) PROVE TypeOK'
  <2>1. HelperOK' /\ pc' \in [Runs -> Points]
    BY <1>3, HelperStep, GotoPoint, Names DEF Begin, Open, TypeOK, HelperOK
  <2> QED
    BY <1>3, <2>1 DEF Begin, TypeOK, ColumnsOK
<1>4. ASSUME NEW e \in Runs, Apply(e) PROVE TypeOK'
  <2>1. HelperOK' /\ pc' \in [Runs -> Points]
    BY <1>4, HelperStep, GotoPoint, Names DEF Apply, Write, TypeOK, HelperOK
  <2>2. clean' \in [Runs -> BOOLEAN]
    BY <1>4 DEF Apply, Spoil, TypeOK
  <2> QED
    BY <1>4, <2>1, <2>2 DEF Apply, TypeOK, ColumnsOK
<1>5. ASSUME NEW e \in Runs, OpenBracket(e) \/ Conclude(e) PROVE TypeOK'
  BY <1>5, AdvanceType, Names DEF OpenBracket, Conclude
<1>6. ASSUME NEW e \in Runs, Launch(e) PROVE TypeOK'
  <2>1. clean' \in [Runs -> BOOLEAN]
    BY <1>6 DEF Launch, TypeOK
  <2> QED
    BY <1>6, <2>1, GotoPoint, Names DEF Launch, TypeOK, HelperOK, ColumnsOK
<1>7. ASSUME NEW e \in Runs, Measured(e) PROVE TypeOK'
  <2>1. record' \in [Runs -> {"none", "as labelled", "otherwise"}]
    BY <1>7 DEF Measured, TypeOK
  <2>2. pc' \in [Runs -> Points]
    BY <1>7, GotoPoint, Names DEF Measured, TypeOK
  <2> QED
    BY <1>7, <2>1, <2>2 DEF Measured, TypeOK, HelperOK, ColumnsOK
<1>8. ASSUME NEW e \in Runs, Restore(e) PROVE TypeOK'
  <2>1. ColumnsOK' /\ pc' \in [Runs -> Points]
    BY <1>8, UpdateColumns, GotoPoint, Names DEF Restore, TypeOK, ColumnsOK
  <2> QED
    BY <1>8, <2>1 DEF Restore, TypeOK, HelperOK
<1>9. ASSUME NEW e \in Runs, CallRestore(e) PROVE TypeOK'
  <2>1. HelperOK' /\ pc' \in [Runs -> Points]
    BY <1>9, HelperStep, GotoPoint, Names DEF CallRestore, PutBack, Mismatch, TypeOK, HelperOK
  <2>2. clean' \in [Runs -> BOOLEAN] /\ faults' \subseteq {"mismatch", "unreachable"}
    BY <1>9 DEF CallRestore, Spoil, TypeOK
  <2> QED
    BY <1>9, <2>1, <2>2 DEF CallRestore, TypeOK, ColumnsOK
<1>10. ASSUME NEW e \in Runs, WriteOutcome(e) PROVE TypeOK'
  <2>1. ASSUME NEW point, NEW s \in RestorationStatus, NEW next \in Points,
               SetStatus(e, point, s, next)
        PROVE  TypeOK'
    <3>1. status' \in [Runs -> RestorationStatus]
      BY <2>1 DEF SetStatus, TypeOK, ColumnsOK
    <3> QED
      BY <2>1, <3>1, GotoPoint DEF SetStatus, TypeOK, HelperOK, ColumnsOK
  <2> QED
    BY <1>10, <2>1, AdvanceType, Names DEF WriteOutcome
<1>11. ASSUME NEW e \in Runs, EndSession(e) PROVE TypeOK'
  <2>1. HelperOK' /\ pc' \in [Runs -> Points]
    BY <1>11, HelperStep, GotoPoint, Names DEF EndSession, TypeOK, HelperOK
  <2>2. ended' \in BOOLEAN /\ faults' \subseteq {"mismatch", "unreachable"}
    BY <1>11 DEF EndSession, Cut, TypeOK
  <2> QED
    BY <1>11, <2>1, <2>2 DEF EndSession, TypeOK, ColumnsOK
<1>12. ASSUME NEW e \in Runs, Interrupt(e) PROVE TypeOK'
  <2>1. pending' \in [Runs -> SUBSET Moves]
    BY <1>12 DEF Interrupt, TypeOK, ColumnsOK
  <2> QED
    BY <1>12, <2>1, GotoPoint, Names DEF Interrupt, TypeOK, HelperOK, ColumnsOK
<1>13. ASSUME NEW e \in Runs, Kill(e) PROVE TypeOK'
  BY <1>13, GotoPoint, Names DEF Kill, TypeOK, HelperOK, ColumnsOK
<1>14. CASE Watchdog
  <2>1. HelperOK'
    BY <1>14, HelperStep DEF Watchdog, PutBack, TypeOK, HelperOK
  <2>2. clean' \in [Runs -> BOOLEAN] /\ ended' \in BOOLEAN
    BY <1>14 DEF Watchdog, Spoil, Cut, TypeOK
  <2> QED
    BY <1>14, <2>1, <2>2 DEF Watchdog, TypeOK, ColumnsOK
<1>15. CASE Finished \/ UNCHANGED vars
  BY <1>15 DEF Finished, TypeOK, HelperOK, ColumnsOK
<1> QED
  BY <1>1, <1>2, <1>3, <1>4, <1>5, <1>6, <1>7, <1>8, <1>9, <1>10, <1>11, <1>12,
     <1>13, <1>14, <1>15 DEF Next, Step

(* Columns, sequence of audit rows, control points and the helper's state  *)
(* keep their types.                                                       *)
THEOREM CliTypeCorrect == Spec => []TypeOK
<1>1. Init => TypeOK
  <2> SUFFICES ASSUME Init PROVE TypeOK
    OBVIOUS
  <2>1. HelperOK /\ ended \in BOOLEAN /\ faults \subseteq {"mismatch", "unreachable"}
    BY DEF Init, HelperOK
  <2>2. <<>> \in Seq(Moves) /\ {} \in SUBSET Moves /\ "NONE" \in Rows
    BY DEF Rows
  <2>3. ColumnsOK
    BY <2>2 DEF Init, ColumnsOK, RestorationStatus
  <2>4. "create" \in Points
    BY DEF Points
  <2> QED
    BY <2>1, <2>3, <2>4 DEF Init, TypeOK
<1> QED
  BY <1>1, TypeStep, PTL DEF Spec

-----------------------------------------------------------------------------
(* The inductive invariants.                                               *)

(* From begin_session's answer to the call of restore.                     *)
InSession == {"apply", "check", "prepare", "open", "measure", "running", "ready", "failed",
              "finally", "restoring", "call"}

(* From an accepted apply_configuration to the end of the measurement.     *)
InForce == {"check", "prepare", "open", "measure", "running"}

(* While no living process's session was ended for it, a process between   *)
(* begin_session and restore is the lease's only holder, and its settings  *)
(* are in force from its apply to the end of its measurement.              *)
Exclusive(e) ==
  /\ pc[e] \in InSession => lease /\ holder = {e}
  /\ pc[e] \in InForce => hw = e
  /\ pc[e] = "running" => clean[e]
  /\ record[e] # "otherwise"

ExclusiveInv == ~ended => \A e \in Runs : Exclusive(e)

(* After its apply, and not yet restored.                                  *)
Unrestored == (InSession \ {"apply"}) \cup {"raised", "dead"}

(* Something may still hold the lease.                                     *)
Unfinished == Unrestored \cup {"apply", "returned", "threw", "restored", "broken", "end"}

(* While no call of the helper failed, what the helper keeps is what was   *)
(* in force before, and somebody has still to restore it.                  *)
OwedInv ==
  faults = {} => /\ kept \subseteq {"stock"}
                 /\ hw # "stock" => kept # {}
                 /\ kept # {} => \E e \in Runs : pc[e] \in Unrestored
                 /\ lease => \E e \in Runs : pc[e] \in Unfinished

(* Every step keeps a session exclusive, or notes that it was ended.       *)
LEMMA ExclusiveStep == TypeOK /\ ExclusiveInv /\ [Next]_vars => ExclusiveInv'
<1> SUFFICES ASSUME TypeOK, ExclusiveInv, [Next]_vars PROVE ExclusiveInv'
  OBVIOUS
<1> USE DEF helper, columns, history
<1>0. \A e \in Runs : \A p : Goto(e, p) => \A f \in Runs : pc'[f] = IF f = e THEN p ELSE pc[f]
  BY DEF Goto, TypeOK
<1>q. ASSUME NEW e \in Runs, NEW point, NEW next \in Points, pc[e] = point, Goto(e, next),
             UNCHANGED <<helper, history>>,
             next \in InSession => point \in InSession,
             next \in InForce => point \in InForce, next # "running"
      PROVE  ExclusiveInv'
  BY <1>0, <1>q DEF ExclusiveInv, Exclusive
<1> USE DEF InSession, InForce
<1>1. ASSUME NEW e \in Runs, Insert(e) PROVE ExclusiveInv'
  BY <1>1 DEF Insert, ExclusiveInv, Exclusive
<1>2. ASSUME NEW e \in Runs, Create(e) PROVE ExclusiveInv'
  BY <1>2, <1>q, Names DEF Create, At
<1>3. ASSUME NEW e \in Runs, Begin(e) PROVE ExclusiveInv'
  <2>1. CASE Open(e)
    <3>1. /\ ~lease /\ lease' = TRUE /\ holder' = {e} /\ UNCHANGED <<hw, clean, record, ended>>
      BY <1>3, <2>1 DEF Begin, Open, H!Open
    <3>2. \A f \in Runs : pc'[f] = IF f = e THEN pc'[e] ELSE pc[f]
      BY <1>0, <1>3 DEF Begin
    <3>3. pc'[e] \in {"apply", "exit"}
      BY <1>0, <1>3 DEF Begin
    <3> QED
      BY <3>1, <3>2, <3>3 DEF ExclusiveInv, Exclusive
  <2>2. CASE UNCHANGED helper /\ Goto(e, "exit")
    BY <1>0, <1>3, <2>2 DEF Begin, ExclusiveInv, Exclusive
  <2> QED
    BY <1>3, <2>1, <2>2 DEF Begin
<1>4. ASSUME NEW e \in Runs, Apply(e) PROVE ExclusiveInv'
  <2> SUFFICES ASSUME ~ended PROVE ExclusiveInv'
    BY <1>4 DEF Apply, ExclusiveInv
  <2>1. pc[e] = "apply" /\ UNCHANGED <<lease, holder, record, ended>>
    BY <1>4 DEF Apply, At, Write, H!Apply
  <2>2. \A f \in Runs \ {e} : pc[f] \notin InSession
    BY <2>1 DEF ExclusiveInv, Exclusive
  <2>3. \A f \in Runs : pc'[f] = IF f = e THEN pc'[e] ELSE pc[f]
    BY <1>0, <1>4 DEF Apply
  <2>4. pc'[e] = "finally" \/ (pc'[e] = "check" /\ hw' = e)
    BY <1>0, <1>4 DEF Apply
  <2> QED
    BY <2>1, <2>2, <2>3, <2>4 DEF ExclusiveInv, Exclusive
<1>5. ASSUME NEW e \in Runs, OpenBracket(e) \/ Conclude(e) PROVE ExclusiveInv'
  BY <1>5, <1>q, Names DEF OpenBracket, Conclude, Advance, At
<1>6. ASSUME NEW e \in Runs, Launch(e) PROVE ExclusiveInv'
  BY <1>0, <1>6 DEF Launch, At, ExclusiveInv, Exclusive, TypeOK
<1>7. ASSUME NEW e \in Runs, Measured(e) PROVE ExclusiveInv'
  BY <1>0, <1>7 DEF Measured, At, ExclusiveInv, Exclusive, TypeOK
<1>8. ASSUME NEW e \in Runs, Restore(e) PROVE ExclusiveInv'
  BY <1>8, <1>q, Names DEF Restore, At
<1>9. ASSUME NEW e \in Runs, CallRestore(e) PROVE ExclusiveInv'
  <2> SUFFICES ASSUME ~ended PROVE ExclusiveInv'
    BY <1>9 DEF CallRestore, ExclusiveInv
  <2>1. pc[e] = "call" /\ UNCHANGED <<record, ended>>
    BY <1>9 DEF CallRestore, At
  <2>2. \A f \in Runs \ {e} : pc[f] \notin InSession
    BY <2>1 DEF ExclusiveInv, Exclusive
  <2>3. \A f \in Runs : pc'[f] = IF f = e THEN pc'[e] ELSE pc[f]
    BY <1>0, <1>9 DEF CallRestore
  <2>4. pc'[e] \in {"returned", "threw"}
    BY <1>0, <1>9 DEF CallRestore
  <2> QED
    BY <2>1, <2>2, <2>3, <2>4 DEF ExclusiveInv, Exclusive
<1>10. ASSUME NEW e \in Runs, WriteOutcome(e) PROVE ExclusiveInv'
  BY <1>10, <1>q, Names DEF WriteOutcome, SetStatus, Advance, At
<1>11. ASSUME NEW e \in Runs, EndSession(e) PROVE ExclusiveInv'
  <2> SUFFICES ASSUME ~ended' PROVE ExclusiveInv'
    BY DEF ExclusiveInv
  <2>1. pc[e] = "end" /\ UNCHANGED <<hw, clean, record>>
    BY <1>11 DEF EndSession, At, H!Drop
  <2>2. \A f \in Runs : pc'[f] = IF f = e THEN pc'[e] ELSE pc[f]
    BY <1>0, <1>11 DEF EndSession
  <2>3. pc'[e] \in {"exit", "raised"}
    BY <1>0, <1>11 DEF EndSession
  <2>4. ~ended
    BY <1>11 DEF EndSession, Cut
  <2>5. CASE UNCHANGED helper
    BY <2>1, <2>2, <2>3, <2>4, <2>5 DEF ExclusiveInv, Exclusive
  <2>6. CASE Cut({e})
    <3>1. \A f \in Runs : pc[f] \notin InSession
      <4> SUFFICES ASSUME NEW f \in Runs, pc[f] \in InSession PROVE FALSE
        OBVIOUS
      <4>1. lease /\ holder = {f}
        BY <2>4 DEF ExclusiveInv, Exclusive
      <4>2. f \in holder \ {e} /\ pc[f] \notin Stopped
        BY <2>1, <4>1 DEF Stopped
      <4> QED
        BY <2>6, <4>1, <4>2 DEF Cut
    <3> QED
      BY <2>1, <2>2, <2>3, <2>4, <3>1 DEF ExclusiveInv, Exclusive
  <2> QED
    BY <1>11, <2>5, <2>6 DEF EndSession
<1>12. ASSUME NEW e \in Runs, Interrupt(e) PROVE ExclusiveInv'
  BY <1>0, <1>12 DEF Interrupt, ExclusiveInv, Exclusive
<1>13. ASSUME NEW e \in Runs, Kill(e) PROVE ExclusiveInv'
  BY <1>0, <1>13 DEF Kill, ExclusiveInv, Exclusive
<1>14. CASE Watchdog
  <2> SUFFICES ASSUME ~ended' PROVE ExclusiveInv'
    BY DEF ExclusiveInv
  <2>1. ~ended /\ lease /\ UNCHANGED <<pc, record>>
    BY <1>14 DEF Watchdog, Cut
  <2>2. \A f \in Runs : pc[f] \notin InSession
    <3> SUFFICES ASSUME NEW f \in Runs, pc[f] \in InSession PROVE FALSE
      OBVIOUS
    <3>1. holder = {f} /\ pc[f] \notin Stopped
      BY <2>1 DEF ExclusiveInv, Exclusive, Stopped
    <3> QED
      BY <1>14, <2>1, <3>1 DEF Watchdog, Cut
  <2> QED
    BY <2>1, <2>2 DEF ExclusiveInv, Exclusive
<1>15. CASE Finished \/ UNCHANGED vars
  BY <1>15 DEF Finished, vars, ExclusiveInv, Exclusive
<1> QED
  BY <1>1, <1>2, <1>3, <1>4, <1>5, <1>6, <1>7, <1>8, <1>9, <1>10, <1>11, <1>12,
     <1>13, <1>14, <1>15 DEF Next, Step

(* Every step keeps somebody who has still to restore what is not stock.   *)
LEMMA OwedStep == TypeOK /\ OwedInv /\ [Next]_vars => OwedInv'
<1> SUFFICES ASSUME TypeOK, OwedInv, [Next]_vars, faults' = {} PROVE OwedInv'
  BY DEF OwedInv
<1> USE DEF helper, columns, history
<1>0. \A e \in Runs : \A p : Goto(e, p) => \A f \in Runs : pc'[f] = IF f = e THEN p ELSE pc[f]
  BY DEF Goto, TypeOK
<1>q. ASSUME NEW e \in Runs, NEW point, NEW next \in Points, pc[e] = point, Goto(e, next),
             UNCHANGED <<helper, faults>>,
             point \in Unrestored => next \in Unrestored,
             point \in Unfinished => next \in Unfinished
      PROVE  OwedInv'
  BY <1>0, <1>q DEF OwedInv
<1> USE DEF Unrestored, Unfinished, InSession
<1>1. ASSUME NEW e \in Runs, Insert(e) PROVE OwedInv'
  BY <1>1 DEF Insert, OwedInv
<1>2. ASSUME NEW e \in Runs, Create(e) PROVE OwedInv'
  BY <1>2, <1>q, Names DEF Create, At
<1>3. ASSUME NEW e \in Runs, Begin(e) PROVE OwedInv'
  <2>1. CASE Open(e) /\ Goto(e, "apply") /\ UNCHANGED faults
    BY <1>0, <1>3, <2>1 DEF Begin, At, Open, H!Open, OwedInv
  <2>2. CASE UNCHANGED <<helper, faults>> /\ Goto(e, "exit")
    BY <1>3, <2>2, <1>q, Names DEF Begin, At
  <2> QED
    BY <1>3, <2>1, <2>2 DEF Begin
<1>4. ASSUME NEW e \in Runs, Apply(e) PROVE OwedInv'
  <2>1. pc'[e] \in {"check", "finally"} /\ faults = {}
        /\ \A f \in Runs : f # e => pc'[f] = pc[f]
    BY <1>0, <1>4 DEF Apply
  <2>2. (Write \/ UNCHANGED helper) /\ pc[e] = "apply"
    BY <1>4 DEF Apply, At
  <2>3. kept' \subseteq {"stock"} /\ (hw' # "stock" => kept' # {})
    BY <2>1, <2>2 DEF Write, H!Apply, OwedInv
  <2> QED
    BY <2>1, <2>3 DEF OwedInv
<1>5. ASSUME NEW e \in Runs, OpenBracket(e) \/ Conclude(e) PROVE OwedInv'
  BY <1>5, <1>q, Names DEF OpenBracket, Conclude, Advance, At
<1>6. ASSUME NEW e \in Runs, Launch(e) PROVE OwedInv'
  BY <1>6, <1>q, Names DEF Launch, At
<1>7. ASSUME NEW e \in Runs, Measured(e) PROVE OwedInv'
  BY <1>7, <1>q, Names DEF Measured, At
<1>8. ASSUME NEW e \in Runs, Restore(e) PROVE OwedInv'
  BY <1>8, <1>q, Names DEF Restore, At
<1>9. ASSUME NEW e \in Runs, CallRestore(e) PROVE OwedInv'
  <2>1. pc'[e] \in {"returned", "threw"} /\ pc[e] = "call"
        /\ \A f \in Runs : f # e => pc'[f] = pc[f]
    BY <1>0, <1>9 DEF CallRestore, At
  <2>2. faults = {} /\ (PutBack \/ (kept = {} /\ UNCHANGED helper))
    BY <1>9 DEF CallRestore
  <2>3. hw' = "stock" /\ kept' = {}
    BY <2>2 DEF PutBack, H!Release, OwedInv
  <2> QED
    BY <2>1, <2>3 DEF OwedInv
<1>10. ASSUME NEW e \in Runs, WriteOutcome(e) PROVE OwedInv'
  BY <1>10, <1>q, Names DEF WriteOutcome, SetStatus, Advance, At
<1>11. ASSUME NEW e \in Runs, EndSession(e) PROVE OwedInv'
  <2>1. pc'[e] = "exit" /\ pc[e] = "end" /\ faults = {}
        /\ \A f \in Runs : f # e => pc'[f] = pc[f]
    BY <1>0, <1>11 DEF EndSession, At
  <2>2. ~lease' /\ UNCHANGED <<hw, kept>>
    BY <1>11 DEF EndSession, H!Drop
  <2> QED
    BY <2>1, <2>2 DEF OwedInv
<1>12. ASSUME NEW e \in Runs, Interrupt(e) PROVE OwedInv'
  <2>1. pc'[e] = "finally" /\ \A f \in Runs : f # e => pc'[f] = pc[f]
    BY <1>0, <1>12 DEF Interrupt
  <2> QED
    BY <1>12, <2>1 DEF Interrupt, OwedInv
<1>13. ASSUME NEW e \in Runs, Kill(e) PROVE OwedInv'
  <2>1. pc'[e] = "dead" /\ \A f \in Runs : f # e => pc'[f] = pc[f]
    BY <1>0, <1>13 DEF Kill
  <2> QED
    BY <1>13, <2>1 DEF Kill, OwedInv
<1>14. CASE Watchdog
  <2>1. ~lease' /\ faults = {} /\ UNCHANGED pc
    BY <1>14 DEF Watchdog, PutBack, H!Release, H!Drop
  <2>2. hw' = "stock" /\ kept' = {}
    BY <1>14, <2>1 DEF Watchdog, PutBack, H!Release, H!Drop, OwedInv
  <2> QED
    BY <2>1, <2>2 DEF OwedInv
<1>15. CASE Finished \/ UNCHANGED vars
  BY <1>15 DEF Finished, vars, OwedInv
<1> QED
  BY <1>1, <1>2, <1>3, <1>4, <1>5, <1>6, <1>7, <1>8, <1>9, <1>10, <1>11, <1>12,
     <1>13, <1>14, <1>15 DEF Next, Step

-----------------------------------------------------------------------------
(* Of any number of contending processes, each stored record was measured  *)
(* under the settings it is labelled with, unless a living process's       *)
(* session was ended by somebody else.                                     *)
THEOREM LabelsAreTrue == Spec => []MeasuredAsLabelled
<1>1. Init => ExclusiveInv
  BY DEF Init, ExclusiveInv, Exclusive, InSession, InForce
<1>2. ExclusiveInv => MeasuredAsLabelled
  BY DEF ExclusiveInv, Exclusive, MeasuredAsLabelled
<1> QED
  BY <1>1, <1>2, CliTypeCorrect, ExclusiveStep, PTL DEF Spec

(* When every process has ended normally and no call of the helper failed, *)
(* nothing is left in force, kept or leased.                               *)
THEOREM NormalExitIsStock == Spec => []ExitIsStock
<1>1. Init => OwedInv
  BY DEF Init, OwedInv
<1>2. OwedInv => ExitIsStock
  BY DEF OwedInv, ExitIsStock, Unrestored, Unfinished, InSession
<1> QED
  BY <1>1, <1>2, CliTypeCorrect, OwedStep, PTL DEF Spec

-----------------------------------------------------------------------------
(* The audit rows.                                                         *)

(* Where a path has got to.                                                *)
Tip(path) == IF path = <<>> THEN "NONE" ELSE path[Len(path)][2]

Linked(path) == \A i \in 2..Len(path) : path[i][1] = path[i - 1][2]

(* One move at most is missing.                                            *)
Torn(path) ==
  \E k \in 2..Len(path) :
    /\ <<path[k - 1][2], path[k][1]>> \in Allowed
    /\ \A i \in 2..Len(path) : i # k => path[i][1] = path[i - 1][2]

Sane(path) ==
  /\ path # <<>> => path[1] = <<"NONE", "IDLE">>
  /\ \A i \in 2..Len(path) : path[i] \in Allowed

Follows(path, step) == IF path = <<>> THEN step = <<"NONE", "IDLE">> ELSE step \in Allowed

(* Out of reach of an interrupt that drops an audit row.                   *)
Early == {"create", "begin", "apply", "check", "prepare", "open", "measure", "running",
          "ready", "failed"}

Safe(e) ==
  /\ pc[e] \notin Early
  /\ pc[e] = "finally" => pending[e] = {}

(* How the rows that are there join the next one, which leaves from state. *)
Joined(path, safe, state) ==
  \/ Linked(path) /\ Tip(path) = state
  \/ safe /\ path # <<>> /\ Linked(path) /\ <<Tip(path), state>> \in Allowed
  \/ safe /\ Torn(path) /\ Tip(path) = state

Recorded(e) ==
  \/ pending[e] = {} /\ Joined(audit[e], Safe(e), row[e])
  \/ \E state \in Rows :
       /\ pending[e] = {<<state, row[e]>>} /\ Follows(audit[e], <<state, row[e]>>)
       /\ Joined(audit[e], Safe(e), state)

PathOf(e) ==
  /\ Sane(audit[e]) /\ Recorded(e)
  /\ row[e] = "NONE" <=> pc[e] = "create"
  /\ pc[e] = "create" => audit[e] = <<>>
  /\ audit[e] = <<>> => pc[e] \in {"create", "begin", "dead"}

PathInv == \A e \in Runs : PathOf(e)

(* Inserting the row that is due leaves a path that is sane and joined to  *)
(* the state the row moved to.                                             *)
LEMMA Extended ==
  ASSUME NEW path \in Seq(Moves), NEW step \in Moves, NEW safe \in BOOLEAN,
         NEW new, new = Append(path, step),
         Sane(path), Follows(path, step), Joined(path, safe, step[1])
  PROVE  Sane(new) /\ new # <<>> /\ Joined(new, safe, step[2])
<1>1. /\ new # <<>> /\ Len(path) \in Nat /\ Len(new) = Len(path) + 1
      /\ new[Len(path) + 1] = step /\ Tip(new) = step[2]
      /\ \A i \in 1..Len(path) : new[i] = path[i]
      /\ path = <<>> <=> Len(path) = 0
  BY DEF Tip
<1>2. Sane(new)
  <2>1. CASE path = <<>>
    BY <1>1, <2>1 DEF Sane, Follows
  <2>2. CASE path # <<>>
    <3>1. new[1] = <<"NONE", "IDLE">>
      BY <1>1, <2>2 DEF Sane
    <3>2. ASSUME NEW i \in 2..Len(new) PROVE new[i] \in Allowed
      <4>1. CASE i \in 1..Len(path)
        BY <1>1, <4>1 DEF Sane
      <4>2. CASE i = Len(path) + 1
        BY <1>1, <2>2, <4>2 DEF Follows
      <4> QED
        BY <1>1, <4>1, <4>2
    <3> QED
      BY <3>1, <3>2 DEF Sane
  <2> QED
    BY <2>1, <2>2
<1>3. \A i \in 2..Len(new) : i \in 2..Len(path) \/ i = Len(path) + 1
  BY <1>1
<1>4. \A i \in 2..Len(path) : new[i] = path[i] /\ new[i - 1] = path[i - 1]
  BY <1>1
<1>5. path # <<>> => new[Len(path)][2] = Tip(path) /\ Len(path) + 1 \in 2..Len(new)
  BY <1>1 DEF Tip
<1>6. CASE Linked(path) /\ Tip(path) = step[1]
  <2>1. ASSUME NEW i \in 2..Len(new) PROVE new[i][1] = new[i - 1][2]
    <3>1. CASE i \in 2..Len(path)
      BY <1>4, <1>6, <3>1 DEF Linked
    <3>2. CASE i = Len(path) + 1
      <4>1. path # <<>> /\ i - 1 = Len(path)
        BY <1>1, <3>2
      <4> QED
        BY <1>1, <1>5, <1>6, <3>2, <4>1
    <3> QED
      BY <1>3, <3>1, <3>2
  <2> QED
    BY <1>1, <1>2, <2>1 DEF Linked, Joined
<1>7. CASE safe /\ path # <<>> /\ Linked(path) /\ <<Tip(path), step[1]>> \in Allowed
  <2>1. Torn(new)
    <3> DEFINE k == Len(path) + 1
    <3>1. k \in 2..Len(new) /\ k - 1 = Len(path)
      BY <1>1, <1>5, <1>7
    <3>2. <<new[k - 1][2], new[k][1]>> \in Allowed
      BY <1>1, <1>5, <1>7, <3>1
    <3>3. \A i \in 2..Len(new) : i # k => new[i][1] = new[i - 1][2]
      BY <1>3, <1>4, <1>7 DEF Linked
    <3> QED
      BY <3>1, <3>2, <3>3 DEF Torn
  <2> QED
    BY <1>1, <1>2, <1>7, <2>1 DEF Joined
<1>8. CASE safe /\ Torn(path) /\ Tip(path) = step[1]
  <2>1. PICK k \in 2..Len(path) :
          /\ <<path[k - 1][2], path[k][1]>> \in Allowed
          /\ \A i \in 2..Len(path) : i # k => path[i][1] = path[i - 1][2]
    BY <1>8 DEF Torn
  <2>2. k \in 2..Len(new) /\ path # <<>>
    BY <1>1
  <2>3. <<new[k - 1][2], new[k][1]>> \in Allowed
    BY <1>4, <2>1
  <2>4. ASSUME NEW i \in 2..Len(new), i # k PROVE new[i][1] = new[i - 1][2]
    <3>1. CASE i \in 2..Len(path)
      BY <1>4, <2>1, <2>4, <3>1
    <3>2. CASE i = Len(path) + 1
      <4>1. i - 1 = Len(path)
        BY <1>1, <3>2
      <4> QED
        BY <1>1, <1>5, <1>8, <2>2, <3>2, <4>1
    <3> QED
      BY <1>3, <3>1, <3>2
  <2>5. Torn(new)
    BY <2>2, <2>3, <2>4 DEF Torn
  <2> QED
    BY <1>1, <1>2, <1>8, <2>5 DEF Joined
<1> QED
  BY <1>6, <1>7, <1>8 DEF Joined

(* An experiment that exists has a row, or its first is due.               *)
LEMMA Begun ==
  ASSUME NEW e \in Runs, PathOf(e), audit[e] \in Seq(Moves), pending[e] = {}, pc[e] # "create"
  PROVE  audit[e] # <<>>
<1>1. Joined(audit[e], Safe(e), row[e]) /\ row[e] # "NONE"
  BY DEF PathOf, Recorded
<1>2. Torn(audit[e]) => audit[e] # <<>>
  BY DEF Torn
<1> QED
  BY <1>1, <1>2 DEF Joined, Tip

(* A process that moves on leaves its columns as they are.                 *)
LEMMA MovedOn ==
  ASSUME NEW e \in Runs, PathOf(e), audit[e] \in Seq(Moves),
         row'[e] = row[e], audit'[e] = audit[e], pending'[e] = pending[e],
         Safe(e) => Safe(e)',
         \/ pc'[e] = pc[e]
         \/ pc[e] # "create" /\ pc'[e] # "create" /\ (pending[e] = {} \/ pc'[e] = "dead")
  PROVE  PathOf(e)'
<1>1. /\ row'[e] = "NONE" <=> pc'[e] = "create"
      /\ pc'[e] = "create" => audit[e] = <<>>
      /\ audit[e] = <<>> => pc'[e] \in {"create", "begin", "dead"}
  BY Begun DEF PathOf
<1>2. ASSUME NEW state, Joined(audit[e], Safe(e), state) PROVE Joined(audit[e], Safe(e)', state)
  BY <1>2 DEF Joined
<1>3. Recorded(e)'
  <2>1. CASE pending[e] = {} /\ Joined(audit[e], Safe(e), row[e])
    BY <1>2, <2>1 DEF Recorded
  <2>2. CASE \E state \in Rows :
               /\ pending[e] = {<<state, row[e]>>} /\ Follows(audit[e], <<state, row[e]>>)
               /\ Joined(audit[e], Safe(e), state)
    BY <1>2, <2>2 DEF Recorded
  <2> QED
    BY <2>1, <2>2 DEF PathOf, Recorded
<1> QED
  BY <1>1, <1>3 DEF PathOf

(* The row's UPDATE along an allowed edge.                                 *)
LEMMA Updated ==
  ASSUME NEW e \in Runs, ColumnsOK, PathOf(e), pending[e] = {}, pc[e] # "create", pc'[e] # "create",
         NEW to \in States, Permitted(e, to), Update(e, to), Safe(e) => Safe(e)'
  PROVE  PathOf(e)'
<1>1. /\ row'[e] = to /\ pending'[e] = {<<row[e], to>>} /\ audit'[e] = audit[e]
      /\ row[e] \in Rows /\ audit[e] \in Seq(Moves) /\ to # "NONE"
  BY DEF Update, ColumnsOK, Rows, States
<1>2. audit[e] # <<>> /\ Follows(audit[e], <<row[e], to>>)
  BY <1>1, Begun DEF Permitted, Follows
<1>3. Joined(audit[e], Safe(e)', row[e])
  BY DEF PathOf, Recorded, Joined
<1>4. Recorded(e)'
  BY <1>1, <1>2, <1>3 DEF Recorded
<1> QED
  BY <1>1, <1>2, <1>4 DEF PathOf

(* The row is created before anything is recorded.                         *)
LEMMA Created ==
  ASSUME NEW e \in Runs, ColumnsOK, PathOf(e), pc \in [Runs -> Points], Create(e)
  PROVE  PathOf(e)'
<1>1. /\ row'[e] = "IDLE" /\ pending'[e] = {<<row[e], "IDLE">>} /\ audit'[e] = audit[e]
      /\ pc[e] = "create" /\ pc'[e] = "begin" /\ pending[e] = {} /\ audit[e] \in Seq(Moves)
  BY DEF Create, Update, At, Goto, ColumnsOK
<1>2. row[e] = "NONE" /\ "NONE" \in Rows /\ ~Safe(e)
  BY <1>1 DEF PathOf, Rows, Safe, Early
<1>3. Linked(audit[e]) /\ Tip(audit[e]) = "NONE"
  BY <1>1, <1>2 DEF PathOf, Recorded, Joined
<1>4. audit[e] = <<>>
  BY <1>1 DEF PathOf
<1>5. Follows(audit[e], <<"NONE", "IDLE">>) /\ Joined(audit[e], Safe(e)', "NONE")
  BY <1>3, <1>4 DEF Follows, Joined
<1>6. Recorded(e)'
  BY <1>1, <1>2, <1>5 DEF Recorded
<1> QED
  BY <1>1, <1>4, <1>6 DEF PathOf

(* The audit row's INSERT.                                                 *)
LEMMA Inserted ==
  ASSUME NEW e \in Runs, ColumnsOK, PathOf(e), pc \in [Runs -> Points], Insert(e)
  PROVE  PathOf(e)'
<1>1. PICK step \in pending[e] : audit' = [audit EXCEPT ![e] = Append(@, step)]
  BY DEF Insert
<1>2. /\ audit'[e] = Append(audit[e], step) /\ pending'[e] = {} /\ UNCHANGED <<row, pc>>
      /\ audit[e] \in Seq(Moves) /\ step \in Moves /\ pc[e] \notin Stopped
  BY <1>1 DEF Insert, ColumnsOK
<1>3. /\ step[2] = row[e] /\ Follows(audit[e], step)
      /\ Joined(audit[e], Safe(e), step[1])
  <2>1. PICK state \in Rows :
          /\ pending[e] = {<<state, row[e]>>} /\ Follows(audit[e], <<state, row[e]>>)
          /\ Joined(audit[e], Safe(e), state)
    BY <1>1 DEF PathOf, Recorded
  <2>2. step = <<state, row[e]>>
    BY <1>1, <2>1
  <2>3. step[1] = state /\ step[2] = row[e]
    BY <2>2
  <2> QED
    BY <2>1, <2>2, <2>3
<1>4. Safe(e) \in BOOLEAN /\ (Safe(e) => Safe(e)')
  BY <1>2 DEF Safe
<1>5. Sane(audit'[e]) /\ audit'[e] # <<>> /\ Joined(audit'[e], Safe(e), step[2])
  BY <1>2, <1>3, <1>4, Extended DEF PathOf
<1>6. Recorded(e)'
  BY <1>2, <1>3, <1>4, <1>5 DEF Recorded, Joined
<1>7. pc[e] # "create"
  <2>1. pc[e] = "create" => row[e] = "NONE"
    BY DEF PathOf
  <2>2. step[2] \in States
    BY <1>2 DEF Moves
  <2> QED
    BY <1>3, <2>1, <2>2 DEF States
<1> QED
  BY <1>2, <1>5, <1>6, <1>7 DEF PathOf

(* An interrupt between the two commits: the one row that is missing.      *)
LEMMA Interrupted ==
  ASSUME NEW e \in Runs, ColumnsOK, PathOf(e), pc \in [Runs -> Points], Interrupt(e)
  PROVE  PathOf(e)'
<1>1. /\ pc'[e] = "finally" /\ pending'[e] = {} /\ UNCHANGED <<row, audit>>
      /\ ~Safe(e) /\ pc[e] \notin {"create", "begin", "dead"}
  BY DEF Interrupt, Goto, Safe, Early, ColumnsOK
<1>2. Safe(e)' /\ audit[e] # <<>>
  BY <1>1 DEF Safe, Early, PathOf
<1>3. \E state : /\ state = row[e] \/ <<state, row[e]>> \in Allowed
                 /\ Linked(audit[e]) /\ Tip(audit[e]) = state
  BY <1>1, <1>2 DEF PathOf, Recorded, Joined, Follows
<1>4. Joined(audit[e], TRUE, row[e])
  BY <1>2, <1>3 DEF Joined
<1>5. Recorded(e)'
  BY <1>1, <1>2, <1>4 DEF Recorded, Joined
<1> QED
  BY <1>1, <1>2, <1>5 DEF PathOf

(* What a step of one process leaves to the others.                        *)
LEMMA Others ==
  ASSUME PathInv, ColumnsOK, NEW e \in Runs, PathOf(e)',
         \A f \in Runs \ {e} : /\ row'[f] = row[f] /\ audit'[f] = audit[f]
                               /\ pending'[f] = pending[f] /\ pc'[f] = pc[f]
  PROVE  PathInv'
<1>1. ASSUME NEW f \in Runs, f # e PROVE PathOf(f)'
  <2>1. /\ row'[f] = row[f] /\ audit'[f] = audit[f] /\ pending'[f] = pending[f] /\ pc'[f] = pc[f]
    BY <1>1
  <2>2. PathOf(f) /\ audit[f] \in Seq(Moves)
    BY DEF PathInv, ColumnsOK
  <2>3. Safe(f) => Safe(f)'
    BY <2>1 DEF Safe
  <2> QED
    BY <2>1, <2>2, <2>3, MovedOn
<1> QED
  BY <1>1 DEF PathInv

(* Every step keeps every experiment's path.                               *)
LEMMA PathStep == TypeOK /\ PathInv /\ [Next]_vars => PathInv'
<1> SUFFICES ASSUME TypeOK, PathInv, [Next]_vars PROVE PathInv'
  OBVIOUS
<1>0. ColumnsOK /\ pc \in [Runs -> Points] /\ \A e \in Runs : PathOf(e) /\ audit[e] \in Seq(Moves)
  BY DEF TypeOK, ColumnsOK, PathInv
<1>1. ASSUME NEW e \in Runs, NEW point, NEW next, UNCHANGED <<row, audit, pending>>,
             At(e, point), Goto(e, next), point # "create", next # "create",
             point \in Early \/ next \notin Early
      PROVE  PathInv'
  <2>1. /\ pc[e] = point /\ pc'[e] = next /\ pending[e] = {}
        /\ \A f \in Runs \ {e} : pc'[f] = pc[f]
    BY <1>0, <1>1 DEF At, Goto
  <2>2. Safe(e) => Safe(e)'
    BY <1>1, <2>1 DEF Safe
  <2>3. PathOf(e)'
    BY <1>0, <1>1, <2>1, <2>2, MovedOn
  <2> QED
    BY <1>0, <1>1, <2>1, <2>3, Others
<1>2. ASSUME NEW e \in Runs, NEW point, NEW next, NEW to \in States, Update(e, to), Permitted(e, to),
             At(e, point), Goto(e, next), point # "create", next # "create",
             point \in Early \/ next \notin Early, next = "finally" => point \in Early
      PROVE  PathInv'
  <2>1. /\ pc[e] = point /\ pc'[e] = next /\ pending[e] = {}
        /\ \A f \in Runs \ {e} : pc'[f] = pc[f]
    BY <1>0, <1>2 DEF At, Goto
  <2>2. Safe(e) => Safe(e)'
    BY <1>2, <2>1 DEF Safe
  <2>3. PathOf(e)'
    BY <1>0, <1>2, <2>1, <2>2, Updated
  <2>4. \A f \in Runs \ {e} : row'[f] = row[f] /\ audit'[f] = audit[f] /\ pending'[f] = pending[f]
    BY <1>0, <1>2 DEF Update, ColumnsOK
  <2> QED
    BY <1>0, <2>1, <2>3, <2>4, Others
<1>3. ASSUME NEW e \in Runs, PathOf(e)', Create(e) \/ Insert(e) \/ Interrupt(e)
      PROVE  PathInv'
  <2>1. \A f \in Runs \ {e} : /\ row'[f] = row[f] /\ audit'[f] = audit[f]
                              /\ pending'[f] = pending[f] /\ pc'[f] = pc[f]
    BY <1>0, <1>3 DEF Create, Update, Insert, Interrupt, Goto, ColumnsOK
  <2> QED
    BY <1>0, <1>3, <2>1, Others
<1>4. ASSUME NEW e \in Runs, Create(e) \/ Insert(e) \/ Interrupt(e) PROVE PathInv'
  BY <1>0, <1>3, <1>4, Created, Inserted, Interrupted
<1>5. ASSUME NEW e \in Runs, OpenBracket(e) \/ Conclude(e) PROVE PathInv'
  BY <1>2, <1>5, Names DEF OpenBracket, Conclude, Advance, Early
<1>6. ASSUME NEW e \in Runs, Begin(e) \/ Apply(e) \/ Launch(e) \/ Measured(e) PROVE PathInv'
  <2>1. UNCHANGED <<row, audit, pending>>
    BY <1>6 DEF Begin, Apply, Launch, Measured, columns
  <2>2. CASE Begin(e)
    BY <1>1, <2>1, <2>2 DEF Begin, Early
  <2>3. CASE Apply(e)
    BY <1>1, <2>1, <2>3 DEF Apply, Early
  <2>4. CASE Launch(e) \/ Measured(e)
    BY <1>1, <2>1, <2>4 DEF Launch, Measured, Early
  <2> QED
    BY <1>6, <2>2, <2>3, <2>4
<1>7. ASSUME NEW e \in Runs, Restore(e) PROVE PathInv'
  <2>1. CASE Permitted(e, "RESTORING")
    BY <1>2, <1>7, <2>1, Names DEF Restore, Early
  <2>2. CASE ~Permitted(e, "RESTORING")
    BY <1>1, <1>7, <2>2 DEF Restore, columns, Early
  <2> QED
    BY <2>1, <2>2
<1>8. ASSUME NEW e \in Runs, CallRestore(e) PROVE PathInv'
  <2>1. At(e, "call") /\ UNCHANGED <<row, audit, pending>> /\ (Goto(e, "returned") \/ Goto(e, "threw"))
    BY <1>8 DEF CallRestore, columns
  <2> QED
    BY <1>1, <2>1 DEF Early
<1>9. ASSUME NEW e \in Runs, WriteOutcome(e) PROVE PathInv'
  <2>1. ASSUME NEW point, NEW s, NEW next, SetStatus(e, point, s, next),
               point # "create", next # "create", next \notin Early
        PROVE  PathInv'
    BY <1>1, <2>1 DEF SetStatus
  <2>2. CASE Advance(e, "restored", "RESTORED", "end") \/ Advance(e, "broken", "RECOVERY_REQUIRED", "end")
    BY <1>2, <2>2, Names DEF Advance, Early
  <2> QED
    BY <1>9, <2>1, <2>2 DEF WriteOutcome, Early
<1>10. ASSUME NEW e \in Runs, EndSession(e) PROVE PathInv'
  <2>1. At(e, "end") /\ UNCHANGED <<row, audit, pending>> /\ (Goto(e, "exit") \/ Goto(e, "raised"))
    BY <1>10 DEF EndSession, columns
  <2> QED
    BY <1>1, <2>1 DEF Early
<1>11. ASSUME NEW e \in Runs, Kill(e) PROVE PathInv'
  <2>1. /\ UNCHANGED <<row, audit, pending>> /\ pc[e] # "create" /\ pc'[e] = "dead"
        /\ \A f \in Runs \ {e} : pc'[f] = pc[f]
    BY <1>0, <1>11 DEF Kill, Goto, columns
  <2>2. PathOf(e)'
    BY <1>0, <2>1, MovedOn DEF Safe, Early
  <2> QED
    BY <1>0, <2>1, <2>2, Others
<1>12. CASE UNCHANGED <<row, audit, pending, pc>>
  <2>1. ASSUME NEW e \in Runs PROVE PathOf(e)'
    <3>1. Safe(e) => Safe(e)'
      BY <1>12 DEF Safe
    <3> QED
      BY <1>0, <1>12, <3>1, MovedOn
  <2> QED
    BY <2>1 DEF PathInv
<1>13. Watchdog \/ Finished \/ UNCHANGED vars => UNCHANGED <<row, audit, pending, pc>>
  BY DEF Watchdog, Finished, vars, columns
<1> QED
  BY <1>4, <1>5, <1>6, <1>7, <1>8, <1>9, <1>10, <1>11, <1>12, <1>13 DEF Next, Step

(* Each experiment's audit rows are a path of the allowed graph, of which  *)
(* one move at most is missing, however many processes are interrupted or  *)
(* killed between the two commits of a move.                               *)
THEOREM AuditRowsArePaths == Spec => []AuditIsPath
<1>1. Init => PathInv
  <2> SUFFICES ASSUME Init, NEW e \in Runs PROVE PathOf(e)
    BY DEF PathInv
  <2>1. audit[e] = <<>> /\ row[e] = "NONE" /\ pending[e] = {} /\ pc[e] = "create"
    BY DEF Init
  <2>2. Sane(audit[e]) /\ Linked(audit[e]) /\ Tip(audit[e]) = "NONE"
    BY <2>1 DEF Sane, Linked, Tip
  <2> QED
    BY <2>1, <2>2 DEF PathOf, Recorded, Joined
<1>2. TypeOK /\ PathInv => AuditIsPath
  <2> SUFFICES ASSUME TypeOK, PathInv, NEW e \in Runs
               PROVE  /\ audit[e] # <<>> => audit[e][1] = <<"NONE", "IDLE">>
                      /\ \A i \in 2..Len(audit[e]) : audit[e][i] \in Allowed
                      /\ Cardinality(Gaps(audit[e])) <= 1
                      /\ \A i \in Gaps(audit[e]) : <<audit[e][i - 1][2], audit[e][i][1]>> \in Allowed
    BY DEF AuditIsPath
  <2>1. PathOf(e)
    BY DEF PathInv
  <2>2. Linked(audit[e]) \/ Torn(audit[e])
    BY <2>1 DEF PathOf, Recorded, Joined
  <2>3. CASE Linked(audit[e])
    <3>1. Gaps(audit[e]) = {}
      BY <2>3 DEF Linked, Gaps
    <3> QED
      BY <2>1, <3>1, FS_EmptySet DEF PathOf, Sane
  <2>4. CASE Torn(audit[e])
    <3>1. PICK k \in 2..Len(audit[e]) :
            /\ <<audit[e][k - 1][2], audit[e][k][1]>> \in Allowed
            /\ \A i \in 2..Len(audit[e]) : i # k => audit[e][i][1] = audit[e][i - 1][2]
      BY <2>4 DEF Torn
    <3>2. Gaps(audit[e]) = {} \/ Gaps(audit[e]) = {k}
      BY <3>1 DEF Gaps
    <3>3. Cardinality(Gaps(audit[e])) <= 1
      <4>1. Cardinality({}) = 0 /\ Cardinality({k}) = 1
        BY FS_EmptySet, FS_Singleton
      <4>2. Cardinality(Gaps(audit[e])) \in {0, 1}
        BY <3>2, <4>1
      <4> QED
        BY <4>2
    <3> QED
      BY <2>1, <3>1, <3>2, <3>3 DEF PathOf, Sane
  <2> QED
    BY <2>2, <2>3, <2>4
<1> QED
  BY <1>1, <1>2, CliTypeCorrect, PathStep, PTL DEF Spec

=============================================================================
