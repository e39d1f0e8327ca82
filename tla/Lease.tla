------------------------------- MODULE Lease --------------------------------
(***************************************************************************)
(* What the helper promises its clients (docs/HELPER.md, docs/PLAN.md 9),  *)
(* without threads, locks, files or heartbeats: settings change only       *)
(* under a lease or while the original is kept, the original is kept once  *)
(* and never replaced, and it is given up only when the settings are equal *)
(* to it again, unless the helper lost it (lost: it crashed, or the kernel *)
(* refused a write of a restoration).                                      *)
(***************************************************************************)
CONSTANT Settings

VARIABLES
  lease,  \* a session is active
  hw,     \* the settings in force
  kept,   \* the original settings: {} or {settings}
  lost    \* an original may have been given up without being put back

lvars == <<lease, hw, kept, lost>>

Init ==
  /\ lease = FALSE /\ hw \in Settings
  /\ kept = {} /\ lost = FALSE

(* begin_session *)
Open ==
  /\ ~lease /\ lease' = TRUE
  /\ UNCHANGED <<hw, kept, lost>>

(* end_session, and the watchdog when nothing is kept *)
Drop ==
  /\ lease /\ lease' = FALSE
  /\ UNCHANGED <<hw, kept, lost>>

(* apply_configuration keeps the original before it writes *)
Apply ==
  /\ lease
  /\ kept' = IF kept = {} THEN {hw} ELSE kept
  /\ hw' \in Settings
  /\ UNCHANGED <<lease, lost>>

(* later writes of the same operation, and writes of a restoration *)
Write ==
  /\ kept # {} /\ hw' \in Settings
  /\ lost' \in {lost, TRUE}
  /\ UNCHANGED <<lease, kept>>

(* restore and the watchdog: the original is in force again *)
Release ==
  /\ kept # {}
  /\ hw' \in Settings /\ lost' \in {lost, TRUE}
  /\ lost' \/ hw' \in kept
  /\ kept' = {} /\ lease' = FALSE

(* the helper's process dies *)
Die ==
  /\ lost' = TRUE /\ lease' = FALSE /\ kept' = {}
  /\ UNCHANGED hw

Next == Open \/ Drop \/ Apply \/ Write \/ Release \/ Die

Spec == Init /\ [][Next]_lvars

=============================================================================
