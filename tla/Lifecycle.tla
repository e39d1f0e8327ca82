----------------------------- MODULE Lifecycle ------------------------------
(***************************************************************************)
(* The states of an experiment's row and the moves core/experiment.py      *)
(* allows between them.                                                    *)
(***************************************************************************)

States == {"IDLE", "CHECKING", "PREPARING", "PROFILING", "PROFILE_READY",
           "SELECTED", "VALIDATING", "COMPLETE", "FAILED", "CANCELLING",
           "RESTORING", "RESTORED", "RECOVERY_REQUIRED"}

(* _ALLOWED *)
Allowed ==
  LET edge(from, to) == {from} \X to
  IN  UNION { edge("IDLE",          {"CHECKING", "RESTORING"}),
              edge("CHECKING",      {"PREPARING", "FAILED", "CANCELLING"}),
              edge("PREPARING",     {"PROFILING", "FAILED", "CANCELLING"}),
              edge("PROFILING",     {"PROFILE_READY", "FAILED", "CANCELLING"}),
              edge("PROFILE_READY", {"SELECTED", "CANCELLING"}),
              edge("SELECTED",      {"VALIDATING", "CANCELLING"}),
              edge("VALIDATING",    {"COMPLETE", "FAILED", "CANCELLING"}),
              edge("COMPLETE",      {"RESTORING"}),
              edge("FAILED",        {"RESTORING"}),
              edge("CANCELLING",    {"RESTORING"}),
              edge("RESTORING",     {"RESTORED", "RECOVERY_REQUIRED"}) }

(* The states restore() and cancel() do not leave again. *)
Restoration == {"RESTORING", "RESTORED", "RECOVERY_REQUIRED"}

(* update_restoration_status *)
RestorationStatus == {"not_required", "restoring", "restored", "recovery_required"}

=============================================================================
