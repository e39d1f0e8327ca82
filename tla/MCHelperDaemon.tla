--------------------------- MODULE MCHelperDaemon ---------------------------
(* Instances of HelperDaemon for TLC: one policy, three frequency steps   *)
(* (boost off leaves the lower two) and requests chosen so that each path   *)
(* of apply_configuration is taken.                                         *)
EXTENDS HelperDaemon, TLC

CONSTANTS c1, c2, p0

MCPolicies == {p0}

Control(mode, boost, caps, clamp, govs) ==
  [mode |-> mode, boost |-> boost, caps |-> caps, clamp |-> clamp, govs |-> govs]

NoKeys == [p \in {} |-> MaxFreq]

(* A cap below the range, clamped and rejected; a cap that boost off puts  *)
(* out of range, rejected and clamped; an unknown policy.                   *)
MCRequests ==
  { Control({}, {1}, p0 :> 0, TRUE, NoKeys),
    Control({"passive"}, {}, p0 :> 0, FALSE, NoKeys),
    Control({}, {0}, p0 :> MaxFreq, FALSE, NoKeys),
    Control({}, {0}, p0 :> MaxFreq, TRUE, p0 :> "performance"),
    Control({"passive"}, {}, p0 :> BaseFreq, FALSE, "policy9" :> "performance") }

Stock == [mode |-> "active", boost |-> 1,
          max |-> [p \in MCPolicies |-> MaxFreq], min |-> [p \in MCPolicies |-> MinFreq],
          gov |-> [p \in MCPolicies |-> "powersave"]]

(* A user who has raised a lower limit, and one who runs without boost.     *)
MCInitialHw ==
  { [Stock EXCEPT !.min[p0] = BaseFreq],
    [Stock EXCEPT !.boost = 0, !.max = [p \in MCPolicies |-> BaseFreq],
                  !.gov[p0] = "performance"] }

MCRefusals == { {}, {"boost", "gov"} }

(* The liveness and violation runs need fewer requests.                     *)
FewRequests == { r \in MCRequests : r.boost = {0} }

MCSymmetry == Permutations({c1, c2})
=============================================================================
