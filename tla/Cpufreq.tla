------------------------------ MODULE Cpufreq ------------------------------
(***************************************************************************)
(* The CPU frequency knobs under /sys/devices/system/cpu/cpufreq, as the   *)
(* helper daemon relies on them.  The kernel is external code: the         *)
(* operators below state only what helper/daemon.py and its comments       *)
(* assume (turning boost off clamps every limit to the base frequency; a   *)
(* limit written above what the hardware then allows is silently clamped;  *)
(* a switch of the amd_pstate mode re-initialises the policy attributes).  *)
(* Frequencies are steps of MinFreq..MaxFreq instead of kHz.               *)
(***************************************************************************)
EXTENDS Integers

CONSTANTS
  Policies,    \* the cpufreq policies ("policy0", ...)
  Modes,       \* amd_pstate modes: active, guided, passive
  Governors,   \* what scaling_available_governors lists
  DefaultGov,  \* the governor a re-initialised policy starts with
  MinFreq,     \* cpuinfo_min_freq
  BaseFreq,    \* cpuinfo_max_freq with boost off
  MaxFreq      \* cpuinfo_max_freq with boost on

ASSUME FreqAssumption ==
  /\ MinFreq \in Nat /\ BaseFreq \in Nat /\ MaxFreq \in Nat
  /\ MinFreq <= BaseFreq /\ BaseFreq <= MaxFreq

ASSUME GovAssumption == DefaultGov \in Governors

Freqs == MinFreq..MaxFreq

Least(a, b) == IF a <= b THEN a ELSE b

(* cpuinfo_max_freq: what boost = 1 or boost = 0 leaves available. *)
CpuMax(boost) == IF boost = 1 THEN MaxFreq ELSE BaseFreq

Knobs == [mode : Modes, boost : {0, 1},
          max  : [Policies -> Freqs],
          min  : [Policies -> Freqs],
          gov  : [Policies -> Governors]]

(* The settings the kernel can be in: it never lets a limit cross. *)
Hw == {h \in Knobs : \A p \in Policies :
          h.min[p] <= h.max[p] /\ h.max[p] <= CpuMax(h.boost)}

-----------------------------------------------------------------------------
(* One operator per knob write: the settings after writing it. *)

SetMode(h, m) ==
  IF m = h.mode THEN h
  ELSE [h EXCEPT !.mode = m,
                 !.max = [p \in Policies |-> CpuMax(h.boost)],
                 !.min = [p \in Policies |-> MinFreq],
                 !.gov = [p \in Policies |-> DefaultGov]]

SetBoost(h, b) ==
  [h EXCEPT !.boost = b,
            !.max = [p \in Policies |-> Least(h.max[p], CpuMax(b))],
            !.min = [p \in Policies |-> Least(h.min[p], CpuMax(b))]]

(* Write limits[p] to scaling_max_freq of every policy p in ps. *)
SetMax(h, ps, limits) ==
  LET top(p) == IF p \in ps THEN Least(limits[p], CpuMax(h.boost)) ELSE h.max[p]
  IN  [h EXCEPT !.max = [p \in Policies |-> top(p)],
                !.min = [p \in Policies |-> Least(h.min[p], top(p))]]

SetMin(h, ps, limits) ==
  [h EXCEPT !.min = [p \in Policies |->
      IF p \in ps THEN Least(limits[p], h.max[p]) ELSE h.min[p]]]

SetGov(h, ps, govs) ==
  [h EXCEPT !.gov = [p \in Policies |->
      IF p \in ps THEN govs[p] ELSE h.gov[p]]]

=============================================================================
