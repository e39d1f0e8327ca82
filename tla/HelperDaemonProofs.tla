------------------------- MODULE HelperDaemonProofs -------------------------
(***************************************************************************)
(* Proofs about HelperDaemon: for any policies, frequencies, clients,      *)
(* requests and refusable writes.                                          *)
(***************************************************************************)
EXTENDS HelperDaemon, TLAPS

USE FreqAssumption, GovAssumption

-----------------------------------------------------------------------------
(* Lemmas on the knob writes. *)

(* cpuinfo_max_freq is a frequency of the CPU, whatever boost is.          *)
LEMMA CpuMaxFreq == \A b : CpuMax(b) \in Freqs
BY DEF CpuMax, Freqs

(* The kernel's clamp of one limit by another, and that it is monotone.    *)
LEMMA LeastOfTwo ==
  ASSUME NEW a \in Freqs, NEW b \in Freqs
  PROVE  /\ Least(a, b) \in Freqs /\ Least(a, b) <= a /\ Least(a, b) <= b
         /\ \A c \in Freqs : c <= a => Least(c, b) <= Least(a, b)
BY DEF Least, Freqs

(* What membership in Hw says of each field, and how it is established.    *)
Shape(h) ==
  /\ h \in Knobs
  /\ h.mode \in Modes /\ h.boost \in {0, 1}
  /\ h.max \in [Policies -> Freqs]
  /\ h.min \in [Policies -> Freqs]
  /\ h.gov \in [Policies -> Governors]
  /\ \A p \in Policies : h.min[p] <= h.max[p]
  /\ \A p \in Policies : h.max[p] <= CpuMax(h.boost)

(* Settings the kernel can be in have well-formed fields, ordered limits.  *)
LEMMA HwFields ==
  ASSUME NEW h \in Hw
  PROVE  Shape(h)
<1>1. h \in Knobs
  BY DEF Hw
<1>2. /\ h.mode \in Modes /\ h.boost \in {0, 1}
      /\ h.max \in [Policies -> Freqs] /\ h.min \in [Policies -> Freqs]
      /\ h.gov \in [Policies -> Governors]
  BY <1>1 DEF Knobs
<1>3. \A p \in Policies : h.min[p] <= h.max[p] /\ h.max[p] <= CpuMax(h.boost)
  BY DEF Hw
<1> QED
  BY <1>1, <1>2, <1>3 DEF Shape

(* Well-formed fields with ordered limits are settings of the kernel.      *)
LEMMA HwBuild ==
  ASSUME NEW m \in Modes, NEW b \in {0, 1},
         NEW u \in [Policies -> Freqs], NEW l \in [Policies -> Freqs],
         NEW g \in [Policies -> Governors],
         \A p \in Policies : l[p] <= u[p],
         \A p \in Policies : u[p] <= CpuMax(b)
  PROVE  [mode |-> m, boost |-> b, max |-> u, min |-> l, gov |-> g] \in Hw
BY DEF Hw, Knobs

(* A mode switch leaves settings the kernel can be in.                     *)
LEMMA SetModeHw ==
  ASSUME NEW h \in Hw, NEW m \in Modes
  PROVE  SetMode(h, m) \in Hw /\ SetMode(h, m).mode = m
<1>0. Shape(h)
  BY HwFields
<1> DEFINE new == [mode |-> m, boost |-> h.boost,
                   max |-> [p \in Policies |-> CpuMax(h.boost)],
                   min |-> [p \in Policies |-> MinFreq],
                   gov |-> [p \in Policies |-> DefaultGov]]
<1>1. CpuMax(h.boost) \in Freqs /\ MinFreq \in Freqs /\ MinFreq <= CpuMax(h.boost)
  BY DEF CpuMax, Freqs
<1>2. new \in Hw
  <2>1. h.boost \in {0, 1} /\ CpuMax(h.boost) <= CpuMax(h.boost)
    BY <1>0, <1>1 DEF Shape, Freqs
  <2> QED
    BY <1>1, <2>1, HwBuild
<1>3. CASE m = h.mode
  BY <1>3 DEF SetMode
<1>4. CASE m # h.mode
  <2>1. SetMode(h, m) = new
    BY <1>0, <1>4 DEF Shape, Knobs, SetMode
  <2> QED
    BY <1>2, <2>1
<1> QED
  BY <1>3, <1>4

(* So does switching boost.                                                *)
LEMMA SetBoostHw ==
  ASSUME NEW h \in Hw, NEW b \in {0, 1}
  PROVE  /\ SetBoost(h, b) \in Hw
         /\ SetBoost(h, b).boost = b /\ SetBoost(h, b).mode = h.mode
<1>0. Shape(h)
  BY HwFields
<1> DEFINE top == [p \in Policies |-> Least(h.max[p], CpuMax(b))]
           low == [p \in Policies |-> Least(h.min[p], CpuMax(b))]
           new == [mode |-> h.mode, boost |-> b, max |-> top, min |-> low, gov |-> h.gov]
<1>1. CpuMax(b) \in Freqs
  BY CpuMaxFreq
<1>2. \A p \in Policies : /\ top[p] \in Freqs /\ low[p] \in Freqs
                          /\ low[p] <= top[p] /\ top[p] <= CpuMax(b)
  <2> TAKE p \in Policies
  <2>1. h.max[p] \in Freqs /\ h.min[p] \in Freqs /\ h.min[p] <= h.max[p]
    BY <1>0 DEF Shape
  <2> QED
    BY <1>1, <2>1, LeastOfTwo
<1>3. top \in [Policies -> Freqs] /\ low \in [Policies -> Freqs]
  BY <1>2
<1>4. SetBoost(h, b) = [h EXCEPT !.boost = b, !.max = top, !.min = low]
  BY DEF SetBoost
<1> HIDE DEF top, low
<1>5. SetBoost(h, b) = new
  BY <1>0, <1>4 DEF Shape, Knobs
<1>6. new \in Hw
  BY <1>0, <1>2, <1>3, HwBuild DEF Shape
<1> QED
  BY <1>5, <1>6

(* Upper limits within the hardware's range can be written to any policies *)
(* and the lower limits stay below them.                                   *)
LEMMA SetMaxHw ==
  ASSUME NEW h \in Hw, NEW ps \in SUBSET Policies, NEW f,
         \A p \in ps : f[p] \in Freqs
  PROVE  /\ SetMax(h, ps, f) \in Hw
         /\ SetMax(h, ps, f).mode = h.mode /\ SetMax(h, ps, f).boost = h.boost
         /\ \A p \in ps : SetMax(h, ps, f).max[p] = Least(f[p], CpuMax(h.boost))
<1>0. Shape(h)
  BY HwFields
<1> DEFINE top == [p \in Policies |->
                     IF p \in ps THEN Least(f[p], CpuMax(h.boost)) ELSE h.max[p]]
           low == [p \in Policies |-> Least(h.min[p], top[p])]
           new == [mode |-> h.mode, boost |-> h.boost, max |-> top, min |-> low,
                   gov |-> h.gov]
<1>1. CpuMax(h.boost) \in Freqs
  BY CpuMaxFreq
<1>2. \A p \in Policies : top[p] \in Freqs /\ top[p] <= CpuMax(h.boost)
  <2> TAKE p \in Policies
  <2>1. h.max[p] \in Freqs /\ h.max[p] <= CpuMax(h.boost)
    BY <1>0 DEF Shape
  <2> QED
    BY <1>1, <2>1, LeastOfTwo
<1>3. SetMax(h, ps, f) = [h EXCEPT !.max = top, !.min = low]
  <2>1. \A p \in Policies :
          Least(h.min[p], IF p \in ps THEN Least(f[p], CpuMax(h.boost)) ELSE h.max[p])
            = low[p]
    OBVIOUS
  <2>2. [p \in Policies |->
          Least(h.min[p], IF p \in ps THEN Least(f[p], CpuMax(h.boost)) ELSE h.max[p])]
            = low
    BY <2>1
  <2> QED
    BY <2>2 DEF SetMax
<1>4. \A p \in Policies : low[p] \in Freqs /\ low[p] <= top[p]
  <2> TAKE p \in Policies
  <2>1. h.min[p] \in Freqs /\ top[p] \in Freqs
    BY <1>0, <1>2 DEF Shape
  <2> HIDE DEF top
  <2> QED
    BY <2>1, LeastOfTwo
<1>5. top \in [Policies -> Freqs] /\ low \in [Policies -> Freqs]
  BY <1>2, <1>4
<1>6. SetMax(h, ps, f) = new
  <2> HIDE DEF top, low
  <2> QED
    BY <1>0, <1>3 DEF Shape, Knobs
<1>7. new \in Hw
  <2> HIDE DEF top, low
  <2> QED
    BY <1>0, <1>2, <1>4, <1>5, HwBuild DEF Shape
<1>8. \A p \in ps : top[p] = Least(f[p], CpuMax(h.boost))
  OBVIOUS
<1> HIDE DEF top, low
<1> QED
  BY <1>6, <1>7, <1>8

(* Lower limits are clamped to the upper ones.                             *)
LEMMA SetMinHw ==
  ASSUME NEW h \in Hw, NEW ps \in SUBSET Policies, NEW f,
         \A p \in ps : f[p] \in Freqs
  PROVE  /\ SetMin(h, ps, f) \in Hw
         /\ SetMin(h, ps, f).mode = h.mode /\ SetMin(h, ps, f).boost = h.boost
         /\ SetMin(h, ps, f).max = h.max
         /\ \A p \in ps : SetMin(h, ps, f).min[p] = Least(f[p], h.max[p])
<1>0. Shape(h)
  BY HwFields
<1> DEFINE low == [p \in Policies |->
                     IF p \in ps THEN Least(f[p], h.max[p]) ELSE h.min[p]]
           new == [mode |-> h.mode, boost |-> h.boost, max |-> h.max, min |-> low,
                   gov |-> h.gov]
<1>1. \A p \in Policies : low[p] \in Freqs /\ low[p] <= h.max[p]
  <2> TAKE p \in Policies
  <2>1. h.max[p] \in Freqs /\ h.min[p] \in Freqs /\ h.min[p] <= h.max[p]
    BY <1>0 DEF Shape
  <2> QED
    BY <2>1, LeastOfTwo
<1>2. low \in [Policies -> Freqs]
  BY <1>1
<1>3. SetMin(h, ps, f) = [h EXCEPT !.min = low]
  BY DEF SetMin
<1>4. SetMin(h, ps, f) = new
  <2> HIDE DEF low
  <2> QED
    BY <1>0, <1>3 DEF Shape, Knobs
<1>5. new \in Hw
  <2> HIDE DEF low
  <2> QED
    BY <1>0, <1>1, <1>2, HwBuild DEF Shape
<1>6. \A p \in ps : low[p] = Least(f[p], h.max[p])
  OBVIOUS
<1> HIDE DEF low
<1> QED
  BY <1>4, <1>5, <1>6

(* Governors can be written to any policies and nothing else changes.      *)
LEMMA SetGovHw ==
  ASSUME NEW h \in Hw, NEW ps \in SUBSET Policies, NEW g,
         \A p \in ps : g[p] \in Governors
  PROVE  /\ SetGov(h, ps, g) \in Hw
         /\ SetGov(h, ps, g).mode = h.mode /\ SetGov(h, ps, g).boost = h.boost
         /\ SetGov(h, ps, g).max = h.max /\ SetGov(h, ps, g).min = h.min
         /\ \A p \in ps : SetGov(h, ps, g).gov[p] = g[p]
<1>0. Shape(h)
  BY HwFields
<1> DEFINE gov == [p \in Policies |-> IF p \in ps THEN g[p] ELSE h.gov[p]]
           new == [mode |-> h.mode, boost |-> h.boost, max |-> h.max, min |-> h.min,
                   gov |-> gov]
<1>1. gov \in [Policies -> Governors]
  BY <1>0 DEF Shape
<1>2. SetGov(h, ps, g) = [h EXCEPT !.gov = gov]
  BY DEF SetGov
<1>3. SetGov(h, ps, g) = new
  <2> HIDE DEF gov
  <2> QED
    BY <1>0, <1>2 DEF Shape, Knobs
<1>4. new \in Hw
  <2> HIDE DEF gov
  <2> QED
    BY <1>0, <1>1, HwBuild DEF Shape
<1>5. \A p \in ps : gov[p] = g[p]
  OBVIOUS
<1> HIDE DEF gov
<1> QED
  BY <1>3, <1>4, <1>5

-----------------------------------------------------------------------------
(* apply_snapshot. *)

(* Every value apply_snapshot writes back is one the kernel accepts.       *)
LEMMA SnapshotFields ==
  ASSUME NEW snap \in Hw
  PROVE  /\ snap.mode \in Modes /\ snap.boost \in {0, 1}
         /\ \A p \in Policies : snap.max[p] \in Freqs
         /\ \A p \in Policies : snap.min[p] \in Freqs
         /\ \A p \in Policies : snap.gov[p] \in Governors
BY HwFields DEF Shape

(* Whatever writes are refused, a restoration leaves settings the kernel   *)
(* can be in.                                                              *)
LEMMA ApplySnapshotHw ==
  ASSUME NEW h \in Hw, NEW snap \in Hw, NEW refused
  PROVE  ApplySnapshot(h, snap, refused) \in Hw
<1> DEFINE h1 == IF "mode" \in refused THEN h ELSE SetMode(h, snap.mode)
           h2 == IF "boost" \in refused THEN h1 ELSE SetBoost(h1, snap.boost)
           h3 == IF "max" \in refused THEN h2 ELSE SetMax(h2, Policies, snap.max)
           h4 == IF "min" \in refused THEN h3 ELSE SetMin(h3, Policies, snap.min)
           h5 == IF "gov" \in refused THEN h4 ELSE SetGov(h4, Policies, snap.gov)
<1>6. ApplySnapshot(h, snap, refused) = h5
  BY DEF ApplySnapshot
<1>1. h1 \in Hw  BY SnapshotFields, SetModeHw
<1> HIDE DEF h1
<1>2. h2 \in Hw  BY <1>1, SnapshotFields, SetBoostHw
<1> HIDE DEF h2
<1>3. h3 \in Hw  BY <1>2, SnapshotFields, SetMaxHw
<1> HIDE DEF h3
<1>4. h4 \in Hw  BY <1>3, SnapshotFields, SetMinHw
<1> HIDE DEF h4
<1>5. h5 \in Hw  BY <1>4, SnapshotFields, SetGovHw
<1> QED
  BY <1>5, <1>6

(* When no write is refused, the order of apply_snapshot's writes brings   *)
(* back exactly the snapshot, from any settings the kernel can be in.      *)
THEOREM ApplySnapshotExact ==
  ASSUME NEW h \in Hw, NEW snap \in Hw
  PROVE  ApplySnapshot(h, snap, {}) = snap
<1>0. Shape(snap)
  BY HwFields
<1> DEFINE h1 == SetMode(h, snap.mode)
           h2 == SetBoost(h1, snap.boost)
           h3 == SetMax(h2, Policies, snap.max)
           h4 == SetMin(h3, Policies, snap.min)
           h5 == SetGov(h4, Policies, snap.gov)
<1>6. ApplySnapshot(h, snap, {}) = h5
  BY DEF ApplySnapshot
<1>1. h1 \in Hw /\ h1.mode = snap.mode
  BY SnapshotFields, SetModeHw
<1> HIDE DEF h1
<1>2. h2 \in Hw /\ h2.mode = snap.mode /\ h2.boost = snap.boost
  BY <1>1, SnapshotFields, SetBoostHw
<1> HIDE DEF h2
<1>3. h3 \in Hw /\ h3.mode = snap.mode /\ h3.boost = snap.boost /\ h3.max = snap.max
  <2>1. h3 \in Hw /\ h3.mode = snap.mode /\ h3.boost = snap.boost
        /\ \A p \in Policies : h3.max[p] = Least(snap.max[p], CpuMax(snap.boost))
    BY <1>2, SnapshotFields, SetMaxHw
  <2>2. \A p \in Policies : h3.max[p] = snap.max[p]
    BY <1>0, <2>1 DEF Shape, Least
  <2>3. h3.max \in [Policies -> Freqs] /\ snap.max \in [Policies -> Freqs]
    BY <1>0, <2>1, HwFields DEF Shape
  <2> HIDE DEF h3
  <2> QED
    BY <2>1, <2>2, <2>3
<1> HIDE DEF h3
<1>4. h4 \in Hw /\ h4.mode = snap.mode /\ h4.boost = snap.boost /\ h4.max = snap.max
      /\ h4.min = snap.min
  <2>1. h4 \in Hw /\ h4.mode = snap.mode /\ h4.boost = snap.boost /\ h4.max = snap.max
        /\ \A p \in Policies : h4.min[p] = Least(snap.min[p], snap.max[p])
    BY <1>3, SnapshotFields, SetMinHw
  <2>2. \A p \in Policies : h4.min[p] = snap.min[p]
    BY <1>0, <2>1 DEF Shape, Least
  <2>3. h4.min \in [Policies -> Freqs] /\ snap.min \in [Policies -> Freqs]
    BY <1>0, <2>1, HwFields DEF Shape
  <2> HIDE DEF h4
  <2> QED
    BY <2>1, <2>2, <2>3
<1> HIDE DEF h4
<1>5. h5 = snap
  <2>1. h5 \in Hw /\ h5.mode = snap.mode /\ h5.boost = snap.boost
        /\ h5.max = snap.max /\ h5.min = snap.min
        /\ \A p \in Policies : h5.gov[p] = snap.gov[p]
    BY <1>4, SnapshotFields, SetGovHw
  <2>2. h5.gov \in [Policies -> Governors] /\ snap.gov \in [Policies -> Governors]
    BY <1>0, <2>1, HwFields DEF Shape
  <2>3. h5 \in Knobs /\ snap \in Knobs
    BY <2>1 DEF Hw
  <2> HIDE DEF h5
  <2>4. h5.gov = snap.gov
    BY <2>1, <2>2
  <2> QED
    BY <2>1, <2>3, <2>4 DEF Knobs
<1> QED
  BY <1>5, <1>6

-----------------------------------------------------------------------------
(* The inductive invariant.                                                *)

InApply == pc \in {"persist", "switch", "caps"}
InForget == pc \in {"forget", "wdforget"}

(* Nothing lost the original: no crash, no restoration the kernel refused. *)
Intact == faults \cap {"crash", "refused"} = {}

(* Nothing lost the recovery file. *)
Filed == faults \cap {"refused", "disk", "overwritten"} = {}

(* What the daemon's memory says of the knobs, while nothing was lost.     *)
MemoryInv ==
  Intact => /\ orig \subseteq {pristine}
            /\ (orig = {} \/ InForget \/ pc = "persist") => hw = pristine
            /\ restored \in {"ok", "nothing"} => hw = pristine

(* Where an operation is, relative to the lease and the snapshot.          *)
ControlInv ==
  /\ InApply => orig # {} /\ active /\ restored = "none"
  /\ InForget => orig # {}
  /\ orig # {} => active \/ unclean
  /\ ~up => orig = {} /\ pc = "free"

(* What the recovery file says, also after a crash.                        *)
FileInv ==
  Filed => /\ hw # pristine => file = {pristine}
           /\ InForget => hw = pristine
           /\ "crash" \in faults => orig = {} \/ pc = "persist"
           /\ "crash" \notin faults /\ orig # {} /\ pc # "persist"
                => file = {pristine}

IInv == TypeOK /\ ControlInv /\ MemoryInv /\ FileInv

-----------------------------------------------------------------------------
(* Each step keeps the invariant.                                          *)

(* What a step of apply_configuration may write.                           *)
LEMMA SwitchHw ==
  ASSUME TypeOK, ApplySwitch
  PROVE  hw' \in Hw
<1>1. PICK r \in req, refused \in Refusals :
        LET h1 == IF r.mode = {} \/ "mode" \in refused THEN hw
                  ELSE SetMode(hw, CHOOSE m \in r.mode : TRUE)
        IN  hw' = IF r.boost = {} \/ "boost" \in refused THEN h1
                  ELSE SetBoost(h1, CHOOSE b \in r.boost : TRUE)
  BY DEF ApplySwitch
<1> DEFINE h1 == IF r.mode = {} \/ "mode" \in refused THEN hw
                 ELSE SetMode(hw, CHOOSE m \in r.mode : TRUE)
<1>2. r.mode \subseteq Modes /\ r.boost \subseteq {0, 1}
  BY RequestAssumption DEF TypeOK, IsRequest
<1>3. h1 \in Hw
  <2>1. r.mode # {} => (CHOOSE m \in r.mode : TRUE) \in Modes
    BY <1>2
  <2> QED
    BY <2>1, SetModeHw DEF TypeOK
<1>4. r.boost # {} => (CHOOSE b \in r.boost : TRUE) \in {0, 1}
  BY <1>2
<1> QED
  <2>1. hw' = IF r.boost = {} \/ "boost" \in refused THEN h1
              ELSE SetBoost(h1, CHOOSE b \in r.boost : TRUE)
    BY <1>1
  <2> HIDE DEF h1
  <2> QED
    BY <1>3, <1>4, <2>1, SetBoostHw

(* The caps and governors apply_configuration accepts are ones the kernel  *)
(* can be in.                                                              *)
LEMMA WriteHw ==
  ASSUME TypeOK, ApplyWrite
  PROVE  hw' \in Hw
<1>1. PICK r \in req, refused \in Refusals :
        /\ Valid(r, hw)
        /\ LET h1 == IF "max" \in refused THEN hw
                     ELSE SetMax(hw, DOMAIN r.caps, Resolved(r, hw))
           IN  hw' = IF "gov" \in refused THEN h1
                     ELSE SetGov(h1, DOMAIN r.govs, r.govs)
  BY DEF ApplyWrite
<1> DEFINE h1 == IF "max" \in refused THEN hw
                 ELSE SetMax(hw, DOMAIN r.caps, Resolved(r, hw))
<1>2. /\ DOMAIN r.caps \in SUBSET Policies /\ DOMAIN r.govs \in SUBSET Policies
      /\ \A p \in DOMAIN r.caps : Resolved(r, hw)[p] \in MinFreq..CpuMax(hw.boost)
      /\ \A p \in DOMAIN r.govs : r.govs[p] \in Governors
  BY <1>1 DEF Valid
<1>3. \A p \in DOMAIN r.caps : Resolved(r, hw)[p] \in Freqs
  <2>1. CpuMax(hw.boost) \in Freqs
    BY CpuMaxFreq
  <2> QED
    BY <1>2, <2>1 DEF Freqs
<1>4. h1 \in Hw
  BY <1>2, <1>3, SetMaxHw DEF TypeOK
<1> QED
  <2>1. hw' = IF "gov" \in refused THEN h1 ELSE SetGov(h1, DOMAIN r.govs, r.govs)
    BY <1>1
  <2> HIDE DEF h1
  <2> QED
    BY <1>2, <1>4, <2>1, SetGovHw

(* A restoration puts the knobs back to the held snapshot, or notes that   *)
(* the kernel refused.                                                     *)
LEMMA PutBack ==
  ASSUME TypeOK, NEW snap \in orig, NEW refused \in Refusals,
         hw' = ApplySnapshot(hw, snap, refused), NoteRefusal(refused)
  PROVE  /\ hw' \in Hw /\ faults' \subseteq Faults
         /\ \/ hw' = snap /\ faults' = faults
            \/ "refused" \in faults' /\ faults' = faults \cup {"refused"}
<1>1. snap \in Hw /\ hw \in Hw
  BY DEF TypeOK
<1>2. hw' \in Hw
  BY <1>1, ApplySnapshotHw
<1>3. refused = {} => hw' = snap
  BY <1>1, ApplySnapshotExact
<1> QED
  BY <1>2, <1>3 DEF NoteRefusal, TypeOK, Faults

(* Every step of every thread keeps the type invariant.                    *)
LEMMA TypeStep == TypeOK /\ [Next]_vars => TypeOK'
<1> SUFFICES ASSUME TypeOK, [Next]_vars PROVE TypeOK'
  OBVIOUS
<1>1. ASSUME NEW c \in Clients, BeginSession(c) PROVE TypeOK'
  BY <1>1 DEF BeginSession, TypeOK, session, ghosts, Faults
<1>2. ASSUME NEW c \in Clients, Heartbeat(c) PROVE TypeOK'
  BY <1>2 DEF Heartbeat, TypeOK, session, ghosts, Faults
<1>3. ASSUME NEW c \in Clients, EndSession(c) PROVE TypeOK'
  BY <1>3 DEF EndSession, TypeOK, session, ghosts, Faults
<1>4. ASSUME NEW c \in Clients, NEW r \in Requests, ApplyBegin(c, r) PROVE TypeOK'
  BY <1>4 DEF ApplyBegin, TypeOK, session, ghosts, Faults
<1>5. ASSUME NEW c \in Clients, RestoreNothing(c) PROVE TypeOK'
  BY <1>5 DEF RestoreNothing, TypeOK, session, ghosts, Faults
<1>6. ASSUME NEW c \in Clients, RestorePutBack(c) PROVE TypeOK'
  BY PutBack, <1>6 DEF RestorePutBack, TypeOK, session, ghosts, Faults
<1>7. ASSUME ApplyPersist PROVE TypeOK'
  BY <1>7 DEF ApplyPersist, TypeOK, session, ghosts, Faults
<1>8. ASSUME ApplyPersistFails PROVE TypeOK'
  BY <1>8 DEF ApplyPersistFails, TypeOK, session, ghosts, Faults
<1>9. ASSUME ApplySwitch PROVE TypeOK'
  BY SwitchHw, <1>9 DEF ApplySwitch, TypeOK, session, ghosts, Faults
<1>10. ASSUME ApplyReject PROVE TypeOK'
  BY <1>10 DEF ApplyReject, TypeOK, session, ghosts, Faults
<1>11. ASSUME ApplyWrite PROVE TypeOK'
  BY WriteHw, <1>11 DEF ApplyWrite, TypeOK, session, ghosts, Faults
<1>12. ASSUME RestoreForget PROVE TypeOK'
  BY <1>12 DEF RestoreForget, TypeOK, session, ghosts, Faults
<1>13. ASSUME WatchdogForget PROVE TypeOK'
  BY <1>13 DEF WatchdogForget, TypeOK, session, ghosts, Faults
<1>14. ASSUME WatchdogCheck PROVE TypeOK'
  BY <1>14 DEF WatchdogCheck, TypeOK, session, ghosts, Faults
<1>15. ASSUME WatchdogPutBack PROVE TypeOK'
  BY PutBack, <1>15 DEF WatchdogPutBack, TypeOK, session, ghosts, Faults
<1>16. ASSUME WatchdogDropOnly PROVE TypeOK'
  BY <1>16 DEF WatchdogDropOnly, TypeOK, session, ghosts, Faults
<1>17. ASSUME HeartbeatLapses PROVE TypeOK'
  BY <1>17 DEF HeartbeatLapses, TypeOK, session, ghosts, Faults
<1>18. ASSUME ClientsDie PROVE TypeOK'
  BY <1>18 DEF ClientsDie, TypeOK, session, ghosts, Faults
<1>19. ASSUME Crash PROVE TypeOK'
  BY <1>19 DEF Crash, TypeOK, session, ghosts, Faults
<1>20. ASSUME Launch PROVE TypeOK'
  BY <1>20 DEF Launch, TypeOK, session, ghosts, Faults
<1>21. CASE UNCHANGED vars
  BY <1>21 DEF TypeOK, vars
<1> QED
  BY <1>1, <1>2, <1>3, <1>4, <1>5, <1>6, <1>7, <1>8, <1>9, <1>10, <1>11, <1>12, <1>13, <1>14, <1>15, <1>16, <1>17, <1>18, <1>19, <1>20, <1>21 DEF Next, ClientOp, OpStep, Watchdog

(* A daemon that has just started satisfies the inductive invariant.       *)
LEMMA InitIInv == Init => IInv
BY InitialAssumption DEF Init, IInv, TypeOK, ControlInv, MemoryInv, FileInv, Intact,
   Filed, InApply, InForget, Faults

(* Every step of every thread keeps the inductive invariant.               *)
LEMMA StepIInv == IInv /\ [Next]_vars => IInv'
<1> SUFFICES ASSUME IInv, [Next]_vars PROVE IInv'
  OBVIOUS
<1> USE DEF IInv, session, ghosts, InApply, InForget, Intact, Filed
<1>1. ASSUME NEW c \in Clients, BeginSession(c) PROVE ControlInv' /\ MemoryInv' /\ FileInv'
  <2>1. ControlInv'
    BY <1>1 DEF BeginSession, Calls, LockFree, ControlInv
  <2>2. MemoryInv'
    BY <1>1 DEF BeginSession, Calls, LockFree, ControlInv, MemoryInv
  <2>3. FileInv'
    BY <1>1 DEF BeginSession, Calls, LockFree, ControlInv, MemoryInv, FileInv
  <2> QED
    BY <2>1, <2>2, <2>3
<1>2. ASSUME NEW c \in Clients, Heartbeat(c) PROVE ControlInv' /\ MemoryInv' /\ FileInv'
  <2>1. ControlInv'
    BY <1>2 DEF Heartbeat, Calls, LockFree, ControlInv
  <2>2. MemoryInv'
    BY <1>2 DEF Heartbeat, Calls, LockFree, ControlInv, MemoryInv
  <2>3. FileInv'
    BY <1>2 DEF Heartbeat, Calls, LockFree, ControlInv, MemoryInv, FileInv
  <2> QED
    BY <2>1, <2>2, <2>3
<1>3. ASSUME NEW c \in Clients, EndSession(c) PROVE ControlInv' /\ MemoryInv' /\ FileInv'
  <2>1. ControlInv'
    BY <1>3 DEF EndSession, Calls, LockFree, ControlInv
  <2>2. MemoryInv'
    BY <1>3 DEF EndSession, Calls, LockFree, ControlInv, MemoryInv
  <2>3. FileInv'
    BY <1>3 DEF EndSession, Calls, LockFree, ControlInv, MemoryInv, FileInv
  <2> QED
    BY <2>1, <2>2, <2>3
<1>4. ASSUME NEW c \in Clients, NEW r \in Requests, ApplyBegin(c, r) PROVE ControlInv' /\ MemoryInv' /\ FileInv'
  <2>1. ControlInv'
    BY <1>4 DEF ApplyBegin, Calls, LockFree, ControlInv
  <2>2. MemoryInv'
    BY <1>4 DEF ApplyBegin, Calls, LockFree, ControlInv, MemoryInv
  <2>3. FileInv'
    BY <1>4 DEF ApplyBegin, Calls, LockFree, ControlInv, MemoryInv, FileInv
  <2> QED
    BY <2>1, <2>2, <2>3
<1>5. ASSUME NEW c \in Clients, RestoreNothing(c) PROVE ControlInv' /\ MemoryInv' /\ FileInv'
  <2>1. ControlInv'
    BY <1>5 DEF RestoreNothing, Calls, LockFree, ControlInv
  <2>2. MemoryInv'
    BY <1>5 DEF RestoreNothing, Calls, LockFree, ControlInv, MemoryInv
  <2>3. FileInv'
    BY <1>5 DEF RestoreNothing, Calls, LockFree, ControlInv, MemoryInv, FileInv
  <2> QED
    BY <2>1, <2>2, <2>3
<1>6. ASSUME NEW c \in Clients, RestorePutBack(c) PROVE ControlInv' /\ MemoryInv' /\ FileInv'
  <2>1. ControlInv'
    BY PutBack, <1>6 DEF RestorePutBack, Calls, LockFree, ControlInv
  <2>2. MemoryInv'
    BY PutBack, <1>6 DEF RestorePutBack, Calls, LockFree, ControlInv, MemoryInv
  <2>3. FileInv'
    BY PutBack, <1>6 DEF RestorePutBack, Calls, LockFree, ControlInv, MemoryInv, FileInv
  <2> QED
    BY <2>1, <2>2, <2>3
<1>7. ASSUME ApplyPersist PROVE ControlInv' /\ MemoryInv' /\ FileInv'
  <2>1. ControlInv'
    BY <1>7 DEF ApplyPersist, ControlInv
  <2>2. MemoryInv'
    BY <1>7 DEF ApplyPersist, ControlInv, MemoryInv
  <2>3. FileInv'
    BY <1>7 DEF ApplyPersist, ControlInv, MemoryInv, FileInv
  <2> QED
    BY <2>1, <2>2, <2>3
<1>8. ASSUME ApplyPersistFails PROVE ControlInv' /\ MemoryInv' /\ FileInv'
  <2>1. ControlInv'
    BY <1>8 DEF ApplyPersistFails, ControlInv
  <2>2. MemoryInv'
    BY <1>8 DEF ApplyPersistFails, ControlInv, MemoryInv
  <2>3. FileInv'
    BY <1>8 DEF ApplyPersistFails, ControlInv, MemoryInv, FileInv
  <2> QED
    BY <2>1, <2>2, <2>3
<1>9. ASSUME ApplySwitch PROVE ControlInv' /\ MemoryInv' /\ FileInv'
  <2>1. ControlInv'
    BY <1>9 DEF ApplySwitch, ControlInv
  <2>2. MemoryInv'
    BY <1>9 DEF ApplySwitch, ControlInv, MemoryInv
  <2>3. FileInv'
    BY <1>9 DEF ApplySwitch, ControlInv, MemoryInv, FileInv
  <2> QED
    BY <2>1, <2>2, <2>3
<1>10. ASSUME ApplyReject PROVE ControlInv' /\ MemoryInv' /\ FileInv'
  <2>1. ControlInv'
    BY <1>10 DEF ApplyReject, ControlInv
  <2>2. MemoryInv'
    BY <1>10 DEF ApplyReject, ControlInv, MemoryInv
  <2>3. FileInv'
    BY <1>10 DEF ApplyReject, ControlInv, MemoryInv, FileInv
  <2> QED
    BY <2>1, <2>2, <2>3
<1>11. ASSUME ApplyWrite PROVE ControlInv' /\ MemoryInv' /\ FileInv'
  <2>1. ControlInv'
    BY <1>11 DEF ApplyWrite, ControlInv
  <2>2. MemoryInv'
    BY <1>11 DEF ApplyWrite, ControlInv, MemoryInv
  <2>3. FileInv'
    BY <1>11 DEF ApplyWrite, ControlInv, MemoryInv, FileInv
  <2> QED
    BY <2>1, <2>2, <2>3
<1>12. ASSUME RestoreForget PROVE ControlInv' /\ MemoryInv' /\ FileInv'
  <2>1. ControlInv'
    BY <1>12 DEF RestoreForget, ControlInv
  <2>2. MemoryInv'
    BY <1>12 DEF RestoreForget, ControlInv, MemoryInv
  <2>3. FileInv'
    BY <1>12 DEF RestoreForget, ControlInv, MemoryInv, FileInv
  <2> QED
    BY <2>1, <2>2, <2>3
<1>13. ASSUME WatchdogForget PROVE ControlInv' /\ MemoryInv' /\ FileInv'
  <2>1. ControlInv'
    BY <1>13 DEF WatchdogForget, ControlInv
  <2>2. MemoryInv'
    BY <1>13 DEF WatchdogForget, ControlInv, MemoryInv
  <2>3. FileInv'
    BY <1>13 DEF WatchdogForget, ControlInv, MemoryInv, FileInv
  <2> QED
    BY <2>1, <2>2, <2>3
<1>14. ASSUME WatchdogCheck PROVE ControlInv' /\ MemoryInv' /\ FileInv'
  <2>1. ControlInv'
    BY <1>14 DEF WatchdogCheck, LockFree, ControlInv
  <2>2. MemoryInv'
    BY <1>14 DEF WatchdogCheck, LockFree, ControlInv, MemoryInv
  <2>3. FileInv'
    BY <1>14 DEF WatchdogCheck, LockFree, ControlInv, MemoryInv, FileInv
  <2> QED
    BY <2>1, <2>2, <2>3
<1>15. ASSUME WatchdogPutBack PROVE ControlInv' /\ MemoryInv' /\ FileInv'
  <2>1. ControlInv'
    BY PutBack, <1>15 DEF WatchdogPutBack, LockFree, ControlInv
  <2>2. MemoryInv'
    BY PutBack, <1>15 DEF WatchdogPutBack, LockFree, ControlInv, MemoryInv
  <2>3. FileInv'
    BY PutBack, <1>15 DEF WatchdogPutBack, LockFree, ControlInv, MemoryInv, FileInv
  <2> QED
    BY <2>1, <2>2, <2>3
<1>16. ASSUME WatchdogDropOnly PROVE ControlInv' /\ MemoryInv' /\ FileInv'
  <2>1. ControlInv'
    BY <1>16 DEF WatchdogDropOnly, LockFree, ControlInv
  <2>2. MemoryInv'
    BY <1>16 DEF WatchdogDropOnly, LockFree, ControlInv, MemoryInv
  <2>3. FileInv'
    BY <1>16 DEF WatchdogDropOnly, LockFree, ControlInv, MemoryInv, FileInv
  <2> QED
    BY <2>1, <2>2, <2>3
<1>17. ASSUME HeartbeatLapses PROVE ControlInv' /\ MemoryInv' /\ FileInv'
  <2>1. ControlInv'
    BY <1>17 DEF HeartbeatLapses, ControlInv
  <2>2. MemoryInv'
    BY <1>17 DEF HeartbeatLapses, ControlInv, MemoryInv
  <2>3. FileInv'
    BY <1>17 DEF HeartbeatLapses, ControlInv, MemoryInv, FileInv
  <2> QED
    BY <2>1, <2>2, <2>3
<1>18. ASSUME ClientsDie PROVE ControlInv' /\ MemoryInv' /\ FileInv'
  <2>1. ControlInv'
    BY <1>18 DEF ClientsDie, ControlInv
  <2>2. MemoryInv'
    BY <1>18 DEF ClientsDie, ControlInv, MemoryInv
  <2>3. FileInv'
    BY <1>18 DEF ClientsDie, ControlInv, MemoryInv, FileInv
  <2> QED
    BY <2>1, <2>2, <2>3
<1>19. ASSUME Crash PROVE ControlInv' /\ MemoryInv' /\ FileInv'
  <2>1. ControlInv'
    BY <1>19 DEF Crash, ControlInv
  <2>2. MemoryInv'
    BY <1>19 DEF Crash, ControlInv, MemoryInv
  <2>3. FileInv'
    BY <1>19 DEF Crash, ControlInv, MemoryInv, FileInv
  <2> QED
    BY <2>1, <2>2, <2>3
<1>20. ASSUME Launch PROVE ControlInv' /\ MemoryInv' /\ FileInv'
  <2>1. ControlInv'
    BY <1>20 DEF Launch, ControlInv
  <2>2. MemoryInv'
    BY <1>20 DEF Launch, ControlInv, MemoryInv
  <2>3. FileInv'
    BY <1>20 DEF Launch, ControlInv, MemoryInv, FileInv
  <2> QED
    BY <2>1, <2>2, <2>3
<1>21. CASE UNCHANGED vars
  BY <1>21 DEF vars, TypeOK, ControlInv, MemoryInv, FileInv
<1>22. TypeOK'
  BY TypeStep
<1> QED
  BY <1>1, <1>2, <1>3, <1>4, <1>5, <1>6, <1>7, <1>8, <1>9, <1>10, <1>11, <1>12, <1>13, <1>14, <1>15, <1>16, <1>17, <1>18, <1>19, <1>20, <1>21, <1>22 DEF Next, ClientOp, OpStep, Watchdog

(* The strengthened invariant holds in every reachable state.              *)
THEOREM Inductive == Spec => []IInv
BY InitIInv, StepIInv, PTL DEF Spec

-----------------------------------------------------------------------------
(* What the runs check on a small instance, for every instance.            *)

(* The knobs, the snapshot and the recovery file are always settings the   *)
(* kernel can be in.                                                       *)
THEOREM TypeCorrect == Spec => []TypeOK
<1>1. IInv => TypeOK
  BY DEF IInv
<1> QED
  BY <1>1, Inductive, PTL

(* apply_configuration and its early returns, end_session, begin_session   *)
(* and the watchdog never make the daemon forget or replace the user's     *)
(* settings while the knobs differ from them.                              *)
THEOREM OriginalIsHeld == Spec => []OriginalHeld
<1>1. IInv => OriginalHeld
  BY DEF IInv, MemoryInv, Intact, OriginalHeld
<1> QED
  BY <1>1, Inductive, PTL

(* A crash of the daemon at any instant leaves the user's settings in the  *)
(* recovery file, until the restarted daemon overwrites it.                *)
THEOREM RecoveryFileIsHeld == Spec => []RecoveryFileHeld
<1>1. IInv => RecoveryFileHeld
  BY DEF IInv, FileInv, Filed, RecoveryFileHeld
<1> QED
  BY <1>1, Inductive, PTL

(* Without a session the knobs are the user's, unless a client ended a     *)
(* session that held a snapshot.                                           *)
THEOREM NoSessionMeansNoChange == Spec => []NoSessionNoChange
<1>1. IInv => NoSessionNoChange
  BY DEF IInv, ControlInv, MemoryInv, Intact, NoSessionNoChange
<1> QED
  BY <1>1, Inductive, PTL

(* An ok answer of restore means the user's settings are back.             *)
THEOREM RestoreAnswerIsTrue == Spec => []RestoreAnswerTrue
<1>1. IInv => RestoreAnswerTrue
  BY DEF IInv, MemoryInv, Intact, RestoreAnswerTrue
<1> QED
  BY <1>1, Inductive, PTL

-----------------------------------------------------------------------------
(* The daemon implements the promise stated in Lease.                      *)

(* A restoration's writes, cut off from the forgetting of the snapshot.    *)
LEMMA PutBackIsWrite ==
  ASSUME TypeOK, NEW snap \in orig, NEW refused \in Refusals,
         hw' = ApplySnapshot(hw, snap, refused), NoteRefusal(refused),
         UNCHANGED <<active, orig>>
  PROVE  L!Write
<1>1. hw' \in Hw /\ (faults' = faults \/ "refused" \in faults')
  BY PutBack
<1> QED
  BY <1>1 DEF L!Write

(* Forgetting the snapshot after its writes: the knobs are equal to it, or *)
(* the daemon knows that they may not be.                                  *)
LEMMA ForgetIsRelease ==
  ASSUME IInv, InForget, UNCHANGED <<hw, faults>>, orig' = {}, active' = FALSE
  PROVE  L!Release
<1>1. orig # {} /\ hw \in Hw
  BY DEF IInv, ControlInv, TypeOK
<1>2. Intact => hw \in orig
  BY <1>1 DEF IInv, MemoryInv
<1> QED
  BY <1>1, <1>2 DEF L!Release, Intact

(* Each step of the daemon is a step of its promise, or changes nothing    *)
(* the promise speaks of.                                                  *)
LEMMA StepImplements == IInv /\ IInv' /\ [Next]_vars => [L!Next]_L!lvars
<1> SUFFICES ASSUME IInv, IInv', [Next]_vars PROVE [L!Next]_L!lvars
  OBVIOUS
<1> USE DEF session, ghosts
<1>0. hw' \in Hw /\ TypeOK
  BY DEF IInv, TypeOK
<1>1. ASSUME NEW c \in Clients, BeginSession(c) PROVE L!Open
  BY <1>1 DEF BeginSession, L!Open
<1>2. ASSUME NEW c \in Clients, EndSession(c) PROVE L!Drop \/ UNCHANGED L!lvars
  BY <1>0, <1>2 DEF EndSession, L!Drop, L!lvars, TypeOK
<1>3. ASSUME NEW c \in Clients, NEW r \in Requests, ApplyBegin(c, r) PROVE L!Apply
  BY <1>0, <1>3 DEF ApplyBegin, L!Apply, TypeOK
<1>4. ASSUME NEW c \in Clients, RestorePutBack(c) PROVE L!Write
  BY <1>0, <1>4, PutBackIsWrite DEF RestorePutBack
<1>5. ASSUME ApplySwitch \/ ApplyWrite PROVE L!Write
  BY <1>0, <1>5 DEF ApplySwitch, ApplyWrite, IInv, ControlInv, InApply, L!Write
<1>6. ASSUME RestoreForget \/ WatchdogForget PROVE L!Release
  BY <1>6, ForgetIsRelease DEF RestoreForget, WatchdogForget, InForget
<1>7. CASE WatchdogPutBack
  BY <1>0, <1>7, PutBackIsWrite DEF WatchdogPutBack, L!Next
<1>8. CASE WatchdogDropOnly
  BY <1>0, <1>8 DEF WatchdogDropOnly, L!Drop, L!Next, L!lvars, TypeOK
<1>9. CASE Crash
  BY <1>9 DEF Crash, L!Die, L!Next
<1>10. ASSUME \/ \E c \in Clients : Heartbeat(c) \/ RestoreNothing(c)
              \/ ApplyPersist \/ ApplyPersistFails \/ ApplyReject
              \/ WatchdogCheck \/ HeartbeatLapses \/ ClientsDie \/ Launch
              \/ UNCHANGED vars
       PROVE  UNCHANGED L!lvars
  BY <1>10 DEF Heartbeat, RestoreNothing, ApplyPersist, ApplyPersistFails, ApplyReject,
     WatchdogCheck, HeartbeatLapses, ClientsDie, Launch, vars, L!lvars
<1> QED
  BY <1>1, <1>2, <1>3, <1>4, <1>5, <1>6, <1>7, <1>8, <1>9, <1>10
     DEF Next, ClientOp, OpStep, Watchdog, L!Next

(* Clients may rely on Lease: whatever the interleaving of operations,     *)
(* watchdog and crashes, settings change only under a lease or a kept      *)
(* original, which is given up only when it is in force again.             *)
THEOREM DaemonImplementsLease == Spec => ImplementsLease
<1>1. Init => L!Init
  BY InitialAssumption DEF Init, L!Init
<1>2. IInv /\ IInv' /\ [Next]_vars => [L!Next]_L!lvars
  BY StepImplements
<1> QED
  BY <1>1, <1>2, Inductive, PTL DEF Spec, ImplementsLease, L!Spec

=============================================================================
