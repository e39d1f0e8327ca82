---------------------------- MODULE HelperDaemon ----------------------------
(***************************************************************************)
(* helper/daemon.py: the root daemon that owns the CPU knobs.  It serves   *)
(* one thread per connection; every operation runs under one lock.  A      *)
(* watchdog thread decides under the lock whether a session's heartbeat is *)
(* stale, releases the lock, and takes it again to restore.                *)
(*                                                                         *)
(* pc says which step the lock's holder is at ("free": nobody holds it).   *)
(* An operation is cut where a crash of the daemon leaves something        *)
(* different behind: in-memory snapshot, recovery file, knob writes.       *)
(* Clients may call any operation at any time: the daemon keeps them out   *)
(* only by the checks that are guards below.                               *)
(***************************************************************************)
EXTENDS Cpufreq

CONSTANTS
  Clients,     \* processes whose uid passes the SO_PEERCRED gate
  Requests,    \* the controls they send to apply_configuration
  InitialHw,   \* settings the user may have made before the daemon starts
  Refusals     \* sets of knob writes the kernel may refuse at once

KnobNames == {"mode", "boost", "max", "min", "gov"}

ASSUME RefusalAssumption == {} \in Refusals /\ Refusals \subseteq SUBSET KnobNames

ASSUME InitialAssumption == InitialHw # {} /\ InitialHw \subseteq Hw

(* A request: mode and boost are sets with at most one value ("key absent" *)
(* is the empty set); caps and govs map policy names, known or not.        *)
IsRequest(r) ==
  /\ r.mode \subseteq Modes
  /\ r.boost \subseteq {0, 1}
  /\ \A p \in DOMAIN r.caps : r.caps[p] \in Nat
  /\ r.clamp \in BOOLEAN

ASSUME RequestAssumption == \A r \in Requests : IsRequest(r)

VARIABLES
  up,        \* the daemon process runs
  hw,        \* the knobs
  active,    \* _session["active"]
  holder,    \* _session uid/pid: {} or {client}
  fresh,     \* last_heartbeat is at most HEARTBEAT_TIMEOUT_S old
  orig,      \* _orig_state: {} or {snapshot}
  file,      \* RECOVERY_FILE: {} (absent or unreadable) or {snapshot}
  pc,        \* what the lock's holder does next
  req,       \* the request being applied: {} or {request}
  wd,        \* the watchdog thread: "sleep", or "decided" between its locks
  restored,  \* answer of the last restore, until the next apply
  gone,      \* no client process is left
  pristine,  \* history: the settings the user had made
  faults,    \* history: what went wrong outside the daemon's control
  unclean    \* history: a session was ended while a snapshot was held

session == <<active, holder, fresh>>
vars == <<up, hw, active, holder, fresh, orig, file, pc, req, wd, restored,
          gone, pristine, faults, unclean>>
ghosts == <<pristine, faults, unclean>>

Faults == {"crash", "refused", "disk", "overwritten"}

TypeOK ==
  /\ up \in BOOLEAN /\ active \in BOOLEAN /\ fresh \in BOOLEAN
  /\ gone \in BOOLEAN /\ unclean \in BOOLEAN
  /\ hw \in Hw /\ pristine \in Hw
  /\ holder \subseteq Clients
  /\ orig \subseteq Hw /\ file \subseteq Hw
  /\ pc \in {"free", "persist", "switch", "caps", "forget", "wdforget"}
  /\ req \subseteq Requests
  /\ wd \in {"sleep", "decided"}
  /\ restored \in {"none", "ok", "mismatch", "nothing"}
  /\ faults \subseteq Faults

Init ==
  /\ up = TRUE /\ active = FALSE /\ fresh = FALSE /\ holder = {}
  /\ pristine \in InitialHw /\ hw = pristine
  /\ orig = {} /\ file = {} /\ req = {}
  /\ pc = "free" /\ wd = "sleep" /\ restored = "none"
  /\ gone = FALSE /\ faults = {} /\ unclean = FALSE

-----------------------------------------------------------------------------
(* Mutant of ApplySnapshot: the limits are written before boost.           *)
ApplySnapshotLimitsFirst(h, snap, refused) ==
  LET wrote(k, next, prev) == IF k \in refused THEN prev ELSE next
      h1 == wrote("mode",  SetMode(h, snap.mode), h)
      h2 == wrote("max",   SetMax(h1, Policies, snap.max), h1)
      h3 == wrote("min",   SetMin(h2, Policies, snap.min), h2)
      h4 == wrote("boost", SetBoost(h3, snap.boost), h3)
  IN  wrote("gov", SetGov(h4, Policies, snap.gov), h4)

(* apply_snapshot: boost before the limits, the upper limit before the     *)
(* lower one.  A refused write (OSError) is ignored by _write_int and      *)
(* _write_str, and the loop goes on.                                       *)
ApplySnapshot(h, snap, refused) ==
  LET wrote(k, next, prev) == IF k \in refused THEN prev ELSE next
      h1 == wrote("mode",  SetMode(h, snap.mode), h)
      h2 == wrote("boost", SetBoost(h1, snap.boost), h1)
      h3 == wrote("max",   SetMax(h2, Policies, snap.max), h2)
      h4 == wrote("min",   SetMin(h3, Policies, snap.min), h3)
  IN  wrote("gov", SetGov(h4, Policies, snap.gov), h4)

(* A restoration whose writes were partly refused loses the original. *)
NoteRefusal(refused) ==
  faults' = IF refused = {} THEN faults ELSE faults \cup {"refused"}

(* The caps a request asks for, resolved against the current hardware. *)
Resolved(r, h) ==
  [p \in DOMAIN r.caps |->
     CASE r.clamp /\ r.caps[p] > CpuMax(h.boost) -> CpuMax(h.boost)
       [] r.clamp /\ r.caps[p] < MinFreq         -> MinFreq
       [] OTHER                                  -> r.caps[p]]

(* Mutant of Valid: the lower bound of a cap is not checked.               *)
ValidUpperOnly(r, h) ==
  /\ DOMAIN r.caps \subseteq Policies
  /\ \A p \in DOMAIN r.caps : Resolved(r, h)[p] <= CpuMax(h.boost)
  /\ DOMAIN r.govs \subseteq Policies
  /\ \A p \in DOMAIN r.govs : r.govs[p] \in Governors

(* What apply_configuration checks before it writes any cap or governor.   *)
Valid(r, h) ==
  /\ DOMAIN r.caps \subseteq Policies
  /\ \A p \in DOMAIN r.caps : Resolved(r, h)[p] \in MinFreq..CpuMax(h.boost)
  /\ DOMAIN r.govs \subseteq Policies
  /\ \A p \in DOMAIN r.govs : r.govs[p] \in Governors

LockFree == up /\ pc = "free"
Calls(c) == LockFree /\ ~gone

-----------------------------------------------------------------------------
(* The client operations. *)

BeginSession(c) ==
  /\ Calls(c) /\ ~active
  /\ active' = TRUE /\ holder' = {c} /\ fresh' = TRUE
  /\ UNCHANGED <<up, hw, orig, file, pc, req, wd, restored, gone, ghosts>>

Heartbeat(c) ==
  /\ Calls(c) /\ active
  /\ fresh' = TRUE
  /\ UNCHANGED <<up, hw, active, holder, orig, file, pc, req, wd, restored,
                 gone, ghosts>>

(* Mutant of EndSession: the snapshot is given up with the lease.          *)
EndSessionForgets(c) ==
  /\ Calls(c)
  /\ active' = FALSE /\ holder' = {} /\ orig' = {} /\ file' = {}
  /\ unclean' = (unclean \/ orig # {})
  /\ UNCHANGED <<up, hw, fresh, pc, req, wd, restored, gone, pristine, faults>>

(* end_session only drops the lease: the knobs and _orig_state stay. *)
EndSession(c) ==
  /\ Calls(c)
  /\ active' = FALSE /\ holder' = {}
  /\ unclean' = (unclean \/ orig # {})
  /\ UNCHANGED <<up, hw, fresh, orig, file, pc, req, wd, restored, gone,
                 pristine, faults>>

(* Mutant of ApplyBegin: every call takes a new snapshot.                  *)
ApplyBeginResnapshots(c, r) ==
  /\ Calls(c) /\ active
  /\ orig' = {hw} /\ pc' = "persist" /\ req' = {r} /\ restored' = "none"
  /\ UNCHANGED <<up, hw, session, file, wd, gone, ghosts>>

(* Mutant of ApplyBegin: the recovery file is forgotten.                   *)
ApplyBeginNoFile(c, r) ==
  /\ Calls(c) /\ active
  /\ orig' = IF orig = {} THEN {hw} ELSE orig
  /\ pc' = "switch" /\ req' = {r} /\ restored' = "none"
  /\ UNCHANGED <<up, hw, session, file, wd, gone, ghosts>>

(* Mutant of ApplyBegin: no lease is asked for.                            *)
ApplyBeginNoLease(c, r) ==
  /\ Calls(c)
  /\ orig' = IF orig = {} THEN {hw} ELSE orig
  /\ pc' = IF orig = {} THEN "persist" ELSE "switch"
  /\ req' = {r} /\ restored' = "none"
  /\ UNCHANGED <<up, hw, session, file, wd, gone, ghosts>>

(* apply_configuration: the snapshot is taken once, before the first write. *)
ApplyBegin(c, r) ==
  /\ Calls(c) /\ active
  /\ orig' = IF orig = {} THEN {hw} ELSE orig
  /\ pc' = IF orig = {} THEN "persist" ELSE "switch"
  /\ req' = {r}
  /\ restored' = "none"
  /\ UNCHANGED <<up, hw, session, file, wd, gone, ghosts>>

(* After a crash this write replaces the only copy of the original. *)
ApplyPersist ==
  /\ pc = "persist"
  /\ file' = orig
  /\ pc' = "switch"
  /\ faults' = IF "crash" \in faults THEN faults \cup {"overwritten"} ELSE faults
  /\ UNCHANGED <<up, hw, session, orig, req, wd, restored, gone, pristine, unclean>>

(* The recovery file cannot be written: the exception ends the connection, *)
(* but _orig_state is already set.                                         *)
ApplyPersistFails ==
  /\ pc = "persist"
  /\ file' = {} /\ pc' = "free" /\ req' = {}
  /\ faults' = faults \cup {"disk"}
  /\ UNCHANGED <<up, hw, session, orig, wd, restored, gone, pristine, unclean>>

(* The mode and boost are written before anything is validated. *)
ApplySwitch ==
  /\ pc = "switch"
  /\ \E r \in req, refused \in Refusals :
       LET h1 == IF r.mode = {} \/ "mode" \in refused THEN hw
                 ELSE SetMode(hw, CHOOSE m \in r.mode : TRUE)
       IN  hw' = IF r.boost = {} \/ "boost" \in refused THEN h1
                 ELSE SetBoost(h1, CHOOSE b \in r.boost : TRUE)
  /\ pc' = "caps"
  /\ UNCHANGED <<up, session, orig, file, req, wd, restored, gone, ghosts>>

(* An unknown policy, a cap out of range or a governor not offered. *)
ApplyReject ==
  /\ pc = "caps"
  /\ \E r \in req : ~Valid(r, hw)
  /\ pc' = "free" /\ req' = {}
  /\ UNCHANGED <<up, hw, session, orig, file, wd, restored, gone, ghosts>>

ApplyWrite ==
  /\ pc = "caps"
  /\ \E r \in req, refused \in Refusals :
       /\ Valid(r, hw)
       /\ LET h1 == IF "max" \in refused THEN hw
                    ELSE SetMax(hw, DOMAIN r.caps, Resolved(r, hw))
          IN  hw' = IF "gov" \in refused THEN h1 ELSE SetGov(h1, DOMAIN r.govs, r.govs)
  /\ pc' = "free" /\ req' = {}
  /\ UNCHANGED <<up, session, orig, file, wd, restored, gone, ghosts>>

(* restore without a snapshot: nothing changes, the session included. *)
RestoreNothing(c) ==
  /\ Calls(c) /\ orig = {}
  /\ restored' = "nothing"
  /\ UNCHANGED <<up, hw, session, orig, file, pc, req, wd, gone, ghosts>>

RestorePutBack(c) ==
  /\ Calls(c)
  /\ \E snap \in orig, refused \in Refusals :
       /\ hw' = ApplySnapshot(hw, snap, refused)
       /\ NoteRefusal(refused)
  /\ pc' = "forget"
  /\ UNCHANGED <<up, session, orig, file, req, wd, restored, gone, pristine, unclean>>

(* The readback is compared, and the snapshot dropped even on a mismatch. *)
RestoreForget ==
  /\ pc = "forget"
  /\ restored' = IF {hw} = orig THEN "ok" ELSE "mismatch"
  /\ orig' = {} /\ file' = {} /\ active' = FALSE /\ pc' = "free"
  /\ UNCHANGED <<up, hw, holder, fresh, req, wd, gone, ghosts>>

-----------------------------------------------------------------------------
(* The watchdog thread, time, and the environment. *)

WatchdogCheck ==
  /\ LockFree /\ wd = "sleep"
  /\ active /\ ~fresh
  /\ wd' = "decided"
  /\ UNCHANGED <<up, hw, session, orig, file, pc, req, restored, gone, ghosts>>

(* The second lock: active and stale are not looked at again. *)
WatchdogPutBack ==
  /\ LockFree /\ wd = "decided"
  /\ \E snap \in orig, refused \in Refusals :
       /\ hw' = ApplySnapshot(hw, snap, refused)
       /\ NoteRefusal(refused)
  /\ pc' = "wdforget"
  /\ UNCHANGED <<up, session, orig, file, req, wd, restored, gone, pristine, unclean>>

WatchdogForget ==
  /\ pc = "wdforget"
  /\ orig' = {} /\ file' = {} /\ active' = FALSE
  /\ pc' = "free" /\ wd' = "sleep"
  /\ UNCHANGED <<up, hw, holder, fresh, req, restored, gone, ghosts>>

(* Mutant of WatchdogDropOnly: the lease goes before the snapshot is used. *)
WatchdogDropsFirst ==
  /\ LockFree /\ wd = "decided"
  /\ active' = FALSE /\ wd' = "sleep"
  /\ UNCHANGED <<up, hw, holder, fresh, orig, file, pc, req, restored, gone, ghosts>>

(* Nothing was applied in the session: it is only dropped.                 *)
WatchdogDropOnly ==
  /\ LockFree /\ wd = "decided" /\ orig = {}
  /\ active' = FALSE /\ wd' = "sleep"
  /\ UNCHANGED <<up, hw, holder, fresh, orig, file, pc, req, restored, gone, ghosts>>

(* HEARTBEAT_TIMEOUT_S pass without a heartbeat. *)
HeartbeatLapses ==
  /\ active /\ fresh
  /\ fresh' = FALSE
  /\ UNCHANGED <<up, hw, active, holder, orig, file, pc, req, wd, restored, gone, ghosts>>

(* Every client process dies; an operation already inside runs to its end. *)
ClientsDie ==
  /\ ~gone /\ gone' = TRUE
  /\ UNCHANGED <<up, hw, session, orig, file, pc, req, wd, restored, ghosts>>

(* The daemon is killed: its memory goes, the knobs and the file stay. *)
Crash ==
  /\ up /\ up' = FALSE
  /\ active' = FALSE /\ holder' = {} /\ fresh' = FALSE
  /\ orig' = {} /\ pc' = "free" /\ req' = {} /\ wd' = "sleep"
  /\ faults' = faults \cup {"crash"}
  /\ UNCHANGED <<hw, file, restored, gone, pristine, unclean>>

(* main(): a new daemon starts empty; the recovery file is not read. *)
Launch ==
  /\ ~up /\ up' = TRUE
  /\ UNCHANGED <<hw, session, orig, file, pc, req, wd, restored, gone, ghosts>>

ClientOp(c) ==
  \/ BeginSession(c) \/ Heartbeat(c) \/ EndSession(c)
  \/ \E r \in Requests : ApplyBegin(c, r)
  \/ RestoreNothing(c) \/ RestorePutBack(c)

OpStep == ApplyPersist \/ ApplyPersistFails \/ ApplySwitch \/ ApplyReject
          \/ ApplyWrite \/ RestoreForget \/ WatchdogForget

Watchdog == WatchdogCheck \/ WatchdogPutBack \/ WatchdogDropOnly

Next ==
  \/ \E c \in Clients : ClientOp(c)
  \/ OpStep \/ Watchdog
  \/ HeartbeatLapses \/ ClientsDie \/ Crash \/ Launch

Spec == Init /\ [][Next]_vars

(* The watchdog loops for ever, the lock's holder runs to its end, and     *)
(* time passes.  Nothing is assumed of the clients.                        *)
FairSpec == Spec /\ WF_vars(OpStep) /\ WF_vars(Watchdog) /\ WF_vars(HeartbeatLapses)

-----------------------------------------------------------------------------
(* Properties.  A fault outside the daemon's control (a crash, a knob write *)
(* the kernel refuses during a restoration, a full /run) is recorded in     *)
(* faults, and each property names the faults it cannot survive.            *)

(* Whenever the knobs differ from what the user had, the daemon holds the   *)
(* user's settings and nothing else as its snapshot: no sequence of apply   *)
(* (accepted, rejected half-way or aborted), end_session, begin_session and *)
(* watchdog steps snapshots already modified knobs or forgets too early.    *)
OriginalHeld ==
  (hw # pristine /\ faults \cap {"crash", "refused"} = {}) => orig = {pristine}

(* The recovery file holds the original as long as the knobs are changed,   *)
(* at every instant a crash of the daemon could fall, and after the crash,  *)
(* until an apply of the restarted daemon overwrites it.                    *)
RecoveryFileHeld ==
  (hw # pristine /\ faults \cap {"refused", "disk", "overwritten"} = {})
    => file = {pristine}

(* Without a session the knobs are the user's, unless some client called    *)
(* end_session on a held snapshot: that is the only way out of a lease      *)
(* that leaves the machine changed.                                         *)
NoSessionNoChange ==
  (~active /\ ~unclean /\ faults \cap {"crash", "refused"} = {}) => hw = pristine

(* When restore answers ok, also with nothing_to_restore, the knobs are the *)
(* user's and stay so until the next apply.                                 *)
RestoreAnswerTrue ==
  (restored \in {"ok", "nothing"} /\ faults \cap {"crash", "refused"} = {})
    => hw = pristine

(* If every client process dies during a session, the watchdog returns the  *)
(* knobs to the user's settings, whatever operation was in progress and     *)
(* whatever the watchdog had decided before.                                *)
GoneIsRestored ==
  (gone /\ active) ~> \/ ~active /\ hw = pristine
                      \/ faults \cap {"crash", "refused"} # {}

(* The daemon implements the promise it makes to its clients (Lease):      *)
(* every step of every thread, cut anywhere by another thread's operation, *)
(* by the watchdog between its locks or by a crash, is one Lease step.     *)
L == INSTANCE Lease WITH Settings <- Hw, lease <- active, kept <- orig,
                         lost <- faults \cap {"crash", "refused"} # {}

ImplementsLease == L!Spec

(* README.md: whatever went wrong, the restore command puts the machine     *)
(* back: an ok answer means the user's settings, also after a crash.        *)
RestoreRecovers ==
  (restored \in {"ok", "nothing"} /\ "refused" \notin faults) => hw = pristine

=============================================================================
