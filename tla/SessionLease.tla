---------------------------- MODULE SessionLease ----------------------------
(***************************************************************************)
(* The write lease of SessionCoordinator and the write-ahead protocol that *)
(* grants and ends it (session_coordination.py), with the three durable    *)
(* things it writes (runtime_state.py): the WAL marker, the coordination   *)
(* snapshot and the audit ledger.                                          *)
(*                                                                         *)
(* Every method holds the coordinator's condition except around its file   *)
(* I/O, where it drops it, calls out and takes it again.  One action here  *)
(* is one such I/O with everything the code does from taking the condition *)
(* back to dropping it for the next I/O; what the I/O is to write is       *)
(* captured by the action before, as in the code.  An I/O may fail, within *)
(* the budget MaxFaults, and the daemon may crash between any two actions. *)
(*                                                                         *)
(* Left to other modules: who waits in which order (waiting only counts    *)
(* tickets; a direct grant may bypass them, as the grace reacquire does),  *)
(* the lease-end rows and the lifecycle fault, which only delay a grant.   *)
(*                                                                         *)
(* LastWriteWins, GrantKept, MarkUnsaved, RetireUnseen, NeverWatched and   *)
(* NamedOrNone are deliberate mistakes, used by no action: each is a bug   *)
(* one of the properties must notice.                                      *)
(***************************************************************************)
EXTENDS Naturals, FiniteSets

CONSTANTS Thread,       \* request threads of the daemon
          Worker,       \* release-audit workers: one audits at a time
                        \* (MAX_RELEASE_AUDIT_WORKERS), the others finish a WAL;
                        \* bound of the model: how many are alive at once
          MaxLease,     \* bound of the model: leases ever created
          MaxRev,       \* bound of the model: no heartbeat, enqueue or cancel
                        \* past this revision
          MaxWaiting,   \* bound of the model: queued tickets
          MaxFaults,    \* bound of the model: failed I/O calls
          Crashing      \* whether the daemon may crash

ASSUME LeaseAssumption ==
  /\ Worker \cap Thread = {}
  /\ {MaxLease, MaxRev, MaxWaiting, MaxFaults} \subseteq Nat
  /\ Crashing \in BOOLEAN

VARIABLES mem,      \* the coordinator's fields
          disk,     \* the WAL marker and the snapshot
          ledger,   \* leases audited as granted and not yet as revoked or finished,
          lost,     \* but for these: a startup left them standing with no name
          job,      \* what each thread is doing
          issued,   \* leases created so far: ids never repeat
          faults,   \* failed I/O calls so far
          boot,     \* the daemon's startup and the leases it is about to attribute
          amiss     \* history: which of two overlaps has happened
                    \* (Overtaken, Overlapped)

vars == <<mem, disk, ledger, lost, job, issued, faults, boot, amiss>>

Proc == Thread \cup Worker
Lease == 1 .. MaxLease
NoLease == 0
LeaseOrNone == Lease \cup {NoLease}

Marker == [op : {"none", "grant", "release"}, lease : LeaseOrNone]
NoMarker == [op |-> "none", lease |-> NoLease]
Unmarked == [op |-> "grant", lease |-> NoLease]   \* the fault "wal-unavailable"
Marks(w) == [op |-> w.op, lease |-> w.lease]

Snapshot == [rev : Nat, active : LeaseOrNone, releasing : LeaseOrNone,
             granting : LeaseOrNone, fault : Marker]
NoSnapshot == [rev |-> 0, active |-> NoLease, releasing |-> NoLease,
               granting |-> NoLease, fault |-> NoMarker]

Wal == [state : {"none", "armed", "completed", "fault", "repairing", "repaired"},
        op : {"none", "grant", "release"}, lease : LeaseOrNone,
        changed : BOOLEAN, rev : Nat]
ArmedWal(op, l) ==
  [state |-> "armed", op |-> op, lease |-> l, changed |-> FALSE, rev |-> 0]
NoWal == [state |-> "none", op |-> "none", lease |-> NoLease, changed |-> FALSE, rev |-> 0]

Memory == [active : LeaseOrNone, releasing : LeaseOrNone, inflight : LeaseOrNone,
           withdrawn : BOOLEAN,      \* the grant's operation is tombstoned
           handoff : BOOLEAN, handoffFailed : BOOLEAN, grantFailed : BOOLEAN,
           fault : Marker, wal : Wal, fence : BOOLEAN, rev : Nat,
           waiting : Nat, gate : BOOLEAN,
           unsafe : BOOLEAN,         \* the cleanup of releasing ended, not safely
           due : BOOLEAN]            \* the active lease's TTL has passed
Fresh == [active |-> NoLease, releasing |-> NoLease, inflight |-> NoLease,
          withdrawn |-> FALSE, handoff |-> FALSE, handoffFailed |-> FALSE,
          grantFailed |-> FALSE, fault |-> NoMarker, wal |-> NoWal,
          fence |-> FALSE, rev |-> 0, waiting |-> 0, gate |-> FALSE,
          unsafe |-> FALSE, due |-> FALSE]

(* What _wal_finish_fence_locked captures of the coordinator: a release's   *)
(* fence leaves the revision out.                                          *)
Fence == [rev : Nat, active : LeaseOrNone, releasing : LeaseOrNone,
          inflight : LeaseOrNone, handoff : BOOLEAN, handoffFailed : BOOLEAN,
          grantFailed : BOOLEAN, fence : BOOLEAN, fault : Marker]
View(m, op) ==
  [rev |-> IF op = "release" THEN 0 ELSE m.rev,
   active |-> m.active, releasing |-> m.releasing, inflight |-> m.inflight,
   handoff |-> m.handoff, handoffFailed |-> m.handoffFailed,
   grantFailed |-> m.grantFailed, fence |-> m.fence, fault |-> m.fault]

(* What a thread or a worker is doing: where it is, for which lease, and   *)
(* what it captured before the I/O it is about to make.                    *)
Pc == {"idle", "gate", "g_arm", "g_audit", "f_mark", "f_snap", "f_done", "f_clear",
       "f_pending", "c_arm", "c_mark", "c_revoke", "b_revoke", "latch", "l_save",
       "r_arm", "swept", "cleanup", "w_audit", "w_save", "beat", "persist",
       "fix_save", "fix_clear", "fix_late"}
Job == [pc : Pc, lease : LeaseOrNone, fifo : BOOLEAN, published : BOOLEAN,
        gate : BOOLEAN,     \* it holds the audit gate
        marked : BOOLEAN,   \* the compensation reached the marker
        after : {"none", "publish", "undo", "handoff", "refused", "owner", "expired"},
        view : Fence, held : Wal, snap : Snapshot]
Idle == [pc |-> "idle", lease |-> NoLease, fifo |-> FALSE, published |-> FALSE,
         gate |-> FALSE, marked |-> TRUE, after |-> "none",
         view |-> View(Fresh, "release"), held |-> NoWal, snap |-> NoSnapshot]

Init ==
  /\ mem = Fresh
  /\ disk = [wal |-> NoWal, snap |-> NoSnapshot]
  /\ ledger = {} /\ lost = {}
  /\ job = [p \in Proc |-> Idle]
  /\ issued = 0
  /\ faults = 0
  /\ boot = [at |-> "up", named |-> {}]
  /\ amiss = {}

-----------------------------------------------------------------------------
(* Helpers: I/O outcomes, what is captured, and how an action goes on.     *)

IoOk == UNCHANGED faults
IoFails == faults < MaxFaults /\ faults' = faults + 1

Bump(m) == [m EXCEPT !.rev = @ + 1]

(* _snapshot_payload_locked; whole is persist_provisional_grant.           *)
Payload(m, whole) ==
  LET provisional == m.inflight # NoLease /\ m.active = m.inflight
  IN  [rev |-> m.rev, releasing |-> m.releasing, fault |-> m.fault,
       active |-> IF provisional /\ ~whole THEN NoLease ELSE m.active,
       granting |-> IF provisional /\ whole THEN NoLease ELSE m.inflight]

(* A snapshot is written only over an older one; a fault that is not a     *)
(* valid marker is refused by _coordination_payload.                       *)
LastWriteWins(old, new) == new
Newer(old, new) == IF new.rev > old.rev THEN new ELSE old
Saved(p) ==
  /\ job[p].snap.fault # Unmarked
  /\ disk' = [disk EXCEPT !.snap = Newer(@, job[p].snap)]
  /\ IoOk
NotSaved(p) ==
  /\ UNCHANGED disk
  /\ (job[p].snap.fault = Unmarked /\ IoOk) \/ IoFails

GateOpen(p) == ~mem.gate \/ job[p].gate
Unlock(p, m) == IF job[p].gate THEN [m EXCEPT !.gate = FALSE] ELSE m
Become(p, m, j) == mem' = m /\ job' = [job EXCEPT ![p] = j]
Move(p, m, pc) == Become(p, m, [job[p] EXCEPT !.pc = pc, !.held = m.wal])
End(p, m) == Become(p, Unlock(p, m), Idle)

SaveNext(p, m, pc) == Become(p, m, [job[p] EXCEPT !.pc = pc, !.snap = Payload(m, TRUE)])

GrantKept(m, l) == m
ClearGrant(m, l) == IF m.inflight = l THEN Bump([m EXCEPT !.inflight = NoLease]) ELSE m

(* _compensate_provisional_grant_locked, as far as its first I/O: a marker *)
(* already gone is armed again, which a latched fault refuses.             *)
Compensate(p, m) ==
  Become(p, m,
    [job[p] EXCEPT !.pc = IF m.wal # NoWal THEN "c_mark"
                          ELSE IF m.fault = NoMarker THEN "c_arm" ELSE "c_revoke",
                   !.marked = m.wal # NoWal \/ m.fault = NoMarker,
                   !.held = m.wal])

(* _latch_wal_fault_locked: the marker it met is first moved to fault on   *)
(* disk.  The fault is the coordinator's marker after that I/O; without    *)
(* one, the fault "wal-unavailable" is latched.                            *)
Latched(p, m) ==
  LET fault == IF m.wal = NoWal THEN Unmarked ELSE Marks(m.wal)
  IN  SaveNext(p, Bump([m EXCEPT !.fault = fault,
                                 !.handoffFailed = @ \/ fault.op = "release",
                                 !.grantFailed = @ \/ fault.op = "grant"]), "l_save")

Latch(p, m) == IF m.wal = NoWal THEN Latched(p, m) ELSE Move(p, m, "latch")

Changed(p, m) == IF job[p].after = "publish" THEN Compensate(p, m) ELSE Latch(p, m)
Broken(p, m) ==
  IF job[p].after = "publish" THEN Move(p, m, "b_revoke") ELSE Latch(p, m)

(* _finish_wal_after_publish_locked, as far as its first I/O.              *)
Finish(p, m, after) ==
  IF m.wal = NoWal THEN Latch(p, m)
  ELSE Become(p, m, [job[p] EXCEPT !.pc = "f_mark", !.after = after, !.held = m.wal,
                                   !.view = View(m, m.wal.op),
                                   !.snap = Payload(m, TRUE)])

(* CoordinationFaultStore.arm, then _arm_wal_locked's assignments.         *)
ArmDisk(op, l) ==
  /\ disk.wal = NoWal
  /\ disk' = [disk EXCEPT !.wal = ArmedWal(op, l)]
  /\ IoOk
ArmFails ==
  /\ UNCHANGED disk
  /\ (disk.wal # NoWal /\ IoOk) \/ IoFails
Armed(op, l) == [mem EXCEPT !.wal = ArmedWal(op, l)]

(* CoordinationFaultStore.transition and clear: a compare-and-swap against *)
(* the marker the coordinator held when it dropped the condition.          *)
May(p, w) ==
  /\ job[p].held # NoWal /\ disk.wal = job[p].held
  /\ w = NoWal => disk.wal.state \in {"completed", "repaired"}
  /\ w.state = "fault" => disk.wal.state # "repairing"
  /\ w.state \notin {"none", "fault"} /\ w.changed # disk.wal.changed =>
       disk.wal.state = "armed"
  /\ w.state = "completed" /\ w.changed = disk.wal.changed =>
       disk.wal.state \in {"armed", "completed"}
Moved(p, w) == May(p, w) /\ disk' = [disk EXCEPT !.wal = w] /\ IoOk
NotMoved(p, w) == UNCHANGED disk /\ ((~May(p, w) /\ IoOk) \/ IoFails)
Now(w) == [mem EXCEPT !.wal = w]

Up == boot.at = "up"
MayStart(p) == Up /\ job[p].pc = "idle"
MayTouch(p) == MayStart(p) /\ mem.rev <= MaxRev
At(p, pc) == Up /\ job[p].pc = pc /\ UNCHANGED <<issued, boot, lost, amiss>>

-----------------------------------------------------------------------------
(* Granting: acquire (fifo FALSE) and _claim_head_from_wait (fifo TRUE).   *)

SlotIdle ==
  /\ mem.active = NoLease /\ mem.releasing = NoLease /\ mem.inflight = NoLease
  /\ mem.wal = NoWal /\ ~mem.handoff

BeginGrant(t, fifo) ==
  /\ MayStart(t)
  /\ SlotIdle
  /\ mem.fault = NoMarker /\ ~mem.fence /\ ~mem.grantFailed
  /\ mem.handoffFailed => mem.waiting = 0
  /\ fifo => mem.waiting > 0
  /\ issued < MaxLease
  /\ issued' = issued + 1
  /\ LET m == Bump([mem EXCEPT !.inflight = issued + 1, !.withdrawn = FALSE])
     IN  Become(t, m, [Idle EXCEPT !.pc = "gate", !.lease = issued + 1, !.fifo = fifo,
                                   !.view = View(m, "grant")])
  /\ UNCHANGED <<disk, ledger, faults, boot, lost, amiss>>

(* The audit gate is tried without blocking, then _arm_wal_locked checks.  *)
TakeGate(t) ==
  /\ At(t, "gate")
  /\ IF mem.gate \/ mem.wal # NoWal \/ mem.fault # NoMarker
     THEN End(t, ClearGrant(mem, job[t].lease))
     ELSE Become(t, [mem EXCEPT !.gate = TRUE],
                 [job[t] EXCEPT !.pc = "g_arm", !.gate = TRUE])
  /\ UNCHANGED <<disk, ledger, faults>>

ArmGrant(t) ==
  /\ At(t, "g_arm")
  /\ \/ ArmDisk("grant", job[t].lease) /\ Move(t, Armed("grant", job[t].lease), "g_audit")
     \/ ArmFails /\ End(t, ClearGrant(mem, job[t].lease))
  /\ UNCHANGED ledger

(* The state the audits were written for still holds.                      *)
Exact(t) ==
  /\ mem.inflight = job[t].lease
  /\ mem.active = NoLease /\ mem.releasing = NoLease /\ ~mem.withdrawn
  /\ IF job[t].fifo
     THEN ~mem.handoff /\ ~mem.grantFailed /\ mem.waiting > 0
     ELSE View(mem, "grant") = job[t].view

(* The grant is published; a direct one has left the audit gate already.   *)
Publish(t, m) ==
  LET n == Bump([m EXCEPT !.active = job[t].lease, !.due = FALSE,
                          !.waiting = IF job[t].fifo THEN @ - 1 ELSE @])
  IN  Become(t, n, [job[t] EXCEPT !.pc = "f_mark", !.after = "publish",
                                  !.published = TRUE, !.gate = job[t].fifo,
                                  !.view = View(n, "grant"), !.snap = Payload(n, TRUE)])

(* The audits of a grant: prepared and granted.  A fifo grant that changed *)
(* after "prepared" was never audited as granted.                          *)
AuditGrant(t) ==
  /\ At(t, "g_audit")
  /\ LET m == IF job[t].fifo THEN mem ELSE Unlock(t, mem)
         l == job[t].lease
     IN  \/ /\ IoOk
            /\ ledger' = ledger \cup {l}
            /\ IF Exact(t)
               THEN Publish(t, m)
               ELSE Become(t, m, [job[t] EXCEPT !.pc = "c_mark", !.gate = job[t].fifo])
         \/ /\ IoOk /\ job[t].fifo /\ ~Exact(t)
            /\ UNCHANGED ledger
            /\ Compensate(t, m)
         \/ /\ IoFails
            /\ UNCHANGED ledger
            /\ Become(t, IF job[t].fifo THEN ClearGrant(mem, l) ELSE mem,
                      [job[t] EXCEPT !.pc = "latch", !.after = "refused", !.held = mem.wal])
  /\ UNCHANGED disk

-----------------------------------------------------------------------------
(* _finish_wal_after_publish_locked.                                       *)

Same(p) == View(mem, IF job[p].after = "handoff" THEN "release" ELSE "grant") = job[p].view

(* The expected revision is written into the marker.                       *)
Expecting(p) == [job[p].held EXCEPT !.rev = job[p].snap.rev]
MarkUnsaved(p) ==
  /\ At(p, "f_mark")
  /\ Moved(p, Expecting(p))
  /\ LET m == Now(Expecting(p)) IN IF Same(p) THEN Move(p, m, "f_done") ELSE Changed(p, m)
  /\ UNCHANGED ledger
FinishMark(p) ==
  /\ At(p, "f_mark")
  /\ LET m == Now(Expecting(p))
     IN  \/ /\ Moved(p, Expecting(p))
            /\ IF Same(p) THEN SaveNext(p, m, "f_snap") ELSE Changed(p, m)
         \/ NotMoved(p, Expecting(p)) /\ Broken(p, mem)
  /\ UNCHANGED ledger

FinishSnapshot(p) ==
  /\ At(p, "f_snap")
  /\ \/ Saved(p) /\ IF Same(p) THEN Move(p, mem, "f_done") ELSE Changed(p, mem)
     \/ NotSaved(p) /\ Broken(p, mem)
  /\ UNCHANGED ledger

FinishCompleted(p) ==
  /\ At(p, "f_done")
  /\ LET w == [job[p].held EXCEPT !.state = "completed"]
     IN  \/ /\ Moved(p, w)
            /\ IF Same(p) THEN Move(p, Now(w), "f_clear") ELSE Changed(p, Now(w))
         \/ NotMoved(p, w) /\ Broken(p, mem)
  /\ UNCHANGED ledger

(* What the caller does once its WAL is cleared.  For a publication the    *)
(* code checks the whole state once more: nothing can have changed since   *)
(* the fence was compared, the condition has not been dropped.             *)
Settle(p, m) ==
  \/ job[p].after = "publish" /\ End(p, Bump([m EXCEPT !.inflight = NoLease]))
  \/ job[p].after = "undo" /\ End(p, m)
  \/ /\ job[p].after = "handoff"
     /\ SaveNext(p, Bump([m EXCEPT !.handoff = FALSE]), "w_save")

FinishClear(p) ==
  /\ At(p, "f_clear")
  /\ \/ /\ Moved(p, NoWal)
        /\ IF Same(p) THEN Settle(p, Now(NoWal)) ELSE Changed(p, Now(NoWal))
     \/ /\ NotMoved(p, NoWal)
        /\ IF Same(p)
           THEN SaveNext(p, Bump([mem EXCEPT !.fault = Marks(mem.wal), !.grantFailed = TRUE]),
                         "f_pending")
           ELSE Changed(p, mem)
  /\ UNCHANGED ledger

(* clear_pending: latched and persisted; an undo latches it once more.     *)
ClearPending(p) ==
  /\ At(p, "f_pending")
  /\ Saved(p) \/ NotSaved(p)
  /\ IF job[p].after = "undo" THEN Latch(p, mem) ELSE End(p, mem)
  /\ UNCHANGED ledger

-----------------------------------------------------------------------------
(* Taking back a grant.                                                    *)

ArmCompensation(p) ==
  /\ At(p, "c_arm")
  /\ \/ ArmDisk("grant", job[p].lease) /\ Move(p, Armed("grant", job[p].lease), "c_mark")
     \/ ArmFails /\ Become(p, mem, [job[p] EXCEPT !.pc = "c_revoke", !.marked = FALSE])
  /\ UNCHANGED ledger

(* The marker's state is kept: the store refuses the phase                 *)
(* coordination_changed in any state but armed.                            *)
MarkCompensation(p) ==
  /\ At(p, "c_mark")
  /\ LET w == [job[p].held EXCEPT !.changed = TRUE]
     IN  \/ Moved(p, w) /\ Move(p, Now(w), "c_revoke")
         \/ /\ NotMoved(p, w)
            /\ Become(p, mem, [job[p] EXCEPT !.pc = "c_revoke", !.marked = FALSE])
  /\ UNCHANGED ledger

(* The grant is no longer active nor in flight; a published ticket that    *)
(* was not cancelled heads the queue again.                                *)
Withdrawn(p, requeue) ==
  LET l == job[p].lease
      m == [mem EXCEPT !.active = IF @ = l THEN NoLease ELSE @,
                       !.inflight = IF @ = l THEN NoLease ELSE @,
                       !.waiting = IF requeue THEN @ + 1 ELSE @]
  IN  IF m = mem THEN m ELSE Bump(m)

Revoke(p) ==
  /\ At(p, "c_revoke")
  /\ GateOpen(p)
  /\ LET m == Withdrawn(p, job[p].fifo /\ job[p].published /\ ~mem.withdrawn)
     IN  \/ /\ IoOk
            /\ ledger' = ledger \ {job[p].lease}
            /\ IF job[p].marked THEN Finish(p, m, "undo") ELSE Latch(p, m)
         \/ IoFails /\ UNCHANGED ledger /\ Latch(p, m)
  /\ UNCHANGED disk

(* A published grant whose WAL could not be finished.                      *)
RevokeBroken(p) ==
  /\ At(p, "b_revoke")
  /\ GateOpen(p)
  /\ \/ IoOk /\ ledger' = ledger \ {job[p].lease}
     \/ IoFails /\ UNCHANGED ledger
  /\ Latch(p, IF mem.active = job[p].lease
              THEN Withdrawn(p, job[p].fifo) ELSE mem)
  /\ UNCHANGED disk

LatchFault(p) ==
  /\ At(p, "latch")
  /\ LET w == [job[p].held EXCEPT !.state = "fault", !.changed = FALSE]
     IN  \/ Moved(p, w) /\ Latched(p, Now(w))
         \/ NotMoved(p, w) /\ Latched(p, mem)
  /\ UNCHANGED ledger

FaultSaved(p) ==
  /\ At(p, "l_save")
  /\ Saved(p) \/ NotSaved(p)
  /\ End(p, IF job[p].after = "refused" THEN ClearGrant(mem, job[p].lease) ELSE mem)
  /\ UNCHANGED ledger

-----------------------------------------------------------------------------
(* Ending a lease: _release_active_locked, for the owner (release,         *)
(* admin_release, cancel_operation) or because its TTL passed (_expire_due *)
(* starts every call, so an owner's call meets a due lease only when the   *)
(* expiry's own release could not be armed: "swept").                      *)

BeginRelease(t) ==
  /\ Up /\ job[t].pc \in {"idle", "swept"}
  /\ mem.active # NoLease /\ mem.wal = NoWal /\ mem.fault = NoMarker
  /\ LET expired == mem.due /\ job[t].pc = "idle"
     IN  /\ expired \/ mem.inflight # mem.active
         /\ Become(t, mem, [Idle EXCEPT !.pc = "r_arm", !.lease = mem.active,
                                        !.after = IF expired THEN "expired" ELSE "owner"])
  /\ UNCHANGED <<disk, ledger, issued, faults, boot, lost, amiss>>

(* Once the marker is durable the lease read before the I/O is retired,    *)
(* without a second look at _active.                                       *)
RetireUnseen(m, l) == [m EXCEPT !.releasing = l]
Retire(m, l) == [m EXCEPT !.active = NoLease, !.releasing = l,
                          !.unsafe = FALSE, !.due = FALSE]

(* A second release of the same lease that has gone all its way meanwhile  *)
(* leaves another lease active, or none.                                   *)
Overtaken(l) == amiss' = IF mem.active = l THEN amiss ELSE amiss \cup {"release"}

ArmRelease(t) ==
  /\ Up /\ job[t].pc = "r_arm"
  /\ LET l == job[t].lease
     IN  \/ /\ ArmDisk("release", l)
            /\ Move(t, Bump(Retire(Armed("release", l), l)), "cleanup")
            /\ Overtaken(l)
         \/ /\ ArmFails /\ UNCHANGED amiss
            /\ Become(t, mem, [Idle EXCEPT
                                !.pc = IF job[t].after = "expired" THEN "swept" ELSE "idle"])
  /\ UNCHANGED <<ledger, issued, boot, lost>>

(* The ticket of a grant in flight stays in the queue until the grant is   *)
(* published or cancelled, and its TTL is not looked at.                   *)
HeadInFlight ==
  /\ mem.inflight # NoLease
  /\ \E t \in Thread :
       job[t].lease = mem.inflight /\ job[t].fifo /\ ~job[t].published
Spared == IF HeadInFlight /\ ~mem.withdrawn THEN 1 ELSE 0

(* Tickets whose TTL ran out leave with the handoff; then a worker takes   *)
(* over, unless the one slot is taken or its thread does not start.  A     *)
(* worker gives the slot back before it finishes the WAL.                  *)
SlotTaken == \E w \in Worker : job[w].pc = "w_audit"

HandOver(l, rest) ==
  \E left \in Spared .. mem.waiting :
    LET m == Bump([mem EXCEPT !.releasing = NoLease, !.unsafe = FALSE,
                          !.handoff = TRUE, !.waiting = left])
    IN  \/ /\ ~SlotTaken /\ IoOk
           /\ mem' = m
           /\ \E w \in Worker :
                /\ job[w].pc = "idle"
                /\ job' = [rest EXCEPT ![w] = [Idle EXCEPT !.pc = "w_audit", !.lease = l]]
        \/ /\ (SlotTaken /\ IoOk) \/ IoFails
           /\ mem' = [m EXCEPT !.handoffFailed = TRUE]
           /\ job' = rest

Finished(t) == [job EXCEPT ![t] = Idle]

(* lifecycle_cleanup_pending: the lease stays in _releasing.  A cleanup    *)
(* that has not ended is watched, one that ended but not safely is not.    *)
CleanUp(t) ==
  /\ At(t, "cleanup")
  /\ \/ HandOver(job[t].lease, Finished(t))
     \/ \E unsafe \in BOOLEAN :
          mem' = [mem EXCEPT !.unsafe = unsafe] /\ job' = Finished(t) /\ IoOk
  /\ UNCHANGED <<disk, ledger>>

(* A lease whose cleanup nobody runs any more.                             *)
Fenced ==
  Up /\ mem.releasing # NoLease /\ \A t \in Thread : job[t].pc # "cleanup"

(* _watch_fenced_cleanup_locked, once the lifecycle has ended.             *)
NeverWatched == FALSE
FencedCleanUp ==
  /\ Fenced /\ ~mem.unsafe
  /\ \/ HandOver(mem.releasing, job)
     \/ mem' = [mem EXCEPT !.unsafe = TRUE] /\ UNCHANGED job /\ IoOk
  /\ UNCHANGED <<disk, ledger, issued, boot, lost, amiss>>

(* The operator repairs the fault the lifecycle armed over its cleanup, if *)
(* it armed one: the lease in _releasing goes its way.                     *)
RepairLifecycle ==
  /\ Fenced /\ mem.unsafe
  /\ HandOver(mem.releasing, job)
  /\ UNCHANGED <<disk, ledger, issued, boot, lost, amiss>>

(* A worker of _write_release_audits_bounded_locked: when one of its audits *)
(* fails, the one that ends the lease may still have been written.          *)
AuditRelease(w) ==
  /\ At(w, "w_audit")
  /\ GateOpen(w)
  /\ LET ended == ledger \ {job[w].lease}
     IN  \/ IoOk /\ ledger' = ended /\ Finish(w, mem, "handoff")
         \/ IoFails /\ ledger' \in {ledger, ended} /\ Latch(w, mem)
  /\ UNCHANGED disk

ReleaseSaved(w) ==
  /\ At(w, "w_save")
  /\ \/ Saved(w) /\ End(w, mem)
     \/ NotSaved(w) /\ End(w, [mem EXCEPT !.handoffFailed = TRUE])
  /\ UNCHANGED ledger

-----------------------------------------------------------------------------
(* Time, and the calls that only touch the lease or the queue.             *)

Lapse ==
  /\ Up /\ mem.active # NoLease /\ ~mem.due
  /\ mem' = [mem EXCEPT !.due = TRUE]
  /\ UNCHANGED <<disk, ledger, job, issued, faults, boot, lost, amiss>>

(* heartbeat: _validate_token_locked, the audit, then the renewal.         *)
Validates(l) ==
  /\ l # NoLease /\ mem.inflight # l
  /\ mem.fault = NoMarker /\ ~mem.fence /\ mem.wal = NoWal

BeginHeartbeat(t) ==
  /\ (MayTouch(t) /\ ~mem.due) \/ (Up /\ job[t].pc = "swept")
  /\ Validates(mem.active)
  /\ Become(t, mem, [Idle EXCEPT !.pc = "beat", !.lease = mem.active])
  /\ UNCHANGED <<disk, ledger, issued, faults, boot, lost, amiss>>

Heartbeat(t) ==
  /\ At(t, "beat")
  /\ GateOpen(t)
  /\ \/ IoOk /\ End(t, IF mem.active = job[t].lease
                       THEN Bump([mem EXCEPT !.due = FALSE]) ELSE mem)
     \/ IoFails /\ End(t, mem)
  /\ UNCHANGED <<disk, ledger>>

(* The call that swept in vain ends otherwise.                             *)
GiveUp(t) ==
  /\ At(t, "swept")
  /\ End(t, mem)
  /\ UNCHANGED <<disk, ledger, faults>>

(* acquire or enqueue, when the lease is not free: a ticket.               *)
Enqueue(t) ==
  /\ MayTouch(t)
  /\ mem.fault = NoMarker /\ ~mem.fence
  /\ mem.waiting < MaxWaiting
  /\ mem' = Bump([mem EXCEPT !.waiting = @ + 1])
  /\ UNCHANGED <<disk, ledger, job, issued, faults, boot, lost, amiss>>

(* cancel_operation and cancel, for a grant in flight or for a ticket.  A  *)
(* plain ticket, one without an operation, has no tombstone: cancelled     *)
(* while its grant is in flight it is put back at the head, which only     *)
(* LeaseQueue shows.  Here every ticket belongs to an operation.           *)
CancelGrant(t) ==
  /\ MayTouch(t)
  /\ mem.inflight # NoLease /\ ~mem.withdrawn
  /\ mem' = Bump([mem EXCEPT !.withdrawn = TRUE,
                             !.waiting = IF HeadInFlight THEN @ - 1 ELSE @])
  /\ UNCHANGED <<disk, ledger, job, issued, faults, boot, lost, amiss>>

CancelTicket(t) ==
  /\ MayTouch(t)
  /\ mem.waiting > Spared
  /\ mem' = Bump([mem EXCEPT !.waiting = @ - 1])
  /\ UNCHANGED <<disk, ledger, job, issued, faults, boot, lost, amiss>>

(* _persist_coordination in loopback.py, at the end of a session call.     *)
BeginPersist(t) ==
  /\ Up /\ job[t].pc = "idle"
  /\ mem.rev > disk.snap.rev
  /\ Become(t, mem, [Idle EXCEPT !.pc = "persist", !.snap = Payload(mem, FALSE)])
  /\ UNCHANGED <<disk, ledger, issued, faults, boot, lost, amiss>>

Persist(t) ==
  /\ At(t, "persist")
  /\ Saved(t) \/ NotSaved(t)
  /\ End(t, mem)
  /\ UNCHANGED ledger

-----------------------------------------------------------------------------
(* The operator's repair: _repair_coordination_audit_fault reconciles the  *)
(* ledger and moves the marker to repaired, finalize_audit_repair lifts    *)
(* the fault.  One repair at a time.                                       *)

Repairing == \E t \in Thread : job[t].pc \in {"fix_save", "fix_clear", "fix_late"}

Repairable(states) ==
  /\ disk.wal.state \in states /\ mem.fault = Marks(disk.wal)
  /\ ~Repairing

(* A repair does not wait for the release worker, which may still finish   *)
(* whatever marker it finds when its audits are written.                   *)
Overlapped == amiss' = IF \A w \in Worker : job[w].pc = "idle"
                       THEN amiss ELSE amiss \cup {"repair"}

(* The marker moves to repairing and the ledger is reconciled; both are    *)
(* found again by a repair that starts over.                               *)
Reconcile(t) ==
  /\ MayStart(t)
  /\ Repairable({"fault", "repairing"})
  /\ disk' = [disk EXCEPT !.wal.state = "repairing"]
  /\ (IoOk /\ ledger' = ledger \ {disk.wal.lease}) \/ (IoFails /\ UNCHANGED ledger)
  /\ Overlapped
  /\ UNCHANGED <<mem, job, issued, boot, lost>>

BeginRepair(t) ==
  /\ MayStart(t)
  /\ Repairable({"repairing", "repaired"})
  /\ LET w == [disk.wal EXCEPT !.state = "repaired", !.rev = mem.rev + 1]
         m == Bump([mem EXCEPT !.wal = w, !.fence = TRUE, !.fault = NoMarker,
                               !.handoff = FALSE, !.handoffFailed = FALSE,
                               !.grantFailed = FALSE])
     IN  /\ disk' = [disk EXCEPT !.wal = w]
         /\ ledger' = ledger \ {w.lease}
         /\ Become(t, m, [Idle EXCEPT !.pc = "fix_save", !.lease = w.lease,
                                      !.view = View(mem, "release"),
                                      !.snap = Payload(m, TRUE)])
  /\ Overlapped
  /\ UNCHANGED <<issued, faults, boot, lost>>

(* The fault and its flags as they were before the repair.                 *)
Unrepaired(t) ==
  LET v == job[t].view
  IN  Bump([mem EXCEPT !.fault = v.fault, !.handoff = v.handoff,
                       !.handoffFailed = v.handoffFailed,
                       !.grantFailed = v.grantFailed, !.fence = FALSE])

RepairSaved(t) ==
  /\ At(t, "fix_save")
  /\ \/ Saved(t) /\ Move(t, mem, "fix_clear")
     \/ NotSaved(t) /\ End(t, Unrepaired(t))
  /\ UNCHANGED ledger

RepairCleared(t) ==
  /\ At(t, "fix_clear")
  /\ \/ /\ Moved(t, NoWal)
        /\ End(t, [Now(NoWal) EXCEPT !.fence = FALSE])
     \/ /\ NotMoved(t, NoWal)
        /\ LET release == disk.wal.op = "release"
           IN  SaveNext(t, Bump([mem EXCEPT !.fault = Marks(mem.wal), !.fence = FALSE,
                                            !.handoffFailed = @ \/ release,
                                            !.grantFailed = @ \/ ~release]), "fix_late")
  /\ UNCHANGED ledger

RepairFailed(t) ==
  /\ At(t, "fix_late")
  /\ Saved(t) \/ NotSaved(t)
  /\ End(t, mem)
  /\ UNCHANGED ledger

-----------------------------------------------------------------------------
(* Crash and restart: recover_coordination_startup classifies the marker,  *)
(* consume_previous_generation replaces the snapshot, and the daemon then  *)
(* audits daemon_restart_invalidated for the leases the old one named.     *)

NamedOrNone(snap) == {snap.active, snap.releasing, snap.granting}
Named(snap) == {snap.active, snap.releasing, snap.granting} \ {NoLease}

(* The snapshot is gone before its leases are ended in the ledger: a       *)
(* startup that dies in between, or fails to write the audit, leaves those *)
(* that the marker does not name standing there for good.                  *)
Unended == ledger \cap (boot.named \ {disk.wal.lease})
Forgets == ledger' = ledger \ Unended /\ lost' = lost \cup Unended

Crash ==
  /\ Crashing
  /\ mem' = Fresh
  /\ job' = [p \in Proc |-> Idle]
  /\ boot' = [at |-> "down", named |-> {}]
  /\ Forgets
  /\ UNCHANGED <<disk, issued, faults, amiss>>

Matches(wal, snap) ==
  /\ snap.rev = wal.rev
  /\ CASE wal.state = "repaired" -> snap.fault = NoMarker
       [] wal.state \notin {"repaired", "completed"} -> FALSE
       [] wal.state = "completed" /\ wal.op = "grant" /\ ~wal.changed ->
            snap.active = wal.lease
       [] OTHER -> Named(snap) = {}

Recovered(fault, at) ==
  /\ mem' = [Fresh EXCEPT !.fault = fault]
  /\ boot' = [boot EXCEPT !.at = at]

Recover ==
  /\ boot.at = "down"
  /\ LET w == disk.wal
         was == Marks(w)
         old == disk.snap.fault
     IN  \/ /\ w.state = "none" /\ old = NoMarker
            /\ UNCHANGED disk /\ IoOk /\ Recovered(NoMarker, "recovered")
         \/ /\ w.state = "none" /\ old # NoMarker
            /\ \/ /\ disk' = [disk EXCEPT !.wal = [state |-> "fault", op |-> old.op,
                                lease |-> old.lease, changed |-> FALSE, rev |-> 0]]
                  /\ IoOk /\ Recovered(old, "recovered")
               \/ UNCHANGED disk /\ IoFails /\ Recovered(old, "up")
         \/ /\ w.state # "none" /\ Matches(w, disk.snap)
            /\ \/ /\ disk' = [disk EXCEPT !.wal = NoWal]
                  /\ IoOk /\ Recovered(NoMarker, "recovered")
               \/ UNCHANGED disk /\ IoFails /\ Recovered(was, "recovered")
         \/ /\ w.state # "none" /\ ~Matches(w, disk.snap)
            /\ \/ w.state \notin {"fault", "repairing"}
                  /\ disk' = [disk EXCEPT !.wal.state = "fault"] /\ IoOk
               \/ w.state \notin {"fault", "repairing"} /\ UNCHANGED disk /\ IoFails
               \/ w.state \in {"fault", "repairing"} /\ UNCHANGED disk /\ IoOk
            /\ Recovered(was, "recovered")
  /\ UNCHANGED <<ledger, lost, job, issued, amiss>>

Consume ==
  /\ boot.at = "recovered"
  /\ disk' = [disk EXCEPT !.snap = NoSnapshot]
  /\ boot' = [at |-> "consumed", named |-> Named(disk.snap)]
  /\ UNCHANGED <<mem, ledger, lost, job, issued, faults, amiss>>

(* The outcome of this audit is not looked at.                             *)
Attribute ==
  /\ boot.at = "consumed"
  /\ boot' = [at |-> "up", named |-> {}]
  /\ \/ IoOk /\ ledger' = ledger \ boot.named /\ UNCHANGED lost
     \/ IoFails /\ Forgets
  /\ UNCHANGED <<mem, disk, job, issued, amiss>>

-----------------------------------------------------------------------------
FinishStep(p) ==
  FinishMark(p) \/ FinishSnapshot(p) \/ FinishCompleted(p) \/ FinishClear(p)
  \/ ClearPending(p) \/ LatchFault(p) \/ FaultSaved(p)

GrantStep(t) ==
  TakeGate(t) \/ ArmGrant(t) \/ AuditGrant(t) \/ ArmCompensation(t)
  \/ MarkCompensation(t) \/ Revoke(t) \/ RevokeBroken(t)

ThreadStep(t) ==
  \/ GrantStep(t) \/ FinishStep(t) \/ ArmRelease(t) \/ CleanUp(t)
  \/ Heartbeat(t) \/ GiveUp(t) \/ Persist(t)
  \/ RepairSaved(t) \/ RepairCleared(t) \/ RepairFailed(t)

WorkerStep(w) == AuditRelease(w) \/ ReleaseSaved(w) \/ FinishStep(w)

Request(t) ==
  \/ \E fifo \in BOOLEAN : BeginGrant(t, fifo)
  \/ BeginRelease(t) \/ BeginHeartbeat(t) \/ BeginPersist(t) \/ Reconcile(t) \/ BeginRepair(t)
  \/ Enqueue(t) \/ CancelGrant(t) \/ CancelTicket(t)

Restart == Recover \/ Consume \/ Attribute

Next ==
  \/ \E t \in Thread : Request(t) \/ ThreadStep(t)
  \/ \E w \in Worker : WorkerStep(w)
  \/ FencedCleanUp \/ RepairLifecycle \/ Lapse \/ Crash \/ Restart

Spec == Init /\ [][Next]_vars

(* A thread that started goes on, the lifecycle it waits for ends, and a   *)
(* daemon that went down is started again.  No client has to ask anything. *)
FairSpec ==
  /\ Spec
  /\ \A t \in Thread : WF_vars(ThreadStep(t))
  /\ \A w \in Worker : WF_vars(WorkerStep(w))
  /\ WF_vars(FencedCleanUp) /\ WF_vars(Restart)

-----------------------------------------------------------------------------
TypeOK ==
  /\ mem \in Memory
  /\ disk \in [wal : Wal, snap : Snapshot]
  /\ ledger \subseteq 1 .. issued /\ lost \subseteq 1 .. issued
  /\ job \in [Proc -> Job]
  /\ issued \in 0 .. MaxLease
  /\ faults \in 0 .. MaxFaults
  /\ boot \in [at : {"up", "down", "recovered", "consumed"}, named : SUBSET Lease]
  /\ amiss \subseteq {"release", "repair"}

(* A lease whose token the coordinator accepts is in the audit ledger and  *)
(* named by the durable snapshot: the token was published only once its    *)
(* write-ahead entry was durable.                                          *)
PublishedIsDurable ==
  mem.active # NoLease /\ mem.active # mem.inflight
    => mem.active \in ledger /\ mem.active \in Named(disk.snap)

(* A lease that stands granted in the ledger is named by something that    *)
(* survives a crash, the marker, the snapshot or the restart's own list,   *)
(* so that a restart can end it in the ledger too: unless a startup has    *)
(* lost it, and until a release is overtaken by another of its lease, or a *)
(* repair overlaps a release worker.                                       *)
Attributable == {disk.wal.lease} \cup Named(disk.snap) \cup boot.named
GrantIsRecoverable == amiss = {} => ledger \subseteq Attributable

-----------------------------------------------------------------------------
(* A marker moved to completed can be cleared by the next startup: the     *)
(* snapshot on disk is the one it vouches for.  A run of its own refutes   *)
(* it (README.md, findings).                                               *)
CompletedRestartsClean ==
  disk.wal.state = "completed" => Matches(disk.wal, disk.snap)

-----------------------------------------------------------------------------
(* Liveness.                                                               *)

(* A grant in flight is published or taken back, or a fault is latched,    *)
(* and every path of it gives the audit gate back.                         *)
GrantSettles ==
  /\ \A l \in Lease : mem.inflight = l ~> mem.inflight # l \/ mem.fault # NoMarker
  /\ []<>~mem.gate

(* A lease in its cleanup leaves it, whoever waited for the cleanup, or    *)
(* the cleanup ends and is not safe; and the handoff that keeps new grants *)
(* out ends, or says that it failed.                                       *)
ReleaseSettles ==
  /\ mem.releasing # NoLease ~> mem.releasing = NoLease \/ mem.unsafe
  /\ mem.handoff ~> ~mem.handoff \/ mem.handoffFailed \/ mem.fault # NoMarker
=============================================================================
