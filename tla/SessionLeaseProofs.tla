------------------------- MODULE SessionLeaseProofs -------------------------
(***************************************************************************)
(* Proofs about SessionLease, for any threads, workers, bounds and failed  *)
(* I/O, with crashes, overtaken releases and overlapping repairs.          *)
(***************************************************************************)
EXTENDS SessionLease, TLAPS

GrantPc == {"gate", "g_arm", "g_audit"}

(* Whoever grants does so for a lease that was created.                    *)
GrantsIssued ==
  \A t \in Thread :
    job[t].fifo \/ job[t].pc \in GrantPc => job[t].lease \in 1 .. issued

(* No two threads grant the head of the queue the same lease.              *)
OneGranter ==
  \A t, u \in Thread :
    t # u /\ job[t].fifo /\ job[u].fifo => job[t].lease # job[u].lease

(* The ticket of a grant in flight is counted until it is published.       *)
HeadWaits == HeadInFlight /\ ~mem.withdrawn => mem.waiting > 0

IInv == TypeOK /\ GrantsIssued /\ OneGranter /\ HeadWaits

-----------------------------------------------------------------------------
(* The types of what the actions are built from.                           *)

LEMMA Constant ==
  /\ NoMarker \in Marker /\ Unmarked \in Marker
  /\ NoWal \in Wal /\ NoSnapshot \in Snapshot
  /\ Fresh \in Memory /\ Idle \in Job
<1>1. NoMarker \in Marker /\ Unmarked \in Marker /\ NoWal \in Wal
  BY DEF NoMarker, Unmarked, Marker, NoWal, Wal, LeaseOrNone, NoLease
<1>2. NoSnapshot \in Snapshot
  BY <1>1 DEF NoSnapshot, Snapshot, LeaseOrNone
<1>3. Fresh \in Memory
  BY <1>1 DEF Fresh, Memory, LeaseOrNone
<1>4. View(Fresh, "release") \in Fence
  BY <1>1 DEF View, Fence, Fresh, LeaseOrNone
<1>5. Idle \in Job
  BY <1>1, <1>2, <1>4 DEF Idle, Job, Pc, LeaseOrNone
<1> QED BY <1>1, <1>2, <1>3, <1>5

LEMMA BumpType ==
  ASSUME NEW m \in Memory
  PROVE  /\ Bump(m) \in Memory
         /\ Bump(m).inflight = m.inflight
         /\ Bump(m).withdrawn = m.withdrawn
         /\ Bump(m).waiting = m.waiting
  BY DEF Bump, Memory

LEMMA CaptureType ==
  ASSUME NEW m \in Memory, NEW op, NEW whole \in BOOLEAN
  PROVE  View(m, op) \in Fence /\ Payload(m, whole) \in Snapshot
  BY DEF View, Fence, Payload, Snapshot, Memory, LeaseOrNone

LEMMA WalType ==
  ASSUME NEW l \in LeaseOrNone, NEW op \in {"grant", "release"}, NEW w \in Wal
  PROVE  ArmedWal(op, l) \in Wal /\ Marks(w) \in Marker
  BY DEF ArmedWal, Wal, Marks, Marker

-----------------------------------------------------------------------------
(* How an ordinary step goes on: nobody starts a grant or becomes the      *)
(* granter of the head, and a grant still in flight keeps its ticket.      *)

FollowsUp(j, k) ==
  /\ k.fifo => j.fifo /\ k.lease = j.lease /\ (j.published => k.published)
  /\ k.pc \in GrantPc => j.pc \in GrantPc /\ k.lease = j.lease

Calm(m) ==
  /\ m \in Memory
  /\ m.inflight # NoLease =>
       /\ m.inflight = mem.inflight
       /\ m.withdrawn = mem.withdrawn
       /\ m.waiting >= mem.waiting

Continues(p) ==
  /\ Calm(mem')
  /\ \E j \in Job : FollowsUp(job[p], j) /\ job' = [job EXCEPT ![p] = j]

LEMMA BecomeContinues ==
  ASSUME NEW p \in Proc, NEW m, NEW j \in Job, Calm(m), FollowsUp(job[p], j),
         Become(p, m, j)
  PROVE  Continues(p)
  BY DEF Become, Continues

LEMMA EndContinues ==
  ASSUME TypeOK, NEW p \in Proc, NEW m, Calm(m), End(p, m)
  PROVE  Continues(p)
<1>1. Calm(Unlock(p, m))
  BY DEF Calm, Unlock, Memory
<1>2. Idle \in Job /\ FollowsUp(job[p], Idle)
  BY Constant DEF FollowsUp, Idle, GrantPc
<1> QED BY <1>1, <1>2, BecomeContinues DEF End

LEMMA MoveContinues ==
  ASSUME TypeOK, NEW p \in Proc, NEW m, NEW pc \in Pc, Calm(m), Move(p, m, pc),
         pc \in GrantPc => job[p].pc \in GrantPc
  PROVE  Continues(p)
<1> DEFINE j == [job[p] EXCEPT !.pc = pc, !.held = m.wal]
<1>1. job[p] \in Job /\ m.wal \in Wal
  BY DEF TypeOK, Calm, Memory
<1>2. j \in Job /\ FollowsUp(job[p], j)
  BY <1>1 DEF FollowsUp, Job
<1> QED BY <1>2, BecomeContinues DEF Move

LEMMA SaveNextContinues ==
  ASSUME TypeOK, NEW p \in Proc, NEW m, NEW pc \in Pc \ GrantPc, Calm(m),
         SaveNext(p, m, pc)
  PROVE  Continues(p)
<1> DEFINE j == [job[p] EXCEPT !.pc = pc, !.snap = Payload(m, TRUE)]
<1>1. job[p] \in Job /\ Payload(m, TRUE) \in Snapshot
  BY CaptureType DEF TypeOK, Calm
<1>2. j \in Job /\ FollowsUp(job[p], j)
  BY <1>1 DEF FollowsUp, Job
<1> QED BY <1>2, BecomeContinues DEF SaveNext

LEMMA CalmBump ==
  ASSUME NEW m, Calm(m)
  PROVE  Calm(Bump(m))
  BY BumpType DEF Calm

LEMMA LatchedContinues ==
  ASSUME TypeOK, NEW p \in Proc, NEW m, Calm(m), Latched(p, m)
  PROVE  Continues(p)
<1> DEFINE fault == IF m.wal = NoWal THEN Unmarked ELSE Marks(m.wal)
           n == [m EXCEPT !.fault = fault,
                          !.handoffFailed = @ \/ fault.op = "release",
                          !.grantFailed = @ \/ fault.op = "grant"]
<1>1. fault \in Marker
  BY Constant DEF Marks, Marker, Calm, Memory, Wal
<1> HIDE DEF fault
<1>2. Calm(n)
  BY <1>1 DEF Calm, Memory
<1>3. SaveNext(p, Bump(n), "l_save")
  BY DEF Latched, fault
<1> QED BY <1>2, <1>3, CalmBump, SaveNextContinues DEF Pc, GrantPc

LEMMA LatchContinues ==
  ASSUME TypeOK, NEW p \in Proc, NEW m, Calm(m), Latch(p, m)
  PROVE  Continues(p)
  BY LatchedContinues, MoveContinues DEF Latch, Pc, GrantPc

LEMMA CompensateContinues ==
  ASSUME TypeOK, NEW p \in Proc, NEW m, Calm(m), Compensate(p, m)
  PROVE  Continues(p)
<1> DEFINE pc == IF m.wal # NoWal THEN "c_mark"
                 ELSE IF m.fault = NoMarker THEN "c_arm" ELSE "c_revoke"
           marked == m.wal # NoWal \/ m.fault = NoMarker
           j == [job[p] EXCEPT !.pc = pc, !.marked = marked, !.held = m.wal]
<1>1. job[p] \in Job /\ m.wal \in Wal
  BY DEF TypeOK, Calm, Memory
<1>2. pc \in Pc \ GrantPc /\ marked \in BOOLEAN
  BY DEF Pc, GrantPc
<1>3. Become(p, m, j)
  BY DEF Compensate
<1> HIDE DEF pc, marked
<1>4. j \in Job /\ FollowsUp(job[p], j)
  BY <1>1, <1>2 DEF FollowsUp, Job
<1> QED BY <1>3, <1>4, BecomeContinues

LEMMA ChangedContinues ==
  ASSUME TypeOK, NEW p \in Proc, NEW m, Calm(m), Changed(p, m) \/ Broken(p, m)
  PROVE  Continues(p)
  BY CompensateContinues, LatchContinues, MoveContinues
     DEF Changed, Broken, Pc, GrantPc

LEMMA FinishContinues ==
  ASSUME TypeOK, NEW p \in Proc, NEW m, Calm(m),
         NEW after \in {"publish", "undo", "handoff"}, Finish(p, m, after)
  PROVE  Continues(p)
<1> DEFINE j == [job[p] EXCEPT !.pc = "f_mark", !.after = after, !.held = m.wal,
                               !.view = View(m, m.wal.op), !.snap = Payload(m, TRUE)]
<1>1. CASE m.wal = NoWal
  BY <1>1, LatchContinues DEF Finish
<1>2. CASE m.wal # NoWal
  <2>1. Become(p, m, j)
    BY <1>2 DEF Finish
  <2>2. /\ job[p] \in Job /\ m.wal \in Wal
        /\ View(m, m.wal.op) \in Fence /\ Payload(m, TRUE) \in Snapshot
    BY CaptureType DEF TypeOK, Calm, Memory
  <2>3. j \in Job /\ FollowsUp(job[p], j)
    BY <2>2, ZenonT(40) DEF FollowsUp, Job, Pc, GrantPc
  <2> QED BY <2>1, <2>3, BecomeContinues
<1> QED BY <1>1, <1>2

LEMMA SettleContinues ==
  ASSUME TypeOK, NEW p \in Proc, NEW m, Calm(m), Settle(p, m)
  PROVE  Continues(p)
<1>1. CASE job[p].after = "publish" /\ End(p, Bump([m EXCEPT !.inflight = NoLease]))
  <2>1. Calm([m EXCEPT !.inflight = NoLease])
    BY DEF Calm, Memory, LeaseOrNone
  <2> QED BY <1>1, <2>1, CalmBump, EndContinues
<1>2. CASE job[p].after = "undo" /\ End(p, m)
  BY <1>2, EndContinues
<1>3. CASE job[p].after = "handoff"
           /\ SaveNext(p, Bump([m EXCEPT !.handoff = FALSE]), "w_save")
  <2>1. Calm([m EXCEPT !.handoff = FALSE])
    BY DEF Calm, Memory
  <2> QED BY <1>3, <2>1, CalmBump, SaveNextContinues DEF Pc, GrantPc
<1> QED BY <1>1, <1>2, <1>3 DEF Settle

-----------------------------------------------------------------------------
(* The durable state, and what an ordinary step leaves of the invariant.   *)

Steady ==
  /\ disk' \in [wal : Wal, snap : Snapshot]
  /\ faults' \in 0 .. MaxFaults

LEMMA IoSteady ==
  ASSUME TypeOK, UNCHANGED disk, IoOk \/ IoFails
  PROVE  Steady
  BY LeaseAssumption DEF TypeOK, Steady, IoOk, IoFails

LEMMA SavedSteady ==
  ASSUME TypeOK, NEW p \in Proc, Saved(p) \/ NotSaved(p)
  PROVE  Steady
<1>1. CASE Saved(p)
  <2>1. job[p].snap \in Snapshot
    BY DEF TypeOK, Job
  <2> QED BY <1>1, <2>1 DEF TypeOK, Steady, Saved, Newer, IoOk
<1>2. CASE NotSaved(p)
  BY <1>2, IoSteady DEF NotSaved
<1> QED BY <1>1, <1>2

LEMMA MovedSteady ==
  ASSUME TypeOK, NEW p \in Proc, NEW w \in Wal, Moved(p, w) \/ NotMoved(p, w)
  PROVE  Steady
<1>1. CASE Moved(p, w)
  BY <1>1 DEF TypeOK, Steady, Moved, IoOk
<1>2. CASE NotMoved(p, w)
  BY <1>2, IoSteady DEF NotMoved
<1> QED BY <1>1, <1>2

LEMMA ArmSteady ==
  ASSUME TypeOK, NEW l \in LeaseOrNone, NEW op \in {"grant", "release"},
         ArmDisk(op, l) \/ ArmFails
  PROVE  Steady
<1>1. CASE ArmDisk(op, l)
  <2>1. ArmedWal(op, l) \in Wal
    BY DEF ArmedWal, Wal
  <2> QED BY <1>1, <2>1 DEF TypeOK, Steady, ArmDisk, IoOk
<1>2. CASE ArmFails
  BY <1>2, IoSteady DEF ArmFails
<1> QED BY <1>1, <1>2

LEMMA Followed ==
  ASSUME IInv, issued' = issued, \A t \in Thread : FollowsUp(job[t], job'[t])
  PROVE  /\ GrantsIssued' /\ OneGranter'
         /\ mem'.inflight = mem.inflight /\ HeadInFlight' => HeadInFlight
<1>1. GrantsIssued'
  BY DEF IInv, GrantsIssued, FollowsUp
<1>2. OneGranter'
  BY DEF IInv, OneGranter, FollowsUp
<1>3. mem'.inflight = mem.inflight /\ HeadInFlight' => HeadInFlight
  BY DEF HeadInFlight, FollowsUp
<1> QED BY <1>1, <1>2, <1>3

LEMMA Follows ==
  ASSUME IInv, Calm(mem'), Steady, issued' = issued, ledger' \subseteq 1 .. issued,
         job' \in [Proc -> Job], \A t \in Thread : FollowsUp(job[t], job'[t]),
         boot' \in [at : {"up", "down", "recovered", "consumed"}, named : SUBSET Lease],
         lost' \subseteq 1 .. issued, amiss' \subseteq {"release", "repair"}
  PROVE  IInv'
<1>1. TypeOK'
  BY DEF IInv, TypeOK, Calm, Steady
<1>2. HeadWaits'
  <2> SUFFICES ASSUME HeadInFlight', ~mem'.withdrawn PROVE mem'.waiting > 0
    BY DEF HeadWaits
  <2>1. mem'.inflight = mem.inflight /\ ~mem.withdrawn /\ mem'.waiting >= mem.waiting
    BY DEF Calm, HeadInFlight
  <2>2. mem.waiting > 0
    BY <2>1, Followed DEF IInv, HeadWaits
  <2> QED BY <2>1, <2>2 DEF Calm, IInv, TypeOK, Memory
<1> QED BY <1>1, <1>2, Followed DEF IInv

LEMMA GoesAmiss ==
  ASSUME IInv, NEW p \in Proc, Continues(p), Steady,
         ledger' \subseteq 1 .. issued, UNCHANGED <<issued, boot, lost>>,
         amiss' \subseteq {"release", "repair"}
  PROVE  IInv'
<1> PICK k \in Job : FollowsUp(job[p], k) /\ job' = [job EXCEPT ![p] = k]
  BY DEF Continues
<1>1. job' \in [Proc -> Job] /\ \A t \in Thread : FollowsUp(job[t], job'[t])
  BY DEF IInv, TypeOK, Proc, FollowsUp
<1> QED BY <1>1, Follows DEF IInv, TypeOK, Continues

LEMMA Goes ==
  ASSUME IInv, NEW p \in Proc, Continues(p), Steady,
         ledger' \subseteq 1 .. issued, UNCHANGED <<issued, boot, lost, amiss>>
  PROVE  IInv'
<1>1. amiss' \subseteq {"release", "repair"}
  BY DEF IInv, TypeOK
<1> QED BY <1>1, GoesAmiss

-----------------------------------------------------------------------------
(* Granting.                                                               *)

LEMMA CalmNow ==
  ASSUME IInv
  PROVE  /\ Calm(mem)
         /\ \A w \in Wal : Calm(Now(w))
         /\ \A l \in LeaseOrNone, op \in {"grant", "release"} : Calm(Armed(op, l))
<1>1. Calm(mem)
  BY DEF IInv, TypeOK, Calm, Memory
<1>2. \A w \in Wal : Calm(Now(w))
  BY DEF IInv, TypeOK, Calm, Now, Memory
<1>3. \A l \in LeaseOrNone, op \in {"grant", "release"} : ArmedWal(op, l) \in Wal
  BY DEF ArmedWal, Wal
<1>4. \A l, op : Armed(op, l) = Now(ArmedWal(op, l))
  BY DEF Armed, Now
<1> QED BY <1>1, <1>2, <1>3, <1>4

LEMMA CalmClearGrant ==
  ASSUME NEW m, NEW l, Calm(m)
  PROVE  Calm(ClearGrant(m, l))
<1>1. Calm([m EXCEPT !.inflight = NoLease])
  BY DEF Calm, Memory, LeaseOrNone
<1> QED BY <1>1, CalmBump DEF ClearGrant

LEMMA BeginGrantGoes ==
  ASSUME IInv, NEW t \in Thread, NEW fifo \in BOOLEAN, BeginGrant(t, fifo)
  PROVE  IInv'
<1> DEFINE m == Bump([mem EXCEPT !.inflight = issued + 1, !.withdrawn = FALSE])
           j == [Idle EXCEPT !.pc = "gate", !.lease = issued + 1, !.fifo = fifo,
                             !.view = View(m, "grant")]
<1>1. issued + 1 \in Lease /\ issued' = issued + 1 /\ t \in Proc
  BY LeaseAssumption DEF IInv, TypeOK, BeginGrant, Lease, Proc
<1>2. [mem EXCEPT !.inflight = issued + 1, !.withdrawn = FALSE] \in Memory
  BY <1>1 DEF IInv, TypeOK, Memory, LeaseOrNone
<1>3. m \in Memory /\ m.waiting = mem.waiting
  BY <1>2, BumpType DEF IInv, TypeOK, Memory
<1>4. mem' = m /\ job' = [job EXCEPT ![t] = j]
  BY DEF BeginGrant, Become
<1> HIDE DEF m
<1>5. j \in Job /\ j.pc = "gate" /\ j.lease = issued + 1 /\ j.fifo = fifo /\ ~j.published
  BY <1>1, <1>3, Constant, CaptureType DEF Job, Idle, Pc, LeaseOrNone
<1> HIDE DEF j
<1>6. TypeOK'
  BY <1>1, <1>3, <1>4, <1>5, LeaseAssumption DEF IInv, TypeOK, BeginGrant, Lease
<1>7. \A u \in Thread : u \in Proc /\ job'[u] = IF u = t THEN j ELSE job[u]
  BY <1>4 DEF IInv, TypeOK, Proc
<1>8. GrantsIssued'
  BY <1>1, <1>5, <1>7 DEF IInv, TypeOK, GrantsIssued
<1>9. OneGranter'
  <2>1. \A u \in Thread : job[u].fifo => job[u].lease # issued + 1
    BY DEF IInv, TypeOK, GrantsIssued
  <2> QED BY <1>5, <1>7, <2>1 DEF IInv, OneGranter
<1>10. HeadWaits'
  <2>1. HeadInFlight' => fifo
    <3>1. m.inflight = issued + 1
      BY <1>2, BumpType DEF m, IInv, TypeOK, Memory
    <3>2. \A u \in Thread : job[u].fifo => job[u].lease # issued + 1
      BY DEF IInv, TypeOK, GrantsIssued
    <3> QED BY <1>4, <1>5, <1>7, <3>1, <3>2 DEF HeadInFlight
  <2> QED BY <1>3, <1>4, <2>1 DEF HeadWaits, BeginGrant
<1> QED BY <1>6, <1>8, <1>9, <1>10 DEF IInv

LEMMA TakeGateGoes ==
  ASSUME IInv, NEW t \in Thread, TakeGate(t)
  PROVE  IInv'
<1>0. t \in Proc /\ TypeOK /\ Calm(mem)
  BY CalmNow DEF Proc, IInv
<1>1. Steady /\ ledger' \subseteq 1 .. issued /\ UNCHANGED <<issued, boot, lost, amiss>>
  BY <1>0 DEF TypeOK, TakeGate, At, Steady
<1>2. CASE End(t, ClearGrant(mem, job[t].lease))
  BY <1>0, <1>1, <1>2, CalmClearGrant, EndContinues, Goes
<1>3. CASE Become(t, [mem EXCEPT !.gate = TRUE],
                  [job[t] EXCEPT !.pc = "g_arm", !.gate = TRUE])
  <2>1. Calm([mem EXCEPT !.gate = TRUE])
    BY <1>0 DEF Calm, Memory
  <2>2. job[t] \in Job /\ job[t].pc = "gate"
    BY <1>0 DEF TypeOK, TakeGate, At
  <2>3. /\ [job[t] EXCEPT !.pc = "g_arm", !.gate = TRUE] \in Job
        /\ FollowsUp(job[t], [job[t] EXCEPT !.pc = "g_arm", !.gate = TRUE])
    BY <2>2 DEF Job, Pc, FollowsUp, GrantPc
  <2> QED BY <1>0, <1>1, <1>3, <2>1, <2>3, BecomeContinues, Goes
<1> QED BY <1>2, <1>3 DEF TakeGate

LEMMA ArmGrantGoes ==
  ASSUME IInv, NEW t \in Thread, ArmGrant(t)
  PROVE  IInv'
<1> DEFINE l == job[t].lease
<1>0. t \in Proc /\ TypeOK /\ Calm(mem)
  BY CalmNow DEF Proc, IInv
<1>1. ledger' \subseteq 1 .. issued /\ UNCHANGED <<issued, boot, lost, amiss>>
      /\ l \in LeaseOrNone /\ job[t].pc = "g_arm"
  BY <1>0 DEF TypeOK, ArmGrant, At, Job
<1>2. Steady
  BY <1>0, <1>1, ArmSteady DEF ArmGrant
<1>3. CASE Move(t, Armed("grant", l), "g_audit")
  <2>1. Calm(Armed("grant", l))
    BY <1>1, CalmNow
  <2> QED BY <1>0, <1>1, <1>2, <1>3, <2>1, MoveContinues, Goes DEF Pc, GrantPc
<1>4. CASE End(t, ClearGrant(mem, l))
  BY <1>0, <1>1, <1>2, <1>4, CalmClearGrant, EndContinues, Goes
<1> QED BY <1>3, <1>4 DEF ArmGrant

LEMMA PublishGoes ==
  ASSUME IInv, NEW t \in Thread, job[t].pc = "g_audit", Exact(t), Steady,
         ledger' \subseteq 1 .. issued, UNCHANGED <<issued, boot, lost, amiss>>,
         NEW m, m = IF job[t].fifo THEN mem ELSE Unlock(t, mem), Publish(t, m)
  PROVE  IInv'
<1> DEFINE left == IF job[t].fifo THEN m.waiting - 1 ELSE m.waiting
           o == [m EXCEPT !.active = job[t].lease, !.due = FALSE, !.waiting = left]
           n == Bump(o)
           j == [job[t] EXCEPT !.pc = "f_mark", !.after = "publish",
                               !.published = TRUE, !.gate = job[t].fifo,
                               !.view = View(n, "grant"), !.snap = Payload(n, TRUE)]
<1>0. t \in Proc /\ TypeOK /\ job[t] \in Job
  BY DEF Proc, IInv, TypeOK
<1>1. /\ m \in Memory /\ m.inflight = mem.inflight
      /\ m.withdrawn = mem.withdrawn /\ m.waiting = mem.waiting
  BY <1>0 DEF TypeOK, Unlock, Memory
<1>2. /\ o \in Memory /\ o.inflight = mem.inflight
      /\ o.withdrawn = mem.withdrawn
      /\ ~job[t].fifo => o.waiting = mem.waiting
  <2>1. left \in Nat /\ (~job[t].fifo => left = mem.waiting)
    BY <1>0, <1>1 DEF Exact, Memory
  <2> HIDE DEF left
  <2>2. job[t].lease \in LeaseOrNone
    BY <1>0 DEF Job
  <2> QED BY <1>1, <2>1, <2>2, ZenonT(40) DEF Memory
<1>3. /\ n \in Memory /\ n.inflight = mem.inflight
      /\ n.withdrawn = mem.withdrawn
      /\ ~job[t].fifo => n.waiting = mem.waiting
  BY <1>2, BumpType
<1>4. Become(t, n, j)
  BY DEF Publish
<1> HIDE DEF n, o
<1>5. /\ j \in Job /\ FollowsUp(job[t], j)
      /\ j.fifo = job[t].fifo /\ j.lease = job[t].lease /\ j.published
  BY <1>0, <1>3, CaptureType DEF FollowsUp, Job, Pc, GrantPc
<1> HIDE DEF j
<1>6. CASE ~job[t].fifo
  <2>1. Calm(n)
    BY <1>1, <1>3, <1>6 DEF Calm, Memory
  <2> QED BY <1>0, <1>4, <1>5, <2>1, BecomeContinues, Goes
<1>7. CASE job[t].fifo
  <2>1. TypeOK'
    BY <1>0, <1>3, <1>4, <1>5 DEF TypeOK, Become, Steady
  <2>2. \A u \in Thread : job'[u] = IF u = t THEN j ELSE job[u]
    BY <1>0, <1>4 DEF TypeOK, Proc, Become
  <2>3. GrantsIssued'
    BY <1>5, <2>2 DEF IInv, GrantsIssued, FollowsUp
  <2>4. OneGranter'
    BY <1>5, <2>2 DEF IInv, OneGranter
  <2>5. mem'.inflight = job[t].lease
    BY <1>3, <1>4 DEF Become, Exact
  <2>6. ~HeadInFlight'
    BY <1>5, <1>7, <2>2, <2>5 DEF IInv, OneGranter, HeadInFlight
  <2> QED BY <2>1, <2>3, <2>4, <2>6 DEF IInv, HeadWaits
<1> QED BY <1>6, <1>7

LEMMA AuditGrantGoes ==
  ASSUME IInv, NEW t \in Thread, AuditGrant(t)
  PROVE  IInv'
<1> DEFINE m == IF job[t].fifo THEN mem ELSE Unlock(t, mem)
           l == job[t].lease
<1>0. /\ t \in Proc /\ TypeOK /\ Calm(mem) /\ Calm(m)
      /\ job[t] \in Job /\ mem.wal \in Wal
  <2>1. t \in Proc /\ TypeOK /\ Calm(mem)
    BY CalmNow DEF Proc, IInv
  <2>2. Calm(m)
    BY <2>1 DEF Calm, Unlock, Memory
  <2> QED BY <2>1, <2>2 DEF TypeOK, Memory
<1>1. /\ job[t].pc = "g_audit" /\ l \in 1 .. issued
      /\ UNCHANGED <<disk, issued, boot, lost, amiss>> /\ (IoOk \/ IoFails)
  BY DEF AuditGrant, At, IInv, GrantsIssued, GrantPc
<1>2. Steady
  BY <1>0, <1>1, IoSteady
<1>3. ledger' \subseteq 1 .. issued
  BY <1>0, <1>1 DEF AuditGrant, TypeOK
<1>4. CASE Exact(t) /\ Publish(t, m)
  BY <1>1, <1>2, <1>3, <1>4, PublishGoes
<1>5. CASE Become(t, m, [job[t] EXCEPT !.pc = "c_mark", !.gate = job[t].fifo])
  <2>1. /\ [job[t] EXCEPT !.pc = "c_mark", !.gate = job[t].fifo] \in Job
        /\ FollowsUp(job[t], [job[t] EXCEPT !.pc = "c_mark", !.gate = job[t].fifo])
    BY <1>0 DEF FollowsUp, Job, Pc, GrantPc
  <2> QED BY <1>0, <1>1, <1>2, <1>3, <1>5, <2>1, BecomeContinues, Goes
<1>6. CASE Compensate(t, m)
  BY <1>0, <1>1, <1>2, <1>3, <1>6, CompensateContinues, Goes
<1>7. CASE Become(t, IF job[t].fifo THEN ClearGrant(mem, l) ELSE mem,
                  [job[t] EXCEPT !.pc = "latch", !.after = "refused", !.held = mem.wal])
  <2> DEFINE j == [job[t] EXCEPT !.pc = "latch", !.after = "refused", !.held = mem.wal]
  <2>1. j \in Job /\ FollowsUp(job[t], j)
    BY <1>0 DEF FollowsUp, Job, Pc, GrantPc
  <2>2. Calm(IF job[t].fifo THEN ClearGrant(mem, l) ELSE mem)
    BY <1>0, CalmClearGrant
  <2> QED BY <1>0, <1>1, <1>2, <1>3, <1>7, <2>1, <2>2, BecomeContinues, Goes
<1> QED BY <1>4, <1>5, <1>6, <1>7 DEF AuditGrant

-----------------------------------------------------------------------------
(* _finish_wal_after_publish_locked.                                       *)

LEMMA FinishStepGoes ==
  ASSUME IInv, NEW p \in Proc,
         FinishMark(p) \/ FinishSnapshot(p) \/ FinishCompleted(p) \/ FinishClear(p)
  PROVE  IInv'
<1>0. /\ TypeOK /\ Calm(mem) /\ (\A w \in Wal : Calm(Now(w)))
      /\ job[p] \in Job /\ job[p].held \in Wal /\ job[p].snap.rev \in Nat
      /\ ledger' \subseteq 1 .. issued /\ UNCHANGED <<issued, boot, lost, amiss>>
  <2>1. TypeOK /\ Calm(mem) /\ \A w \in Wal : Calm(Now(w))
    BY CalmNow DEF IInv
  <2>2. job[p] \in Job /\ job[p].held \in Wal /\ job[p].snap.rev \in Nat
    BY <2>1 DEF TypeOK, Job, Snapshot
  <2>3. ledger' \subseteq 1 .. issued /\ UNCHANGED <<issued, boot, lost, amiss>>
    BY <2>1 DEF TypeOK, FinishMark, FinishSnapshot, FinishCompleted, FinishClear, At
  <2> QED BY <2>1, <2>2, <2>3
<1>1. CASE FinishMark(p)
  <2> DEFINE w == Expecting(p)
  <2>1. w \in Wal /\ Calm(Now(w))
    BY <1>0 DEF Expecting, Wal
  <2>2. Steady
    BY <1>0, <1>1, <2>1, MovedSteady DEF FinishMark
  <2>3. Continues(p)
    BY <1>0, <1>1, <2>1, SaveNextContinues, ChangedContinues
       DEF FinishMark, Pc, GrantPc
  <2> QED BY <1>0, <2>2, <2>3, Goes
<1>2. CASE FinishSnapshot(p)
  <2>1. Steady
    BY <1>0, <1>2, SavedSteady DEF FinishSnapshot
  <2>2. Continues(p)
    BY <1>0, <1>2, MoveContinues, ChangedContinues DEF FinishSnapshot, Pc, GrantPc
  <2> QED BY <1>0, <2>1, <2>2, Goes
<1>3. CASE FinishCompleted(p)
  <2> DEFINE w == [job[p].held EXCEPT !.state = "completed"]
  <2>1. w \in Wal /\ Calm(Now(w))
    BY <1>0 DEF Wal
  <2> HIDE DEF w
  <2>2. (Moved(p, w) /\ IF Same(p) THEN Move(p, Now(w), "f_clear") ELSE Changed(p, Now(w)))
        \/ (NotMoved(p, w) /\ Broken(p, mem))
    BY <1>3 DEF FinishCompleted, w
  <2>3. Steady
    BY <1>0, <2>1, <2>2, MovedSteady
  <2>4. Continues(p)
    BY <1>0, <2>1, <2>2, MoveContinues, ChangedContinues DEF Pc, GrantPc
  <2> QED BY <1>0, <2>3, <2>4, Goes
<1>4. CASE FinishClear(p)
  <2> DEFINE n == [mem EXCEPT !.fault = Marks(mem.wal), !.grantFailed = TRUE]
  <2>1. Calm(Now(NoWal)) /\ NoWal \in Wal
    BY <1>0, Constant
  <2>2. Calm(n)
    BY <1>0, WalType DEF Calm, Memory
  <2>3. Steady
    BY <1>0, <1>4, <2>1, MovedSteady DEF FinishClear
  <2>4. Continues(p)
    <3>1. CASE Settle(p, Now(NoWal)) \/ Changed(p, Now(NoWal)) \/ Changed(p, mem)
      BY <1>0, <2>1, <3>1, SettleContinues, ChangedContinues
    <3>2. CASE SaveNext(p, Bump(n), "f_pending")
      BY <1>0, <2>2, <3>2, CalmBump, SaveNextContinues DEF Pc, GrantPc
    <3> QED BY <1>4, <3>1, <3>2 DEF FinishClear
  <2> QED BY <1>0, <2>3, <2>4, Goes
<1> QED BY <1>1, <1>2, <1>3, <1>4

LEMMA SavedGoes ==
  ASSUME IInv, NEW p \in Proc, ClearPending(p) \/ FaultSaved(p)
  PROVE  IInv'
<1>0. TypeOK /\ Calm(mem)
  BY CalmNow DEF IInv
<1>1. ledger' \subseteq 1 .. issued /\ UNCHANGED <<issued, boot, lost, amiss>>
  BY <1>0 DEF TypeOK, ClearPending, FaultSaved, At
<1>2. Steady
  BY <1>0, SavedSteady DEF ClearPending, FaultSaved
<1>3. Continues(p)
  BY <1>0, LatchContinues, EndContinues, CalmClearGrant DEF ClearPending, FaultSaved
<1> QED BY <1>1, <1>2, <1>3, Goes

-----------------------------------------------------------------------------
(* Taking back a grant.                                                    *)

LEMMA CalmWithdrawn ==
  ASSUME IInv, NEW p \in Proc, NEW requeue
  PROVE  Calm(Withdrawn(p, requeue))
<1> DEFINE l == job[p].lease
           on == IF mem.active = l THEN NoLease ELSE mem.active
           up == IF mem.inflight = l THEN NoLease ELSE mem.inflight
           wait == IF requeue THEN mem.waiting + 1 ELSE mem.waiting
           m == [mem EXCEPT !.active = on, !.inflight = up, !.waiting = wait]
<1>1. mem \in Memory
  BY DEF IInv, TypeOK
<1>2. /\ on \in LeaseOrNone /\ up \in {NoLease, mem.inflight}
      /\ wait \in Nat /\ wait >= mem.waiting
  BY <1>1 DEF Memory, LeaseOrNone
<1>3. Withdrawn(p, requeue) = IF m = mem THEN m ELSE Bump(m)
  BY DEF Withdrawn
<1> HIDE DEF on, up, wait
<1>4. Calm(m)
  BY <1>1, <1>2 DEF Calm, Memory, LeaseOrNone
<1> QED BY <1>3, <1>4, CalmBump

LEMMA CompensationGoes ==
  ASSUME IInv, NEW p \in Proc, ArmCompensation(p) \/ MarkCompensation(p)
  PROVE  IInv'
<1>0. /\ TypeOK /\ Calm(mem) /\ job[p] \in Job
      /\ ledger' \subseteq 1 .. issued /\ UNCHANGED <<issued, boot, lost, amiss>>
  BY CalmNow DEF IInv, TypeOK, ArmCompensation, MarkCompensation, At
<1>1. ASSUME Become(p, mem, [job[p] EXCEPT !.pc = "c_revoke", !.marked = FALSE])
      PROVE  Continues(p)
  <2> DEFINE j == [job[p] EXCEPT !.pc = "c_revoke", !.marked = FALSE]
  <2>1. j \in Job /\ FollowsUp(job[p], j)
    BY <1>0, ZenonT(40) DEF FollowsUp, Job, Pc, GrantPc
  <2> QED BY <1>0, <1>1, <2>1, BecomeContinues
<1>2. CASE ArmCompensation(p)
  <2>1. job[p].lease \in LeaseOrNone
    BY <1>0 DEF Job
  <2>2. Steady
    BY <1>0, <1>2, <2>1, ArmSteady DEF ArmCompensation
  <2>3. Continues(p)
    BY <1>0, <1>1, <1>2, <2>1, CalmNow, MoveContinues
       DEF ArmCompensation, Pc, GrantPc
  <2> QED BY <1>0, <2>2, <2>3, Goes
<1>3. CASE MarkCompensation(p)
  <2> DEFINE w == [job[p].held EXCEPT !.changed = TRUE]
  <2>1. w \in Wal /\ Calm(Now(w))
    BY <1>0, CalmNow DEF Job, Wal
  <2> HIDE DEF w
  <2>2. \/ Moved(p, w) /\ Move(p, Now(w), "c_revoke")
        \/ /\ NotMoved(p, w)
           /\ Become(p, mem, [job[p] EXCEPT !.pc = "c_revoke", !.marked = FALSE])
    BY <1>3 DEF MarkCompensation, w
  <2>3. Steady
    BY <1>0, <2>1, <2>2, MovedSteady
  <2>4. Continues(p)
    BY <1>0, <1>1, <2>1, <2>2, MoveContinues DEF Pc, GrantPc
  <2> QED BY <1>0, <2>3, <2>4, Goes
<1> QED BY <1>2, <1>3

LEMMA RevokeGoes ==
  ASSUME IInv, NEW p \in Proc, Revoke(p) \/ RevokeBroken(p)
  PROVE  IInv'
<1>0. TypeOK /\ Calm(mem) /\ \A requeue : Calm(Withdrawn(p, requeue))
  BY CalmNow, CalmWithdrawn DEF IInv
<1>1. ledger' \subseteq 1 .. issued /\ UNCHANGED <<issued, boot, lost, amiss>>
  BY <1>0 DEF TypeOK, Revoke, RevokeBroken, At
<1>2. Steady
  BY <1>0, IoSteady DEF Revoke, RevokeBroken
<1>3. CASE Revoke(p)
  BY <1>0, <1>1, <1>2, <1>3, FinishContinues, LatchContinues, Goes DEF Revoke
<1>4. CASE RevokeBroken(p)
  BY <1>0, <1>1, <1>2, <1>4, LatchContinues, Goes DEF RevokeBroken
<1> QED BY <1>3, <1>4

LEMMA LatchFaultGoes ==
  ASSUME IInv, NEW p \in Proc, LatchFault(p)
  PROVE  IInv'
<1> DEFINE w == [job[p].held EXCEPT !.state = "fault", !.changed = FALSE]
<1>0. /\ TypeOK /\ Calm(mem)
      /\ ledger' \subseteq 1 .. issued /\ UNCHANGED <<issued, boot, lost, amiss>>
  BY CalmNow DEF IInv, TypeOK, LatchFault, At
<1>1. w \in Wal
  BY <1>0, ZenonT(40) DEF TypeOK, Job, Wal
<1>2. (Moved(p, w) /\ Latched(p, Now(w))) \/ (NotMoved(p, w) /\ Latched(p, mem))
  BY DEF LatchFault
<1> HIDE DEF w
<1>3. Steady
  BY <1>0, <1>1, <1>2, MovedSteady
<1>4. Continues(p)
  BY <1>0, <1>1, <1>2, CalmNow, LatchedContinues
<1> QED BY <1>0, <1>3, <1>4, Goes

-----------------------------------------------------------------------------
(* Ending a lease.                                                         *)

LEMMA BeginReleaseGoes ==
  ASSUME IInv, NEW t \in Thread, BeginRelease(t)
  PROVE  IInv'
<1> DEFINE after == IF mem.due /\ job[t].pc = "idle" THEN "expired" ELSE "owner"
           j == [Idle EXCEPT !.pc = "r_arm", !.lease = mem.active, !.after = after]
<1>0. /\ t \in Proc /\ TypeOK /\ Calm(mem) /\ mem.active \in LeaseOrNone
      /\ Become(t, mem, j)
      /\ UNCHANGED <<disk, ledger, issued, faults, boot, lost, amiss>>
  BY CalmNow DEF Proc, IInv, TypeOK, Memory, BeginRelease
<1>1. after \in {"owner", "expired"}
  OBVIOUS
<1> HIDE DEF after
<1>2. j \in Job /\ FollowsUp(job[t], j)
  BY <1>0, <1>1, Constant DEF FollowsUp, Job, Pc, GrantPc, Idle
<1>3. Continues(t)
  BY <1>0, <1>2, BecomeContinues
<1> QED BY <1>0, <1>3, Goes DEF TypeOK, Steady

LEMMA ArmReleaseGoes ==
  ASSUME IInv, NEW t \in Thread, ArmRelease(t)
  PROVE  IInv'
<1> DEFINE l == job[t].lease
           m == Armed("release", l)
           pc == IF job[t].after = "expired" THEN "swept" ELSE "idle"
           j == [Idle EXCEPT !.pc = pc]
<1>0. /\ t \in Proc /\ TypeOK /\ Calm(mem) /\ l \in LeaseOrNone
      /\ ledger' \subseteq 1 .. issued /\ UNCHANGED <<issued, boot, lost>>
  BY CalmNow DEF Proc, IInv, TypeOK, Job, ArmRelease
<1>4. amiss' \subseteq {"release", "repair"}
  BY <1>0 DEF TypeOK, ArmRelease, Overtaken
<1>1. Steady
  BY <1>0, ArmSteady DEF ArmRelease
<1>2. CASE Move(t, Bump(Retire(m, l)), "cleanup")
  <2>1. Calm(m)
    BY <1>0, CalmNow
  <2> HIDE DEF m
  <2>2. Calm(Retire(m, l))
    BY <1>0, <2>1 DEF Calm, Retire, Memory, LeaseOrNone
  <2> QED BY <1>0, <1>1, <1>2, <2>2, <1>4, CalmBump, MoveContinues, GoesAmiss DEF Pc, GrantPc
<1>3. CASE Become(t, mem, j)
  <2>1. pc \in {"swept", "idle"}
    OBVIOUS
  <2> HIDE DEF pc
  <2>2. j \in Job /\ FollowsUp(job[t], j)
    BY <2>1, Constant DEF FollowsUp, Job, Pc, GrantPc, Idle
  <2> QED BY <1>0, <1>1, <1>3, <2>2, <1>4, BecomeContinues, GoesAmiss
<1> QED BY <1>2, <1>3 DEF ArmRelease

LEMMA HandOverGoes ==
  ASSUME IInv, NEW l \in LeaseOrNone, NEW rest \in [Proc -> Job],
         \A t \in Thread : FollowsUp(job[t], rest[t]),
         HandOver(l, rest), UNCHANGED <<disk, ledger, issued, boot, lost, amiss>>
  PROVE  IInv'
<1> PICK left \in Spared .. mem.waiting :
      LET m == Bump([mem EXCEPT !.releasing = NoLease, !.unsafe = FALSE,
                            !.handoff = TRUE, !.waiting = left])
      IN  \/ /\ ~SlotTaken /\ IoOk
             /\ mem' = m
             /\ \E w \in Worker :
                  /\ job[w].pc = "idle"
                  /\ job' = [rest EXCEPT ![w] = [Idle EXCEPT !.pc = "w_audit", !.lease = l]]
          \/ /\ (SlotTaken /\ IoOk) \/ IoFails
             /\ mem' = [m EXCEPT !.handoffFailed = TRUE]
             /\ job' = rest
  BY DEF HandOver
<1> DEFINE o == [mem EXCEPT !.releasing = NoLease, !.unsafe = FALSE,
                            !.handoff = TRUE, !.waiting = left]
           m == Bump(o)
           j == [Idle EXCEPT !.pc = "w_audit", !.lease = l]
<1>1. left \in Nat /\ left >= Spared
  BY DEF Spared, IInv, TypeOK, Memory
<1>2. /\ o \in Memory /\ o.inflight = mem.inflight
      /\ o.withdrawn = mem.withdrawn /\ o.waiting = left
  BY <1>1 DEF IInv, TypeOK, Memory, LeaseOrNone
<1>3. /\ m \in Memory /\ m.inflight = mem.inflight
      /\ m.withdrawn = mem.withdrawn /\ m.waiting = left
  BY <1>2, BumpType
<1>4. mem' = m \/ mem' = [m EXCEPT !.handoffFailed = TRUE]
  OBVIOUS
<1>5. job' = rest \/ \E w \in Worker : job' = [rest EXCEPT ![w] = j]
  OBVIOUS
<1>6. Steady
  BY IoSteady DEF IInv
<1> HIDE DEF m
<1>7. /\ mem' \in Memory /\ mem'.inflight = mem.inflight
      /\ mem'.withdrawn = mem.withdrawn /\ mem'.waiting = left
  BY <1>3, <1>4 DEF Memory
<1>8. job' \in [Proc -> Job] /\ \A t \in Thread : job'[t] = rest[t]
  <2>1. j \in Job
    BY Constant DEF Job, Pc, Idle
  <2> HIDE DEF j
  <2>2. \A w \in Worker : w \in Proc /\ w \notin Thread
    BY LeaseAssumption DEF Proc
  <2> QED BY <1>5, <2>1, <2>2 DEF Proc
<1>9. TypeOK'
  BY <1>6, <1>7, <1>8 DEF IInv, TypeOK, Steady
<1>10. HeadWaits'
  <2> SUFFICES ASSUME HeadInFlight', ~mem'.withdrawn PROVE mem'.waiting > 0
    BY DEF HeadWaits
  <2>1. HeadInFlight
    BY <1>7, <1>8, Followed
  <2> QED BY <1>1, <1>7, <2>1 DEF Spared
<1> QED BY <1>8, <1>9, <1>10, Followed DEF IInv

LEMMA CleanUpGoes ==
  ASSUME IInv
  PROVE  /\ \A t \in Thread : CleanUp(t) => IInv'
         /\ FencedCleanUp \/ RepairLifecycle => IInv'
<1>0. /\ TypeOK /\ Calm(mem) /\ mem.releasing \in LeaseOrNone
      /\ \A unsafe \in BOOLEAN : Calm([mem EXCEPT !.unsafe = unsafe])
      /\ \A t \in Thread : FollowsUp(job[t], job[t])
  BY CalmNow DEF IInv, FollowsUp, Calm, Memory
<1>1. ASSUME NEW t \in Thread, CleanUp(t)
      PROVE  IInv'
  <2>1. /\ Finished(t) \in [Proc -> Job] /\ t \in Proc
        /\ \A u \in Thread : FollowsUp(job[u], Finished(t)[u])
    BY <1>0, Constant DEF Proc, TypeOK, Finished, FollowsUp, Idle, GrantPc
  <2>2. job[t].lease \in LeaseOrNone /\ UNCHANGED <<disk, ledger, issued, boot, lost, amiss>>
    BY <1>0, <1>1, <2>1 DEF TypeOK, Job, CleanUp, At
  <2>3. CASE HandOver(job[t].lease, Finished(t))
    BY <2>1, <2>2, <2>3, HandOverGoes
  <2>4. CASE \E unsafe \in BOOLEAN :
               mem' = [mem EXCEPT !.unsafe = unsafe] /\ job' = Finished(t) /\ IoOk
    <3>1. Steady
      BY <1>0, <2>2, <2>4, IoSteady
    <3> QED BY <1>0, <2>1, <2>2, <2>4, <3>1, Follows DEF TypeOK
  <2> QED BY <1>1, <2>3, <2>4 DEF CleanUp
<1>2. ASSUME FencedCleanUp \/ RepairLifecycle
      PROVE  IInv'
  <2>1. UNCHANGED <<disk, ledger, issued, boot, lost, amiss>>
    BY <1>2 DEF FencedCleanUp, RepairLifecycle, Fenced
  <2>2. CASE HandOver(mem.releasing, job)
    BY <1>0, <2>1, <2>2, HandOverGoes DEF TypeOK
  <2>3. CASE mem' = [mem EXCEPT !.unsafe = TRUE] /\ UNCHANGED job /\ IoOk
    <3>1. Steady
      BY <1>0, <2>1, <2>3, IoSteady
    <3> QED BY <1>0, <2>1, <2>3, <3>1, Follows DEF TypeOK
  <2> QED BY <1>2, <2>2, <2>3 DEF FencedCleanUp, RepairLifecycle, Fenced
<1> QED BY <1>1, <1>2

LEMMA WorkerGoes ==
  ASSUME IInv, NEW w \in Proc, AuditRelease(w) \/ ReleaseSaved(w)
  PROVE  IInv'
<1>0. TypeOK /\ Calm(mem)
  BY CalmNow DEF IInv
<1>1. ledger' \subseteq 1 .. issued /\ UNCHANGED <<issued, boot, lost, amiss>>
  BY <1>0 DEF TypeOK, AuditRelease, ReleaseSaved, At
<1>2. CASE AuditRelease(w)
  <2>1. Steady
    BY <1>0, <1>2, IoSteady DEF AuditRelease
  <2> QED BY <1>0, <1>1, <1>2, <2>1, FinishContinues, LatchContinues, Goes
          DEF AuditRelease
<1>3. CASE ReleaseSaved(w)
  <2>1. Calm([mem EXCEPT !.handoffFailed = TRUE])
    BY <1>0 DEF Calm, Memory
  <2>2. Steady
    BY <1>0, <1>3, SavedSteady DEF ReleaseSaved
  <2> QED BY <1>0, <1>1, <1>3, <2>1, <2>2, EndContinues, Goes DEF ReleaseSaved
<1> QED BY <1>2, <1>3

-----------------------------------------------------------------------------
(* Time, and the calls that only touch the lease or the queue.             *)

LEMMA LapseGoes ==
  ASSUME IInv, Lapse
  PROVE  IInv'
<1>1. Calm(mem')
  <2>1. Calm([mem EXCEPT !.due = TRUE])
    BY CalmNow DEF Calm, Memory
  <2> QED BY <2>1 DEF Lapse
<1>2. \A t \in Thread : FollowsUp(job[t], job'[t])
  BY DEF FollowsUp, Lapse
<1> QED BY <1>1, <1>2, Follows DEF IInv, TypeOK, Lapse, Steady

LEMMA HeartbeatGoes ==
  ASSUME IInv, NEW t \in Thread, BeginHeartbeat(t) \/ Heartbeat(t) \/ GiveUp(t)
  PROVE  IInv'
<1>0. t \in Proc /\ TypeOK /\ Calm(mem) /\ mem.active \in LeaseOrNone
  BY CalmNow DEF Proc, IInv, TypeOK, Memory
<1>1. /\ UNCHANGED <<disk, issued, boot, lost, amiss>>
      /\ ledger' \subseteq 1 .. issued /\ Steady
  BY <1>0, LeaseAssumption
     DEF TypeOK, Steady, BeginHeartbeat, Heartbeat, GiveUp, At, IoOk, IoFails
<1>2. CASE BeginHeartbeat(t)
  <2> DEFINE j == [Idle EXCEPT !.pc = "beat", !.lease = mem.active]
  <2>1. j \in Job /\ FollowsUp(job[t], j)
    BY <1>0, Constant DEF FollowsUp, Job, Pc, GrantPc, Idle
  <2> QED BY <1>0, <1>1, <1>2, <2>1, BecomeContinues, Goes DEF BeginHeartbeat
<1>3. CASE Heartbeat(t)
  <2>1. Calm([mem EXCEPT !.due = FALSE])
    BY <1>0 DEF Calm, Memory
  <2> QED BY <1>0, <1>1, <1>3, <2>1, CalmBump, EndContinues, Goes DEF Heartbeat
<1>4. CASE GiveUp(t)
  BY <1>0, <1>1, <1>4, EndContinues, Goes DEF GiveUp
<1> QED BY <1>2, <1>3, <1>4

LEMMA QueueGoes ==
  ASSUME IInv, NEW t \in Thread, Enqueue(t) \/ CancelGrant(t) \/ CancelTicket(t)
  PROVE  IInv'
<1> DEFINE left == IF HeadInFlight THEN mem.waiting - 1 ELSE mem.waiting
           gone == [mem EXCEPT !.withdrawn = TRUE, !.waiting = left]
           fewer == [mem EXCEPT !.waiting = @ - 1]
<1>0. mem \in Memory /\ mem.waiting \in Nat /\ \A u \in Thread : FollowsUp(job[u], job[u])
  BY DEF IInv, TypeOK, Memory, FollowsUp
<1>1. UNCHANGED <<disk, ledger, job, issued, faults, boot, lost, amiss>>
  BY DEF Enqueue, CancelGrant, CancelTicket
<1>2. CASE Enqueue(t)
  <2>1. Calm([mem EXCEPT !.waiting = @ + 1])
    BY <1>0 DEF Calm, Memory
  <2>2. Calm(mem')
    BY <1>2, <2>1, CalmBump DEF Enqueue
  <2> QED BY <1>0, <1>1, <2>2, Follows DEF IInv, TypeOK, Steady
<1>3. CASE CancelGrant(t)
  <2>1. left \in Nat
    BY <1>0, <1>3 DEF IInv, HeadWaits, CancelGrant
  <2>2. mem' = Bump(gone)
    BY <1>3 DEF CancelGrant
  <2> HIDE DEF left
  <2>3. gone \in Memory /\ gone.withdrawn
    BY <1>0, <2>1 DEF Memory
  <2>4. mem' \in Memory /\ mem'.withdrawn
    BY <2>2, <2>3, BumpType
  <2> QED BY <1>0, <1>1, <2>4, Followed DEF IInv, TypeOK, HeadWaits
<1>4. CASE CancelTicket(t)
  <2>1. fewer \in Memory /\ fewer.waiting >= Spared
        /\ fewer.inflight = mem.inflight /\ fewer.withdrawn = mem.withdrawn
    BY <1>0, <1>4 DEF CancelTicket, Spared, Memory
  <2>2. mem' = Bump(fewer)
    BY <1>4 DEF CancelTicket
  <2>3. mem' \in Memory /\ mem'.waiting >= Spared
        /\ mem'.inflight = mem.inflight /\ mem'.withdrawn = mem.withdrawn
    BY <2>1, <2>2, BumpType
  <2>4. HeadWaits'
    BY <1>0, <1>1, <2>3, Followed DEF HeadWaits, Spared, Memory
  <2> QED BY <1>0, <1>1, <2>3, <2>4, Followed DEF IInv, TypeOK
<1> QED BY <1>2, <1>3, <1>4

LEMMA PersistGoes ==
  ASSUME IInv, NEW t \in Thread, BeginPersist(t) \/ Persist(t)
  PROVE  IInv'
<1>0. t \in Proc /\ TypeOK /\ Calm(mem)
  BY CalmNow DEF Proc, IInv
<1>1. CASE BeginPersist(t)
  <2> DEFINE j == [Idle EXCEPT !.pc = "persist", !.snap = Payload(mem, FALSE)]
  <2>1. Payload(mem, FALSE) \in Snapshot
    BY <1>0, CaptureType DEF TypeOK
  <2>2. j \in Job /\ FollowsUp(job[t], j)
    BY <2>1, Constant DEF FollowsUp, Job, Pc, GrantPc, Idle
  <2>3. Continues(t)
    BY <1>0, <1>1, <2>2, BecomeContinues DEF BeginPersist
  <2> QED BY <1>0, <1>1, <2>3, Goes DEF BeginPersist, TypeOK, Steady
<1>2. CASE Persist(t)
  <2>1. Steady
    BY <1>0, <1>2, SavedSteady DEF Persist
  <2> QED BY <1>0, <1>2, <2>1, EndContinues, Goes DEF Persist, At, TypeOK
<1> QED BY <1>1, <1>2

-----------------------------------------------------------------------------
(* The operator's repair.                                                  *)

LEMMA ReconcileGoes ==
  ASSUME IInv, NEW t \in Thread, Reconcile(t)
  PROVE  IInv'
<1>0. TypeOK /\ Calm(mem) /\ \A u \in Thread : FollowsUp(job[u], job[u])
  BY CalmNow DEF IInv, FollowsUp
<1>1. [disk EXCEPT !.wal.state = "repairing"] \in [wal : Wal, snap : Snapshot]
  BY <1>0 DEF TypeOK, Wal
<1>2. Steady
  BY <1>0, <1>1, LeaseAssumption DEF TypeOK, Reconcile, Steady, IoOk, IoFails
<1>3. Calm(mem')
  BY <1>0 DEF Reconcile
<1>4. ledger' \subseteq 1 .. issued /\ amiss' \subseteq {"release", "repair"}
  BY <1>0 DEF Reconcile, TypeOK, Overlapped
<1> QED BY <1>0, <1>2, <1>3, <1>4, Follows DEF Reconcile, TypeOK

LEMMA BeginRepairGoes ==
  ASSUME IInv, NEW t \in Thread, BeginRepair(t)
  PROVE  IInv'
<1> DEFINE w == [disk.wal EXCEPT !.state = "repaired", !.rev = mem.rev + 1]
           o == [mem EXCEPT !.wal = w, !.fence = TRUE, !.fault = NoMarker,
                            !.handoff = FALSE, !.handoffFailed = FALSE,
                            !.grantFailed = FALSE]
           m == Bump(o)
           j == [Idle EXCEPT !.pc = "fix_save", !.lease = w.lease,
                             !.view = View(mem, "release"),
                             !.snap = Payload(m, TRUE)]
<1>0. t \in Proc /\ TypeOK /\ Calm(mem)
  BY CalmNow DEF Proc, IInv
<1>1. w \in Wal
  <2>1. disk.wal \in Wal /\ mem.rev + 1 \in Nat
    BY <1>0 DEF TypeOK, Memory
  <2> QED BY <2>1 DEF Wal
<1>2. /\ disk' = [disk EXCEPT !.wal = w] /\ ledger' = ledger \ {w.lease}
      /\ Become(t, m, j) /\ UNCHANGED <<issued, faults, boot, lost>>
  BY DEF BeginRepair
<1>9. amiss' \subseteq {"release", "repair"}
  BY <1>0 DEF TypeOK, BeginRepair, Overlapped
<1> HIDE DEF w
<1>3. Calm(o)
  BY <1>0, <1>1, Constant DEF Calm, Memory
<1>4. Calm(m)
  BY <1>3, CalmBump
<1> HIDE DEF m
<1>5. View(mem, "release") \in Fence /\ Payload(m, TRUE) \in Snapshot
      /\ w.lease \in LeaseOrNone
  BY <1>0, <1>1, <1>4, CaptureType DEF Calm, Wal
<1>6. j \in Job /\ FollowsUp(job[t], j)
  BY <1>5, Constant DEF FollowsUp, Job, Pc, GrantPc, Idle
<1>7. Continues(t)
  BY <1>0, <1>2, <1>4, <1>6, BecomeContinues
<1>8. Steady
  BY <1>0, <1>1, <1>2 DEF TypeOK, Steady
<1> QED BY <1>0, <1>2, <1>7, <1>8, <1>9, GoesAmiss DEF TypeOK

LEMMA RepairGoes ==
  ASSUME IInv, NEW t \in Thread, RepairSaved(t) \/ RepairCleared(t) \/ RepairFailed(t)
  PROVE  IInv'
<1>0. /\ t \in Proc /\ TypeOK /\ Calm(mem)
      /\ ledger' \subseteq 1 .. issued /\ UNCHANGED <<issued, boot, lost, amiss>>
  BY CalmNow DEF Proc, IInv, TypeOK, RepairSaved, RepairCleared, RepairFailed, At
<1>1. CASE RepairSaved(t)
  <2> DEFINE v == job[t].view
             o == [mem EXCEPT !.fault = v.fault, !.handoff = v.handoff,
                              !.handoffFailed = v.handoffFailed,
                              !.grantFailed = v.grantFailed, !.fence = FALSE]
  <2>1. v \in Fence
    BY <1>0 DEF TypeOK, Job
  <2>2. Calm(o)
    BY <1>0, <2>1 DEF Calm, Memory, Fence
  <2>3. Calm(Unrepaired(t))
    BY <2>2, CalmBump DEF Unrepaired
  <2>4. Steady
    BY <1>0, <1>1, SavedSteady DEF RepairSaved
  <2>5. Continues(t)
    BY <1>0, <1>1, <2>3, MoveContinues, EndContinues DEF RepairSaved, Pc, GrantPc
  <2> QED BY <1>0, <2>4, <2>5, Goes
<1>2. CASE RepairCleared(t)
  <2> DEFINE release == disk.wal.op = "release"
             o == [mem EXCEPT !.fault = Marks(mem.wal), !.fence = FALSE,
                              !.handoffFailed = @ \/ release,
                              !.grantFailed = @ \/ ~release]
             n == [Now(NoWal) EXCEPT !.fence = FALSE]
  <2>1. Calm(n)
    <3>1. Calm(Now(NoWal))
      BY CalmNow, Constant
    <3> QED BY <3>1 DEF Calm, Memory
  <2>2. Calm(o)
    BY <1>0, WalType DEF Calm, Memory
  <2>3. Steady
    BY <1>0, <1>2, MovedSteady, Constant DEF RepairCleared
  <2>4. End(t, n) \/ SaveNext(t, Bump(o), "fix_late")
    BY <1>2 DEF RepairCleared
  <2>5. Continues(t)
    BY <1>0, <2>1, <2>2, <2>4, CalmBump, EndContinues, SaveNextContinues
       DEF Pc, GrantPc
  <2> QED BY <1>0, <2>3, <2>5, Goes
<1>3. CASE RepairFailed(t)
  <2>1. Steady
    BY <1>0, <1>3, SavedSteady DEF RepairFailed
  <2> QED BY <1>0, <1>3, <2>1, EndContinues, Goes DEF RepairFailed
<1> QED BY <1>1, <1>2, <1>3

-----------------------------------------------------------------------------
(* Crash and restart.                                                      *)

LEMMA CrashGoes ==
  ASSUME IInv, Crash
  PROVE  IInv'
<1>1. Calm(mem')
  BY Constant DEF Crash, Calm, Fresh
<1>2. job' \in [Proc -> Job] /\ \A t \in Thread : FollowsUp(job[t], job'[t])
  BY Constant DEF Crash, FollowsUp, Idle, GrantPc, Proc
<1>3. ledger' \subseteq 1 .. issued /\ lost' \subseteq 1 .. issued
  BY DEF IInv, TypeOK, Crash, Forgets, Unended
<1> QED BY <1>1, <1>2, <1>3, Follows DEF IInv, TypeOK, Crash, Steady

LEMMA RecoverGoes ==
  ASSUME IInv, Recover
  PROVE  IInv'
<1> DEFINE w == disk.wal
           old == disk.snap.fault
<1>0. TypeOK /\ w \in Wal /\ old \in Marker /\ Marks(w) \in Marker
  BY WalType DEF IInv, TypeOK, Snapshot
<1>1. \E fault \in Marker, at \in {"recovered", "up"} : Recovered(fault, at)
  BY <1>0, Constant DEF Recover
<1>2. Calm(mem')
  <2>1. \A fault \in Marker : Calm([Fresh EXCEPT !.fault = fault])
    BY Constant DEF Calm, Fresh, Memory
  <2> QED BY <1>1, <2>1 DEF Recovered
<1>3. boot' \in [at : {"up", "down", "recovered", "consumed"}, named : SUBSET Lease]
  BY <1>0, <1>1 DEF TypeOK, Recovered
<1>4. disk' \in [wal : Wal, snap : Snapshot]
  <2>1. [state |-> "fault", op |-> old.op, lease |-> old.lease,
         changed |-> FALSE, rev |-> 0] \in Wal
    BY <1>0 DEF Marker, Wal
  <2>2. [disk EXCEPT !.wal.state = "fault"] \in [wal : Wal, snap : Snapshot]
    BY <1>0 DEF TypeOK, Wal
  <2> QED BY <1>0, <2>1, <2>2, Constant DEF TypeOK, Recover
<1>5. IoOk \/ IoFails
  BY DEF Recover
<1>6. Steady
  BY <1>0, <1>4, <1>5, LeaseAssumption DEF TypeOK, Steady, IoOk, IoFails
<1>7. UNCHANGED <<ledger, lost, job, issued, amiss>>
  BY DEF Recover
<1>8. \A t \in Thread : FollowsUp(job[t], job[t])
  BY DEF FollowsUp
<1> QED BY <1>0, <1>2, <1>3, <1>6, <1>7, <1>8, Follows DEF TypeOK

LEMMA BootGoes ==
  ASSUME IInv, Consume \/ Attribute
  PROVE  IInv'
<1>0. TypeOK /\ Calm(mem) /\ \A u \in Thread : FollowsUp(job[u], job[u])
  BY CalmNow DEF IInv, FollowsUp
<1>1. CASE Consume
  <2>1. Named(disk.snap) \subseteq Lease
    BY <1>0 DEF TypeOK, Snapshot, LeaseOrNone, Named
  <2>2. Steady
    BY <1>0, <1>1, Constant DEF TypeOK, Consume, Steady
  <2>3. Calm(mem')
    BY <1>0, <1>1 DEF Consume
  <2> QED BY <1>0, <1>1, <2>1, <2>2, <2>3, Follows DEF TypeOK, Consume
<1>2. CASE Attribute
  <2>1. Steady
    BY <1>0, <1>2, IoSteady DEF Attribute
  <2>2. Calm(mem')
    BY <1>0, <1>2 DEF Attribute
  <2>3. boot' \in [at : {"up", "down", "recovered", "consumed"}, named : SUBSET Lease]
        /\ ledger' \subseteq 1 .. issued /\ lost' \subseteq 1 .. issued
    BY <1>0, <1>2 DEF TypeOK, Attribute, Forgets, Unended
  <2> QED BY <1>0, <1>2, <2>1, <2>2, <2>3, Follows DEF TypeOK, Attribute
<1> QED BY <1>1, <1>2

-----------------------------------------------------------------------------
(* The invariant of the protocol.                                          *)

LEMMA InitInvariant == Init => IInv
<1> SUFFICES ASSUME Init PROVE IInv
  OBVIOUS
<1>1. TypeOK
  BY Constant, LeaseAssumption DEF Init, TypeOK
<1>2. \A t \in Thread : job[t] = Idle
  BY DEF Init, Proc
<1> QED BY <1>1, <1>2
        DEF IInv, GrantsIssued, OneGranter, HeadWaits, HeadInFlight, Idle, GrantPc

LEMMA NextInvariant == IInv /\ [Next]_vars => IInv'
<1> SUFFICES ASSUME IInv, [Next]_vars PROVE IInv'
  OBVIOUS
<1>1. ASSUME NEW t \in Thread, Request(t)
      PROVE  IInv'
  BY <1>1, BeginGrantGoes, BeginReleaseGoes, HeartbeatGoes, PersistGoes,
     ReconcileGoes, BeginRepairGoes, QueueGoes DEF Request
<1>2. ASSUME NEW p \in Proc, FinishStep(p)
      PROVE  IInv'
  BY <1>2, FinishStepGoes, SavedGoes, LatchFaultGoes DEF FinishStep
<1>3. ASSUME NEW t \in Thread, ThreadStep(t)
      PROVE  IInv'
  <2>1. t \in Proc
    BY DEF Proc
  <2>2. GrantStep(t) => IInv'
    BY <2>1, TakeGateGoes, ArmGrantGoes, AuditGrantGoes, CompensationGoes, RevokeGoes
       DEF GrantStep
  <2> QED BY <1>2, <1>3, <2>1, <2>2, ArmReleaseGoes, CleanUpGoes, HeartbeatGoes,
             PersistGoes, RepairGoes DEF ThreadStep
<1>4. ASSUME NEW w \in Worker, WorkerStep(w)
      PROVE  IInv'
  BY <1>2, <1>4, WorkerGoes DEF WorkerStep, Proc
<1>5. CASE FencedCleanUp \/ RepairLifecycle \/ Lapse \/ Crash \/ Restart
  BY <1>5, CleanUpGoes, LapseGoes, CrashGoes, RecoverGoes, BootGoes DEF Restart
<1>6. CASE UNCHANGED vars
  <2>1. mem' = mem /\ job' = job /\ issued' = issued
    BY <1>6 DEF vars
  <2>2. HeadInFlight' = HeadInFlight
    BY <2>1 DEF HeadInFlight
  <2> QED BY <1>6, <2>1, <2>2
          DEF vars, IInv, TypeOK, GrantsIssued, OneGranter, HeadWaits
<1> QED BY <1>1, <1>3, <1>4, <1>5, <1>6 DEF Next

(* Every field the coordinator keeps, everything it writes and every       *)
(* captured view has its type in every reachable state: in particular the  *)
(* count of tickets never falls below zero, although a published fifo      *)
(* grant, a cancellation, an expiry and a compensation each change it      *)
(* without knowing of the others, and the ledger names created leases only.*)
THEOREM LeaseTypeOK == Spec => []TypeOK
<1>1. IInv => TypeOK
  BY DEF IInv
<1> QED BY <1>1, InitInvariant, NextInvariant, PTL DEF Spec

(* No two threads ever grant the head of the queue the same lease, and the *)
(* ticket a grant in flight was started for is still counted until it is   *)
(* published or cancelled: _claim_head_from_wait's head check.             *)
THEOREM HeadKept == Spec => [](OneGranter /\ HeadWaits)
<1>1. IInv => OneGranter /\ HeadWaits
  BY DEF IInv
<1> QED BY <1>1, InitInvariant, NextInvariant, PTL DEF Spec
=============================================================================
