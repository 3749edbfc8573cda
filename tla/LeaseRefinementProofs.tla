----------------------- MODULE LeaseRefinementProofs -----------------------
(***************************************************************************)
(* SessionLease implements WriteLease, and what its write-ahead protocol   *)
(* keeps durable, for any threads, workers, bounds and failed I/O and with *)
(* crashes at any step, the startup's among them.  Two overlaps that the   *)
(* code allows break it, and a behaviour is followed until it meets one:   *)
(* a release that was overtaken by another of its lease, and a repair that *)
(* began while a release worker was busy; amiss records both.              *)
(*                                                                         *)
(* None of the properties is inductive.  What is has two halves:           *)
(*                                                                         *)
(*   Core     the coordinator, the marker on disk and the ledger agree     *)
(*            (Whole); each thread and worker is where its job says, with  *)
(*            the marker in the state it left (Each); and any two of them  *)
(*            exclude each other as the fences, the lease and the worker   *)
(*            slot make them (Apart);                                      *)
(*   Durable  a captured snapshot is older than the coordinator or names   *)
(*            what it names (Fresher), a lease that stands in the ledger   *)
(*            is named by a marker or by every snapshot that is or may     *)
(*            still be written (Safe), and a publication that has saved    *)
(*            its snapshot is covered before it clears the marker (Seal).  *)
(*                                                                         *)
(* The proof first says of every action what it does to each field         *)
(* (...Does, with an ...Effect), then sorts the effects into a few kinds   *)
(* of step (Shared), shows that each kind leaves what another thread       *)
(* relies on (...Spares) and that each action leaves its own thread where  *)
(* it must be (...Acts).  The steps that touch several jobs, create a      *)
(* lease, crash or restart are shown to keep the invariant one by one      *)
(* (...Keeps), and every step is mapped to the abstract lease (...Moves).  *)
(***************************************************************************)
EXTENDS LeaseRefinement, SessionLeaseProofs

(* The stages of a job: a marker being finished, a grant being taken back, *)
(* a snapshot being written, a repair.                                     *)
Fin == {"f_mark", "f_snap", "f_done", "f_clear"}
Comp == {"c_arm", "c_mark", "c_revoke", "b_revoke"}
Saving == {"f_snap", "f_pending", "l_save", "w_save", "persist", "fix_save", "fix_late"}
Fixing == {"fix_save", "fix_clear", "fix_late"}

(* The leases the coordinator names; a marker that is the same operation;  *)
(* a job about the lease created last.                                     *)
MemNamed == {mem.active, mem.releasing, mem.inflight} \ {NoLease}
Alike(v, w) == v.op = w.op /\ v.lease = w.lease
Mine(w, op) == w.op = op /\ w.lease = issued
Latest(p) == issued # 0 /\ job[p].lease = issued /\ job[p].pc \notin Fixing

(* The jobs that need their lease to be the latest; those that may still   *)
(* grant it or take it back; those that end it.                            *)
Works(p) ==
  \/ job[p].pc \in GrantPc \cup Comp \cup Fin \cup {"cleanup", "w_audit"}
  \/ job[p].pc = "f_pending" /\ job[p].after = "undo"
InGrant(p) == job[p].pc \in GrantPc \cup Comp \cup Fin \cup {"latch", "f_pending", "l_save"}
InEnd(p) == job[p].pc = "w_audit" \/ (job[p].pc \in Fin /\ job[p].after = "handoff")

(* The form of what is kept, and who is where.                             *)
Sound(w) == w = NoWal \/ (w.op # "none" /\ w.state # "none")
SoundFault(f) == f = NoMarker \/ f.op # "none"

WorkerRole(p) == p \in Worker =>
  /\ job[p].pc \in Fin \cup {"idle", "w_audit", "latch", "l_save", "w_save", "f_pending"}
  /\ job[p].pc \in Fin \cup {"f_pending"} => job[p].after = "handoff"
  /\ job[p].after \in {"none", "handoff"}
ThreadRole(p) == p \in Thread =>
  /\ job[p].pc \notin {"w_audit", "w_save"}
  /\ job[p].pc \in Fin \cup {"f_pending"} => job[p].after \in {"publish", "undo"}
  /\ job[p].after # "handoff"
Formed(p) ==
  /\ SoundFault(job[p].snap.fault) /\ SoundFault(job[p].view.fault)
  /\ mem.rev = 0 => job[p] = Idle
Shape(p) == WorkerRole(p) /\ ThreadRole(p) /\ Formed(p)

Sounds == Sound(mem.wal) /\ Sound(disk.wal) /\ SoundFault(mem.fault) /\ SoundFault(disk.snap.fault)
Boots ==
  /\ boot.at # "up" => mem.rev = 0
  /\ boot.at # "consumed" => boot.named = {}
  /\ boot.at = "consumed" => disk.snap = NoSnapshot
  /\ boot.at \in {"recovered", "consumed"} /\ disk.wal # NoWal => mem.fault # NoMarker
  /\ mem.rev = 0 => mem = [Fresh EXCEPT !.fault = mem.fault]

(* The coordinator, the marker and the ledger.                             *)
Last == MemNamed \subseteq {issued} /\ ledger \subseteq {issued}
Twin ==
  /\ Up => mem.wal = disk.wal \/ mem.fault # NoMarker
  /\ mem.wal # NoWal => Alike(mem.wal, disk.wal)
Fits == Alike(mem.wal, disk.wal) /\ (disk.wal = NoWal \/ disk.wal.lease = issued)
Owned == MemNamed # {} => Fits
Closed ==
  disk.wal # NoWal
  /\ (disk.wal.state = "repaired"
      \/ (disk.wal.state = "completed" /\ (disk.wal.op = "release" \/ disk.wal.changed)))
    => disk.wal.lease \notin ledger
Retiring == mem.releasing # NoLease =>
  /\ mem.active = NoLease
  /\ mem.wal = NoWal \/ Mine(mem.wal, "release")
  /\ disk.wal = NoWal => issued \notin ledger
Held == mem.active # NoLease /\ mem.inflight # mem.active => disk.wal = NoWal /\ issued \in ledger

LWork(p) ==
  /\ job[p].pc \in Fixing \/ job[p].lease <= issued
  /\ Works(p) => Latest(p) /\ Fits
LEnd(p) == p \in Worker /\ Latest(p) => mem.active = NoLease /\ mem.releasing = NoLease
LLatch(p) == job[p].pc = "latch" =>
  job[p].held.lease = job[p].lease /\ (p \in Worker => job[p].held.op = "release")

(* Where each of them is, what holds of the shared state.                  *)
Holds == mem.wal = disk.wal /\ Mine(disk.wal, "grant")
State(p) == IF job[p].pc = "f_clear" THEN "completed" ELSE "armed"
CGate(p) == job[p].pc \in {"gate", "g_arm"} =>
  /\ mem.inflight = issued /\ mem.active = NoLease /\ mem.releasing = NoLease
  /\ mem.wal = NoWal /\ disk.wal = NoWal /\ issued \notin ledger
CAudit(p) == job[p].pc = "g_audit" =>
  /\ mem.inflight = issued /\ mem.active = NoLease /\ mem.releasing = NoLease
  /\ Holds /\ disk.wal.state = "armed" /\ ~disk.wal.changed /\ issued \notin ledger
  /\ job[p].held = mem.wal
CPub(p) == job[p].pc \in Fin /\ job[p].after = "publish" =>
  /\ mem.inflight = issued /\ mem.active = issued /\ mem.releasing = NoLease
  /\ issued \in ledger
  /\ Holds /\ ~disk.wal.changed /\ disk.wal.state = State(p)
  /\ job[p].pc # "f_snap" => job[p].held = mem.wal
CUndo(p) == job[p].pc \in Fin /\ job[p].after = "undo" =>
  /\ issued \notin ledger
  /\ Holds /\ disk.wal.state = State(p)
  /\ job[p].pc # "f_snap" => job[p].held = mem.wal
CPend(p) == job[p].pc = "f_pending" /\ job[p].after = "undo" =>
  Holds /\ disk.wal.state = "completed" /\ mem.fault # NoMarker
CComp(p) == job[p].pc \in Comp => mem.inflight = issued
CAfter(p) == job[p].pc \in GrantPc \cup Comp => job[p].after # "refused"
CMark(p) == job[p].pc = "c_mark" =>
  Holds /\ job[p].held = mem.wal /\ ~disk.wal.changed /\ disk.wal.state \in {"armed", "completed"}
CRev(p) == job[p].pc = "c_revoke" /\ job[p].marked => Holds /\ disk.wal.state = "armed"
CBrev(p) == job[p].pc = "b_revoke" =>
  mem.active = issued /\ Holds /\ disk.wal.state = "armed"
CRef(p) == job[p].pc \in {"latch", "l_save"} /\ job[p].after = "refused" /\ Latest(p) =>
  mem.active = NoLease /\ issued \notin ledger
CRarm(p) == job[p].pc = "r_arm" => job[p].lease # NoLease
CClean(p) == job[p].pc = "cleanup" => mem.releasing = issued
CEnd(p) == InEnd(p) =>
  /\ mem.handoff \/ mem.fault # NoMarker
  /\ mem.wal = NoWal \/ Mine(mem.wal, "release")
  /\ job[p].pc \in Fin \/ disk.wal = NoWal => issued \notin ledger
  /\ job[p].pc \in Fin /\ job[p].pc # "f_snap" =>
       job[p].held = NoWal \/ Mine(job[p].held, "release")
  /\ job[p].pc = "f_clear" =>
       mem.wal # NoWal /\ job[p].held.state = "completed"
       /\ disk.wal.state \in {"completed", "fault"}
Raced ==
  mem.wal = disk.wal /\ Mine(disk.wal, "release") /\ disk.wal.state \in {"armed", "completed"}
CRace(p) == job[p].pc = "c_arm" /\ mem.releasing # NoLease => Raced
CFix(p) == job[p].pc \in {"fix_save", "fix_clear"} =>
  /\ mem.wal = disk.wal /\ disk.wal.state \in {"repaired", "fault"}
  /\ job[p].pc = "fix_save" => job[p].view.fault # NoMarker
  /\ job[p].pc = "fix_clear" => job[p].held.state \in {"repaired", "fault"}
Where(p) ==
  /\ CGate(p) /\ CAudit(p) /\ CPub(p) /\ CUndo(p) /\ CPend(p) /\ CComp(p) /\ CAfter(p)
  /\ CMark(p) /\ CRev(p) /\ CBrev(p) /\ CRef(p) /\ CRarm(p) /\ CClean(p) /\ CEnd(p) /\ CRace(p)
  /\ CFix(p)

(* Who excludes whom.                                                      *)
PGrant(p, q) == job[p].pc \in GrantPc => ~Latest(q)
POne(p, q) ==
  p \in Thread /\ q \in Thread /\ Latest(p) /\ Latest(q) /\ InGrant(p) => ~InGrant(q)
PWork(p, q) == p \in Worker /\ q \in Worker /\ Latest(p) => ~Latest(q)
PClean(p, q) == job[p].pc = "cleanup" => job[q].pc # "cleanup"
PFix(p, q) == job[p].pc \in Fixing => job[q].pc \notin Fixing
PRace(p, q) == job[p].pc = "c_arm" /\ InEnd(q) => Raced
Apart(p, q) ==
  PGrant(p, q) /\ POne(p, q) /\ PWork(p, q) /\ PClean(p, q) /\ PFix(p, q) /\ PRace(p, q)

(* The half of the invariant that is about the present.                    *)
Whole == Sounds /\ Boots /\ Last /\ Twin /\ Owned /\ Closed /\ Retiring /\ Held
Each(p) == Shape(p) /\ LWork(p) /\ LEnd(p) /\ LLatch(p) /\ Where(p)
Core ==
  /\ Whole
  /\ \A p \in Proc : Each(p)
  /\ \A p \in Proc : \A q \in Proc \ {p} : Apart(p, q)

-----------------------------------------------------------------------------
(* What the steps do.                                                      *)

(* A startup that could not mark the fault it found: nothing runs.         *)
Deaf == mem.rev = 0 /\ mem.fault # NoMarker /\ disk.wal = NoWal

Others(p) == \A q \in Proc \ {p} : job'[q] = job[q]
Runs ==
  /\ Up /\ boot' = boot /\ issued' = issued
  /\ ~Deaf /\ mem'.rev # 0
  /\ mem'.rev > mem.rev \/ (mem'.rev = mem.rev /\ MemNamed' = MemNamed)
Frame(p) == Others(p) /\ Runs
SnapStays == disk'.snap = disk.snap
Saves(p) ==
  \/ SnapStays
  \/ /\ job[p].pc \in Saving /\ job[p].snap.fault # Unmarked
     /\ job[p].snap.rev > disk.snap.rev /\ disk'.snap = job[p].snap
Captures(p) == job'[p].pc \in Saving =>
  /\ job'[p].snap.rev = mem'.rev /\ Named(job'[p].snap) = MemNamed'
  /\ job'[p].snap.fault = mem'.fault
Steps(p) == Frame(p) /\ Saves(p) /\ Captures(p) /\ Shape(p)'

LeaseStays ==
  mem'.active = mem.active /\ mem'.releasing = mem.releasing /\ mem'.inflight = mem.inflight
MarkStays == mem'.wal = mem.wal /\ disk'.wal = disk.wal
LedgerStays == ledger' = ledger
FaultStays ==
  \/ mem'.fault = mem.fault
  \/ /\ mem'.fault # NoMarker /\ SoundFault(mem'.fault)
     /\ mem'.wal = NoWal => mem'.fault = Unmarked

Waits ==
  /\ LeaseStays /\ MarkStays /\ LedgerStays /\ FaultStays
  /\ mem'.handoff = mem.handoff \/ mem'.fault # NoMarker
Still == Waits /\ mem'.fault = mem.fault /\ mem'.handoff = mem.handoff
Moves(p) ==
  /\ LeaseStays /\ LedgerStays /\ FaultStays /\ SnapStays
  /\ mem'.handoff = mem.handoff
  /\ job[p].held # NoWal /\ disk.wal = job[p].held /\ disk'.wal = mem'.wal
  /\ disk'.wal # NoWal /\ Alike(disk'.wal, disk.wal)
Clears(p) ==
  /\ mem'.active = mem.active /\ mem'.releasing = mem.releasing
  /\ LedgerStays /\ FaultStays /\ SnapStays
  /\ job[p].held # NoWal /\ disk.wal = job[p].held /\ disk.wal.state \in {"completed", "repaired"}
  /\ disk'.wal = NoWal /\ mem'.wal = NoWal
Drops(p) ==
  /\ mem'.active = mem.active /\ mem'.releasing = mem.releasing
  /\ mem'.inflight = IF mem.inflight = job[p].lease THEN NoLease ELSE mem.inflight
  /\ mem'.handoff = mem.handoff /\ mem'.fault = mem.fault /\ MarkStays /\ LedgerStays
Arms(p, op) ==
  /\ LedgerStays /\ SnapStays /\ mem'.handoff = mem.handoff /\ mem'.fault = mem.fault
  /\ disk.wal = NoWal /\ disk'.wal = mem'.wal
  /\ disk'.wal.op = op /\ disk'.wal.lease = job[p].lease /\ disk'.wal.state = "armed"
  /\ ~disk'.wal.changed /\ disk'.wal # NoWal
Audits(p) ==
  /\ mem'.releasing = mem.releasing /\ mem'.inflight = mem.inflight
  /\ mem'.active \in {mem.active, job[p].lease}
  /\ mem'.handoff = mem.handoff /\ mem'.fault = mem.fault
  /\ ledger' = ledger \cup {job[p].lease} /\ MarkStays /\ SnapStays
Revokes(p) ==
  /\ mem'.active = IF mem.active = job[p].lease THEN NoLease ELSE mem.active
  /\ mem'.inflight = IF mem.inflight = job[p].lease THEN NoLease ELSE mem.inflight
  /\ mem'.releasing = mem.releasing /\ mem'.handoff = mem.handoff
  /\ MarkStays /\ SnapStays /\ FaultStays
  /\ ledger' \in {ledger, ledger \ {job[p].lease}}

(* Where a step leaves the job.                                            *)
Keeps(p) ==
  job'[p].lease = job[p].lease /\ job'[p].after = job[p].after /\ job'[p].view = job[p].view
Stops(p) == job'[p] = Idle
Latching(p) ==
  /\ Keeps(p)
  /\ \/ mem'.wal = NoWal /\ job'[p].pc = "l_save" /\ mem'.fault = Unmarked
     \/ mem'.wal # NoWal /\ job'[p].pc = "latch" /\ job'[p].held = mem'.wal
        /\ mem'.fault = mem.fault
Compensating(p) ==
  /\ Keeps(p) /\ job'[p].held = mem'.wal /\ mem'.fault = mem.fault
  /\ \/ mem'.wal # NoWal /\ job'[p].pc = "c_mark"
     \/ mem'.wal = NoWal /\ job'[p].pc = "c_arm"
     \/ mem'.wal = NoWal /\ job'[p].pc = "c_revoke" /\ ~job'[p].marked
Changing(p) ==
  (job[p].after = "publish" /\ Compensating(p)) \/ (job[p].after # "publish" /\ Latching(p))
Breaking(p) ==
  \/ job[p].after = "publish" /\ Keeps(p) /\ job'[p].pc = "b_revoke" /\ mem'.fault = mem.fault
  \/ job[p].after # "publish" /\ Latching(p)

-----------------------------------------------------------------------------
(* What the helpers the actions are built from do, field by field.         *)

Carries(m) ==
  /\ mem'.active = m.active /\ mem'.releasing = m.releasing /\ mem'.inflight = m.inflight
  /\ mem'.handoff = m.handoff /\ mem'.wal = m.wal
Lands(p, m) ==
  /\ Others(p) /\ Carries(m) /\ Captures(p) /\ SoundFault(mem'.fault)
  /\ mem'.rev = m.rev \/ mem'.rev = m.rev + 1
  /\ job'[p].snap = job[p].snap \/ SoundFault(job'[p].snap.fault)

(* What a snapshot is captured from.                                       *)
LEMMA PayloadDoes ==
  ASSUME NEW m \in Memory, NEW whole
  PROVE  /\ Payload(m, whole).rev = m.rev /\ Payload(m, whole).fault = m.fault
         /\ Named(Payload(m, whole)) = {m.active, m.releasing, m.inflight} \ {NoLease}
  BY DEF Payload, Named

LEMMA FieldsOf ==
  ASSUME TypeOK
  PROVE  /\ mem \in Memory /\ mem.rev \in Nat /\ mem.wal \in Wal /\ mem.fault \in Marker
         /\ \A w \in Wal : Now(w) \in Memory /\ Now(w).wal = w /\ Now(w).active = mem.active
              /\ Now(w).releasing = mem.releasing /\ Now(w).inflight = mem.inflight
              /\ Now(w).handoff = mem.handoff /\ Now(w).fault = mem.fault /\ Now(w).rev = mem.rev
         /\ \A p \in Proc : job[p] \in Job /\ job[p].held \in Wal /\ job[p].snap \in Snapshot
              /\ job[p].snap.rev \in Nat /\ job[p].lease \in LeaseOrNone
  BY DEF TypeOK, Memory, Now, Job, Snapshot

LEMMA BecomeDoes ==
  ASSUME TypeOK, NEW p \in Proc, NEW m, NEW j, Become(p, m, j)
  PROVE  Others(p) /\ job'[p] = j /\ mem' = m
  BY DEF TypeOK, Become, Others

LEMMA BumpDoes ==
  ASSUME NEW m \in Memory
  PROVE  /\ Bump(m) \in Memory /\ Bump(m).rev = m.rev + 1
         /\ Bump(m).active = m.active /\ Bump(m).releasing = m.releasing
         /\ Bump(m).inflight = m.inflight /\ Bump(m).handoff = m.handoff
         /\ Bump(m).wal = m.wal /\ Bump(m).fault = m.fault
         /\ Bump(m).rev \in Nat /\ m.rev \in Nat
  BY DEF Bump, Memory

LEMMA EndDoes ==
  ASSUME TypeOK, NEW p \in Proc, NEW m \in Memory, End(p, m)
  PROVE  /\ Others(p) /\ job'[p] = Idle /\ Carries(m)
         /\ mem'.rev = m.rev /\ mem'.fault = m.fault
<1>1. Others(p) /\ job'[p] = Idle /\ mem' = Unlock(p, m)
  BY BecomeDoes DEF End
<1> QED BY <1>1 DEF Unlock, Carries, Memory

LEMMA MoveDoes ==
  ASSUME TypeOK, NEW p \in Proc, NEW m \in Memory, NEW pc, Move(p, m, pc)
  PROVE  /\ Others(p) /\ mem' = m /\ Carries(m) /\ mem'.rev = m.rev /\ mem'.fault = m.fault
         /\ Keeps(p) /\ job'[p].pc = pc /\ job'[p].held = m.wal /\ job'[p].snap = job[p].snap
         /\ job'[p].marked = job[p].marked
<1>1. job[p] \in Job
  BY DEF TypeOK
<1>2. Others(p) /\ mem' = m /\ job'[p] = [job[p] EXCEPT !.pc = pc, !.held = m.wal]
  BY BecomeDoes DEF Move
<1> QED BY <1>1, <1>2 DEF Job, Keeps, Carries

LEMMA SaveNextDoes ==
  ASSUME TypeOK, NEW p \in Proc, NEW m \in Memory, NEW pc, SaveNext(p, m, pc)
  PROVE  /\ Others(p) /\ mem' = m /\ Carries(m) /\ mem'.rev = m.rev /\ mem'.fault = m.fault
         /\ Keeps(p) /\ job'[p].pc = pc /\ job'[p].held = job[p].held
         /\ job'[p].snap.rev = mem'.rev /\ Named(job'[p].snap) = MemNamed'
         /\ job'[p].snap.fault = mem'.fault
<1>1. job[p] \in Job
  BY DEF TypeOK
<1>2. Others(p) /\ mem' = m /\ job'[p] = [job[p] EXCEPT !.pc = pc, !.snap = Payload(m, TRUE)]
  BY BecomeDoes DEF SaveNext
<1>3. Keeps(p) /\ job'[p].pc = pc /\ job'[p].held = job[p].held /\ job'[p].snap = Payload(m, TRUE)
  BY <1>1, <1>2 DEF Job, Keeps
<1>4. /\ Payload(m, TRUE).rev = m.rev /\ Payload(m, TRUE).fault = m.fault
      /\ Named(Payload(m, TRUE)) = {m.active, m.releasing, m.inflight} \ {NoLease}
  BY PayloadDoes
<1> HIDE DEF Payload
<1> QED BY <1>2, <1>3, <1>4 DEF Carries, MemNamed

(* A fault is latched: it is the marker it was found at, or one that no    *)
(* snapshot may hold when there was none.                                  *)
LEMMA LatchedDoes ==
  ASSUME TypeOK, NEW p \in Proc, NEW m \in Memory, Latched(p, m), Sound(m.wal)
  PROVE  /\ Lands(p, m) /\ Keeps(p) /\ job'[p].pc = "l_save" /\ mem'.rev = m.rev + 1
         /\ mem'.fault = IF m.wal = NoWal THEN Unmarked ELSE Marks(m.wal)
         /\ mem'.fault # NoMarker
<1> DEFINE fault == IF m.wal = NoWal THEN Unmarked ELSE Marks(m.wal)
           n == [m EXCEPT !.fault = fault,
                          !.handoffFailed = @ \/ fault.op = "release",
                          !.grantFailed = @ \/ fault.op = "grant"]
<1>1. fault \in Marker /\ fault # NoMarker /\ fault.op # "none"
  BY Constant DEF Marks, Marker, Memory, Wal, Sound, NoWal, NoMarker, Unmarked
<1>2. SaveNext(p, Bump(n), "l_save")
  BY DEF Latched
<1> HIDE DEF fault
<1>3. /\ n \in Memory /\ n.active = m.active /\ n.releasing = m.releasing
      /\ n.inflight = m.inflight /\ n.handoff = m.handoff /\ n.wal = m.wal
      /\ n.fault = fault /\ n.rev = m.rev
  BY <1>1 DEF Memory
<1> HIDE DEF n
<1>4. Bump(n) \in Memory
  BY <1>3, BumpDoes
<1>5. /\ Others(p) /\ mem' = Bump(n) /\ mem'.rev = Bump(n).rev /\ mem'.fault = Bump(n).fault
      /\ Keeps(p) /\ job'[p].pc = "l_save"
      /\ job'[p].snap.rev = mem'.rev /\ Named(job'[p].snap) = MemNamed'
      /\ job'[p].snap.fault = mem'.fault
  BY <1>2, <1>4, SaveNextDoes
<1>6. Carries(m) /\ mem'.rev = m.rev + 1 /\ mem'.fault = fault
  BY <1>3, <1>5, BumpDoes DEF Carries
<1> QED BY <1>1, <1>5, <1>6 DEF fault, Lands, Captures, SoundFault

(* A fault is latched at once, or the marker is moved first.               *)
LEMMA LatchDoes ==
  ASSUME TypeOK, NEW p \in Proc, NEW m \in Memory, Latch(p, m), Sound(m.wal),
         m.fault = mem.fault, SoundFault(mem.fault)
  PROVE  Lands(p, m) /\ Latching(p)
<1>1. CASE m.wal = NoWal
  BY <1>1, LatchedDoes DEF Latch, Latching, Lands, Carries
<1>2. CASE m.wal # NoWal
  BY <1>2, MoveDoes DEF Latch, Latching, Lands, Carries, Captures, Saving
<1> QED BY <1>1, <1>2

(* A compensation begins with the marker, with arming one, or without it.  *)
LEMMA CompensateDoes ==
  ASSUME TypeOK, NEW p \in Proc, NEW m \in Memory, Compensate(p, m),
         m.fault = mem.fault, SoundFault(mem.fault)
  PROVE  Lands(p, m) /\ Compensating(p)
<1> DEFINE pc == IF m.wal # NoWal THEN "c_mark"
                 ELSE IF m.fault = NoMarker THEN "c_arm" ELSE "c_revoke"
           marked == m.wal # NoWal \/ m.fault = NoMarker
<1>1. job[p] \in Job
  BY DEF TypeOK
<1>2. Others(p) /\ mem' = m
      /\ job'[p] = [job[p] EXCEPT !.pc = pc, !.marked = marked, !.held = m.wal]
  BY BecomeDoes DEF Compensate
<1> HIDE DEF pc, marked
<1>3. /\ Keeps(p) /\ job'[p].snap = job[p].snap /\ job'[p].held = m.wal
      /\ job'[p].pc = pc /\ job'[p].marked = marked
  BY <1>1, <1>2 DEF Job, Keeps
<1> QED BY <1>2, <1>3 DEF Compensating, pc, marked, Lands, Carries, Captures, Saving

(* What follows a view that no longer holds, and I/O that failed.          *)
LEMMA ChangedDoes ==
  ASSUME TypeOK, NEW p \in Proc, NEW m \in Memory, Changed(p, m), Sound(m.wal),
         m.fault = mem.fault, SoundFault(mem.fault)
  PROVE  Lands(p, m) /\ Changing(p)
  BY LatchDoes, CompensateDoes DEF Changed, Changing

LEMMA BrokenDoes ==
  ASSUME TypeOK, NEW p \in Proc, Broken(p, mem), Sound(mem.wal), SoundFault(mem.fault)
  PROVE  Lands(p, mem) /\ Breaking(p)
<1>1. mem \in Memory
  BY FieldsOf
<1> QED BY <1>1, LatchDoes, MoveDoes DEF Broken, Breaking, Lands, Captures, Saving

(* The finish of a WAL begins, or there was none to finish.                *)
LEMMA FinishDoes ==
  ASSUME TypeOK, NEW p \in Proc, NEW m \in Memory, NEW after, Finish(p, m, after), Sound(m.wal),
         m.fault = mem.fault, SoundFault(mem.fault)
  PROVE  /\ Lands(p, m)
         /\ \/ m.wal = NoWal /\ Latching(p)
            \/ /\ m.wal # NoWal /\ job'[p].lease = job[p].lease /\ job'[p].after = after
               /\ job'[p].pc = "f_mark" /\ job'[p].held = mem'.wal
               /\ job'[p].view.fault = mem.fault /\ mem'.fault = mem.fault
<1>1. CASE m.wal = NoWal
  BY <1>1, LatchDoes DEF Finish
<1>2. CASE m.wal # NoWal
  <2>1. job[p] \in Job
    BY DEF TypeOK
  <2>2. Others(p) /\ mem' = m
      /\ job'[p] = [job[p] EXCEPT !.pc = "f_mark", !.after = after, !.held = m.wal,
                               !.view = View(m, m.wal.op), !.snap = Payload(m, TRUE)]
    BY <1>2, BecomeDoes DEF Finish
  <2>3. /\ job'[p].lease = job[p].lease /\ job'[p].after = after /\ job'[p].view = View(m, m.wal.op)
        /\ job'[p].snap = Payload(m, TRUE) /\ job'[p].held = m.wal /\ job'[p].pc = "f_mark"
    BY <2>1, <2>2 DEF Job
  <2>4. View(m, m.wal.op).fault = m.fault /\ Payload(m, TRUE).fault = m.fault
    BY DEF View, Payload
  <2> QED BY <1>2, <2>2, <2>3, <2>4 DEF Lands, Carries, Captures, Saving
<1> QED BY <1>1, <1>2

-----------------------------------------------------------------------------
(* What the I/O does to the disk.                                          *)

LEMMA SavedDoes ==
  ASSUME TypeOK, NEW p \in Proc, Saved(p) \/ NotSaved(p), job[p].pc \in Saving
  PROVE  Saves(p) /\ disk'.wal = disk.wal
<1>1. CASE Saved(p)
  BY <1>1, FieldsOf DEF TypeOK, Saved, Newer, Saves, SnapStays, Snapshot
<1>2. CASE NotSaved(p)
  BY <1>2 DEF NotSaved, Saves, SnapStays
<1> QED BY <1>1, <1>2

LEMMA MovedDoes ==
  ASSUME TypeOK, NEW p \in Proc, NEW w \in Wal, Moved(p, w)
  PROVE  /\ job[p].held # NoWal /\ disk.wal = job[p].held /\ disk'.wal = w /\ SnapStays
         /\ w = NoWal => disk.wal.state \in {"completed", "repaired"}
         /\ w.state \notin {"none", "fault"} /\ w.changed # disk.wal.changed =>
              disk.wal.state = "armed"
         /\ w.state = "completed" /\ w.changed = disk.wal.changed =>
              disk.wal.state \in {"armed", "completed"}
  BY DEF Moved, May, TypeOK, SnapStays

LEMMA ArmDiskDoes ==
  ASSUME TypeOK, NEW op \in {"grant", "release"}, NEW l, ArmDisk(op, l)
  PROVE  /\ disk.wal = NoWal /\ SnapStays /\ disk'.wal = ArmedWal(op, l)
         /\ disk'.wal.op = op /\ disk'.wal.lease = l /\ disk'.wal.state = "armed"
         /\ ~disk'.wal.changed /\ disk'.wal # NoWal
<1>1. disk.wal = NoWal /\ SnapStays /\ disk'.wal = ArmedWal(op, l)
  BY DEF ArmDisk, TypeOK, SnapStays
<1> QED BY <1>1 DEF ArmedWal, NoWal

-----------------------------------------------------------------------------
(* What each action does.                                                  *)

(* What every step of a busy thread or worker leaves to be shown.          *)
LEMMA StepsFrom ==
  ASSUME TypeOK, Core, NEW p \in Proc, Up, job[p].pc # "idle", UNCHANGED <<issued, boot>>,
         NEW m \in Memory, Lands(p, m),
         m.rev > mem.rev \/ (m.rev = mem.rev /\ m.active = mem.active
                             /\ m.releasing = mem.releasing /\ m.inflight = mem.inflight),
         Saves(p), WorkerRole(p)', ThreadRole(p)', SoundFault(job'[p].view.fault)
  PROVE  Steps(p)
<1>1. Shape(p) /\ mem.rev \in Nat /\ m.rev \in Nat
  BY FieldsOf DEF Core, Each, Memory
<1>2. mem.rev # 0
  BY <1>1 DEF Shape, Formed, Idle
<1>3. mem'.rev # 0 /\ (mem'.rev > mem.rev \/ (mem'.rev = mem.rev /\ MemNamed' = MemNamed))
  BY <1>1, <1>2 DEF Lands, Carries, MemNamed
<1>4. Shape(p)'
  BY <1>1, <1>3 DEF Lands, Shape, Formed
<1> QED BY <1>2, <1>3, <1>4 DEF Lands, Steps, Frame, Runs, Deaf

LEMMA Stopped ==
  ASSUME TypeOK, NEW p \in Proc, NEW m \in Memory, End(p, m), SoundFault(m.fault)
  PROVE  Lands(p, m) /\ Stops(p) /\ WorkerRole(p)' /\ ThreadRole(p)'
         /\ SoundFault(job'[p].view.fault) /\ mem'.fault = m.fault
<1>1. Others(p) /\ job'[p] = Idle /\ Carries(m) /\ mem'.rev = m.rev /\ mem'.fault = m.fault
  BY EndDoes
<1>2. /\ Idle.pc = "idle" /\ Idle.snap.fault = NoMarker /\ Idle.view.fault = NoMarker
      /\ Idle.after = "none"
  BY DEF Idle, NoSnapshot, View, Fresh
<1> QED BY <1>1, <1>2 DEF Lands, Stops, WorkerRole, ThreadRole, SoundFault, Captures, Saving, Fin

(* The roles are kept by whoever keeps its after and goes to one of these. *)
LEMMA RolesFrom ==
  ASSUME NEW p \in Proc, Shape(p), job'[p].after = job[p].after,
         \/ job'[p].pc \in {"latch", "l_save"}
         \/ p \in Thread /\ job'[p].pc \in Comp
         \/ job[p].pc \in Fin /\ job'[p].pc \in Fin \cup {"f_pending"}
  PROVE  WorkerRole(p)' /\ ThreadRole(p)'
  BY LeaseAssumption DEF Shape, WorkerRole, ThreadRole, Fin, Comp, Proc

(* A captured copy of the coordinator that differs from it in the marker.  *)
Like(m) ==
  /\ m \in Memory /\ Sound(m.wal) /\ m.fault = mem.fault /\ m.rev = mem.rev
  /\ m.active = mem.active /\ m.releasing = mem.releasing /\ m.inflight = mem.inflight
  /\ m.handoff = mem.handoff

LEMMA NowLike ==
  ASSUME TypeOK, NEW w \in Wal, Sound(w)
  PROVE  Like(Now(w)) /\ Now(w).wal = w
  BY FieldsOf DEF Like

LEMMA MemLike ==
  ASSUME TypeOK, Core
  PROVE  Like(mem)
  BY FieldsOf DEF Like, Core, Whole, Sounds

LEMMA LatchSteps ==
  ASSUME TypeOK, Core, NEW p \in Proc, Up, job[p].pc # "idle", UNCHANGED <<issued, boot>>,
         NEW m, Like(m), Latch(p, m), Saves(p)
  PROVE  Steps(p) /\ Latching(p) /\ Carries(m) /\ FaultStays
<1>1. Shape(p) /\ SoundFault(mem.fault)
  BY DEF Core, Whole, Each, Sounds
<1>2. Lands(p, m) /\ Latching(p)
  BY <1>1, LatchDoes DEF Like
<1>3. WorkerRole(p)' /\ ThreadRole(p)' /\ SoundFault(job'[p].view.fault)
  BY <1>1, <1>2, RolesFrom DEF Latching, Keeps, Shape, Formed
<1>4. FaultStays
  BY <1>2 DEF Latching, FaultStays, SoundFault, Unmarked, NoMarker
<1> QED BY <1>2, <1>3, <1>4, StepsFrom DEF Like, Lands

LEMMA ChangedSteps ==
  ASSUME TypeOK, Core, NEW p \in Proc, Up, job[p].pc \in Fin, UNCHANGED <<issued, boot>>,
         NEW m, Like(m), Changed(p, m), Saves(p)
  PROVE  Steps(p) /\ Changing(p) /\ Carries(m) /\ FaultStays
<1>1. Shape(p) /\ SoundFault(mem.fault) /\ job[p].pc # "idle"
  BY DEF Core, Whole, Each, Sounds, Fin
<1>2. CASE job[p].after = "publish" /\ Compensate(p, m)
  <2>1. Lands(p, m) /\ Compensating(p)
    BY <1>1, <1>2, CompensateDoes DEF Like
  <2>2. p \in Thread /\ job'[p].pc \in Comp
    BY <1>1, <1>2, <2>1 DEF Shape, WorkerRole, Proc, Compensating, Comp
  <2>3. WorkerRole(p)' /\ ThreadRole(p)' /\ SoundFault(job'[p].view.fault)
    BY <1>1, <2>1, <2>2, RolesFrom DEF Compensating, Keeps, Shape, Formed
  <2> QED BY <1>1, <1>2, <2>1, <2>3, StepsFrom DEF Like, Lands, Changing, Compensating, FaultStays
<1>3. CASE job[p].after # "publish" /\ Latch(p, m)
  BY <1>1, <1>3, LatchSteps DEF Changing
<1> QED BY <1>2, <1>3 DEF Changed

LEMMA BrokenSteps ==
  ASSUME TypeOK, Core, NEW p \in Proc, Up, job[p].pc \in Fin, UNCHANGED <<issued, boot, ledger>>,
         Broken(p, mem), UNCHANGED disk
  PROVE  Steps(p) /\ Breaking(p) /\ Waits /\ SnapStays
<1>1. Shape(p) /\ SoundFault(mem.fault) /\ job[p].pc # "idle" /\ Like(mem) /\ Saves(p)
  BY MemLike DEF Core, Whole, Each, Sounds, Fin, Saves, SnapStays
<1>2. Carries(mem) /\ FaultStays => Waits /\ SnapStays
  BY DEF Carries, Waits, LeaseStays, MarkStays, LedgerStays, SnapStays
<1>3. CASE job[p].after = "publish" /\ Move(p, mem, "b_revoke")
  <2>1. /\ Lands(p, mem) /\ Keeps(p) /\ job'[p].pc = "b_revoke" /\ mem'.fault = mem.fault
    BY <1>1, <1>3, MoveDoes DEF Like, Lands, Captures, Saving
  <2>2. p \in Thread /\ job'[p].pc \in Comp
    BY <1>1, <1>3, <2>1 DEF Shape, WorkerRole, Proc, Comp
  <2>3. WorkerRole(p)' /\ ThreadRole(p)' /\ SoundFault(job'[p].view.fault)
    BY <1>1, <2>1, <2>2, RolesFrom DEF Keeps, Shape, Formed
  <2> QED BY <1>1, <1>2, <1>3, <2>1, <2>3, StepsFrom DEF Like, Lands, Breaking, FaultStays
<1>4. CASE job[p].after # "publish" /\ Latch(p, mem)
  BY <1>1, <1>2, <1>4, LatchSteps DEF Breaking
<1> QED BY <1>3, <1>4 DEF Broken

(* A step within the finish of a WAL.                                      *)
LEMMA FinSteps ==
  ASSUME TypeOK, Core, NEW p \in Proc, Up, job[p].pc \in Fin, UNCHANGED <<issued, boot>>,
         NEW m, Like(m), NEW pc \in Fin \cup {"f_pending"},
         SaveNext(p, m, pc) \/ (pc \notin Saving /\ Move(p, m, pc)), Saves(p)
  PROVE  /\ Steps(p) /\ Keeps(p) /\ job'[p].pc = pc /\ Carries(m) /\ mem'.rev = mem.rev
         /\ mem'.fault = mem.fault /\ (Move(p, m, pc) => job'[p].held = m.wal)
<1>1. Shape(p) /\ SoundFault(mem.fault) /\ job[p].pc # "idle" /\ m \in Memory
  BY DEF Core, Whole, Each, Sounds, Fin, Like
<1>2. /\ Lands(p, m) /\ Keeps(p) /\ job'[p].pc = pc /\ mem'.rev = m.rev /\ mem'.fault = m.fault
      /\ Move(p, m, pc) => job'[p].held = m.wal
  BY <1>1, SaveNextDoes, MoveDoes DEF Like, Lands, Captures
<1>3. WorkerRole(p)' /\ ThreadRole(p)' /\ SoundFault(job'[p].view.fault)
  BY <1>1, <1>2, RolesFrom DEF Keeps, Shape, Formed
<1> QED BY <1>1, <1>2, <1>3, StepsFrom DEF Like, Lands

(* What the marker looks like before and after it is moved.                *)
LEMMA MarkMoves ==
  ASSUME TypeOK, Core, NEW p \in Proc, NEW w \in Wal, Alike(w, job[p].held), w.state # "none",
         Moved(p, w), LedgerStays
  PROVE  /\ Sound(w) /\ w # NoWal /\ SnapStays /\ Saves(p)
         /\ disk'.wal = w /\ disk.wal = job[p].held
         /\ w.state = "completed" /\ w.changed = disk.wal.changed =>
              disk.wal.state \in {"armed", "completed"}
         /\ w.state # "fault" /\ w.changed # disk.wal.changed => disk.wal.state = "armed"
         /\ Carries(Now(w)) /\ FaultStays => Moves(p)
<1>1. /\ job[p].held # NoWal /\ disk.wal = job[p].held /\ disk'.wal = w /\ SnapStays
      /\ w.state \notin {"none", "fault"} /\ w.changed # disk.wal.changed =>
           disk.wal.state = "armed"
      /\ w.state = "completed" /\ w.changed = disk.wal.changed =>
           disk.wal.state \in {"armed", "completed"}
  BY MovedDoes
<1>2. w.op # "none"
  BY <1>1 DEF Core, Whole, Sounds, Sound, Alike
<1>3. Sound(w) /\ w # NoWal
  BY <1>2 DEF Sound, NoWal
<1>4. Now(w).active = mem.active /\ Now(w).releasing = mem.releasing /\ Now(w).wal = w
      /\ Now(w).inflight = mem.inflight /\ Now(w).handoff = mem.handoff
  BY FieldsOf
<1> QED BY <1>1, <1>3, <1>4 DEF Moves, LeaseStays, Carries, Saves

FinishMarkEffect(p) ==
  \/ /\ Moves(p) /\ disk'.wal.state = disk.wal.state /\ disk'.wal.changed = disk.wal.changed
     /\ \/ /\ Keeps(p) /\ job'[p].pc = "f_snap" /\ mem'.fault = mem.fault
           /\ job[p].after = "publish" => mem'.rev = job'[p].view.rev
        \/ Changing(p)
  \/ Waits /\ SnapStays /\ Breaking(p)

LEMMA FinishMarkDoes ==
  ASSUME TypeOK, Core, NEW p \in Proc, FinishMark(p)
  PROVE  job[p].pc = "f_mark" /\ Steps(p) /\ FinishMarkEffect(p)
<1> DEFINE w == Expecting(p)
<1>1. /\ Up /\ job[p].pc = "f_mark" /\ job[p].pc \in Fin
      /\ UNCHANGED <<issued, boot>> /\ UNCHANGED <<issued, boot, ledger>> /\ LedgerStays
  BY DEF FinishMark, At, Fin, LedgerStays
<1>2. /\ w \in Wal /\ Alike(w, job[p].held) /\ w.state = job[p].held.state
      /\ w.changed = job[p].held.changed
  BY FieldsOf DEF Expecting, Wal, Alike, Snapshot
<1> HIDE DEF w
<1>3. CASE Moved(p, w) /\ IF Same(p) THEN SaveNext(p, Now(w), "f_snap") ELSE Changed(p, Now(w))
  <2>1. w.state # "none"
    BY <1>2, <1>3, MovedDoes DEF Core, Whole, Sounds, Sound
  <2>2. Sound(w) /\ SnapStays /\ Saves(p) /\ disk'.wal = w /\ disk.wal = job[p].held
        /\ (Carries(Now(w)) /\ FaultStays => Moves(p))
    BY <1>1, <1>2, <1>3, <2>1, MarkMoves
  <2>3. Like(Now(w))
    BY <1>2, <2>2, NowLike
  <2>4. CASE Same(p) /\ SaveNext(p, Now(w), "f_snap")
    <3>1. job[p].after = "publish" => mem.rev = job[p].view.rev
      BY <2>4 DEF Same, View
    <3>2. Steps(p) /\ Keeps(p) /\ job'[p].pc = "f_snap" /\ Carries(Now(w)) /\ mem'.rev = mem.rev
          /\ mem'.fault = mem.fault
      BY <1>1, <2>2, <2>3, <2>4, FinSteps DEF Fin
    <3> QED BY <1>1, <1>2, <2>2, <3>1, <3>2 DEF FinishMarkEffect, FaultStays, Keeps
  <2>5. CASE Changed(p, Now(w))
    BY <1>1, <1>2, <2>2, <2>3, <2>5, ChangedSteps DEF FinishMarkEffect
  <2> QED BY <1>3, <2>4, <2>5
<1>4. CASE NotMoved(p, w) /\ Broken(p, mem)
  BY <1>1, <1>4, BrokenSteps DEF FinishMarkEffect, NotMoved
<1> QED BY <1>3, <1>4 DEF FinishMark, w

FinishSnapshotEffect(p) ==
  Waits /\ \/ Keeps(p) /\ job'[p].pc = "f_done" /\ job'[p].held = mem'.wal /\ mem'.fault = mem.fault
              /\ (job[p].after = "publish" => mem.rev = job[p].view.rev)
              /\ disk'.snap = Newer(disk.snap, job[p].snap)
           \/ Changing(p)
           \/ SnapStays /\ Breaking(p)

LEMMA FinishSnapshotDoes ==
  ASSUME TypeOK, Core, NEW p \in Proc, FinishSnapshot(p)
  PROVE  job[p].pc = "f_snap" /\ Steps(p) /\ FinishSnapshotEffect(p)
<1>1. /\ Up /\ job[p].pc = "f_snap" /\ job[p].pc \in Fin /\ job[p].pc \in Saving /\ Like(mem)
      /\ UNCHANGED <<issued, boot>> /\ UNCHANGED <<issued, boot, ledger>> /\ LedgerStays
  BY MemLike DEF FinishSnapshot, At, Fin, Saving, LedgerStays
<1>2. CASE Saved(p) /\ IF Same(p) THEN Move(p, mem, "f_done") ELSE Changed(p, mem)
  <2>1. Saves(p) /\ disk'.wal = disk.wal /\ disk'.snap = Newer(disk.snap, job[p].snap)
    BY <1>1, <1>2, SavedDoes DEF Saved, TypeOK
  <2>2. Carries(mem) /\ FaultStays => Waits
    BY <1>1, <2>1 DEF Carries, Waits, LeaseStays, MarkStays
  <2>3. CASE Same(p) /\ Move(p, mem, "f_done")
    <3>1. job[p].after = "publish" => mem.rev = job[p].view.rev
      BY <2>3 DEF Same, View
    <3>2. Steps(p) /\ Keeps(p) /\ job'[p].pc = "f_done" /\ Carries(mem)
          /\ mem'.fault = mem.fault /\ job'[p].held = mem.wal
      BY <1>1, <2>1, <2>3, FinSteps DEF Fin, Saving
    <3> QED BY <1>1, <2>1, <2>2, <3>1, <3>2
            DEF FinishSnapshotEffect, FaultStays, Keeps, Carries
  <2>4. CASE Changed(p, mem)
    BY <1>1, <2>1, <2>2, <2>4, ChangedSteps DEF FinishSnapshotEffect
  <2> QED BY <1>2, <2>3, <2>4
<1>3. CASE NotSaved(p) /\ Broken(p, mem)
  BY <1>1, <1>3, BrokenSteps DEF FinishSnapshotEffect, NotSaved
<1> QED BY <1>2, <1>3 DEF FinishSnapshot

FinishCompletedEffect(p) ==
  \/ /\ Moves(p) /\ disk'.wal.state = "completed" /\ disk'.wal.changed = disk.wal.changed
     /\ disk.wal.state \in {"armed", "completed"}
     /\ \/ /\ Keeps(p) /\ job'[p].pc = "f_clear" /\ job'[p].held = mem'.wal
           /\ mem'.fault = mem.fault
        \/ Changing(p)
  \/ Waits /\ SnapStays /\ Breaking(p)

LEMMA FinishCompletedDoes ==
  ASSUME TypeOK, Core, NEW p \in Proc, FinishCompleted(p)
  PROVE  job[p].pc = "f_done" /\ Steps(p) /\ FinishCompletedEffect(p)
<1> DEFINE w == [job[p].held EXCEPT !.state = "completed"]
<1>1. /\ Up /\ job[p].pc = "f_done" /\ job[p].pc \in Fin
      /\ UNCHANGED <<issued, boot>> /\ UNCHANGED <<issued, boot, ledger>> /\ LedgerStays
  BY DEF FinishCompleted, At, Fin, LedgerStays
<1>2. w \in Wal /\ Alike(w, job[p].held) /\ w.state = "completed" /\ w.changed = job[p].held.changed
  BY FieldsOf DEF Wal, Alike
<1> HIDE DEF w
<1>3. CASE Moved(p, w) /\ IF Same(p) THEN Move(p, Now(w), "f_clear") ELSE Changed(p, Now(w))
  <2>2. Sound(w) /\ SnapStays /\ Saves(p) /\ disk'.wal = w /\ disk.wal = job[p].held
        /\ (Carries(Now(w)) /\ FaultStays => Moves(p))
        /\ disk.wal.state \in {"armed", "completed"}
    BY <1>1, <1>2, <1>3, MarkMoves
  <2>3. Like(Now(w)) /\ Now(w).wal = w
    BY <1>2, <2>2, NowLike
  <2>4. CASE Same(p) /\ Move(p, Now(w), "f_clear")
    <3>2. Steps(p) /\ Keeps(p) /\ job'[p].pc = "f_clear" /\ Carries(Now(w))
          /\ mem'.fault = mem.fault /\ job'[p].held = w
      BY <1>1, <2>2, <2>3, <2>4, FinSteps DEF Fin, Saving
    <3> QED BY <1>1, <1>2, <2>2, <2>3, <3>2 DEF FinishCompletedEffect, FaultStays, Carries
  <2>5. CASE Changed(p, Now(w))
    BY <1>1, <1>2, <2>2, <2>3, <2>5, ChangedSteps DEF FinishCompletedEffect
  <2> QED BY <1>3, <2>4, <2>5
<1>4. CASE NotMoved(p, w) /\ Broken(p, mem)
  BY <1>1, <1>4, BrokenSteps DEF FinishCompletedEffect, NotMoved
<1> QED BY <1>3, <1>4 DEF FinishCompleted, w

FinishClearEffect(p) ==
  \/ /\ Clears(p)
     /\ \/ /\ job[p].after = "publish" /\ Stops(p)
           /\ mem'.inflight = NoLease /\ mem'.handoff = mem.handoff /\ mem'.fault = mem.fault
        \/ /\ job[p].after = "undo" /\ Stops(p)
           /\ mem'.inflight = mem.inflight /\ mem'.handoff = mem.handoff /\ mem'.fault = mem.fault
        \/ /\ job[p].after = "handoff" /\ Keeps(p) /\ job'[p].pc = "w_save"
           /\ mem'.inflight = mem.inflight /\ mem'.fault = mem.fault
        \/ Changing(p) /\ mem'.inflight = mem.inflight /\ mem'.handoff = mem.handoff
  \/ /\ Waits /\ SnapStays
     /\ \/ Keeps(p) /\ job'[p].pc = "f_pending" /\ mem'.fault # NoMarker
        \/ Changing(p)

LEMMA FinishClearDoes ==
  ASSUME TypeOK, Core, NEW p \in Proc, FinishClear(p)
  PROVE  job[p].pc = "f_clear" /\ Steps(p) /\ FinishClearEffect(p)
<1>1. /\ Up /\ job[p].pc = "f_clear" /\ job[p].pc \in Fin /\ job[p].pc # "idle" /\ Like(mem)
      /\ UNCHANGED <<issued, boot>> /\ LedgerStays /\ Shape(p)
      /\ SoundFault(mem.fault) /\ Sound(mem.wal)
  BY MemLike DEF FinishClear, At, Fin, LedgerStays, Core, Each, Whole, Sounds
<1>2. CASE Moved(p, NoWal) /\ IF Same(p) THEN Settle(p, Now(NoWal)) ELSE Changed(p, Now(NoWal))
  <2> DEFINE m == Now(NoWal)
  <2>1. /\ job[p].held # NoWal /\ disk.wal = job[p].held /\ disk'.wal = NoWal /\ SnapStays
        /\ disk.wal.state \in {"completed", "repaired"}
    BY <1>2, MovedDoes, Constant
  <2>3. Like(m) /\ m.wal = NoWal /\ Saves(p) /\ m \in Memory
    BY <2>1, NowLike, Constant DEF Sound, Like, Saves
  <2>4. /\ mem'.active = mem.active /\ mem'.releasing = mem.releasing /\ mem'.wal = NoWal
        /\ FaultStays
        => Clears(p)
    BY <1>1, <2>1 DEF Clears
  <2> HIDE DEF m
  <2>5. CASE job[p].after = "publish" /\ End(p, Bump([m EXCEPT !.inflight = NoLease]))
    <3> DEFINE n == [m EXCEPT !.inflight = NoLease]
    <3>1. /\ n \in Memory /\ n.active = m.active /\ n.releasing = m.releasing
          /\ n.inflight = NoLease /\ n.wal = m.wal /\ n.handoff = m.handoff
          /\ n.fault = m.fault /\ n.rev = m.rev
      BY <2>3 DEF Memory, LeaseOrNone
    <3> HIDE DEF n
    <3>2. /\ Bump(n) \in Memory /\ Bump(n).active = m.active /\ Bump(n).releasing = m.releasing
          /\ Bump(n).inflight = NoLease /\ Bump(n).wal = m.wal /\ Bump(n).handoff = m.handoff
          /\ Bump(n).fault = m.fault /\ Bump(n).rev > mem.rev
      BY <2>3, <3>1, BumpDoes, FieldsOf DEF Like
    <3>3. /\ Lands(p, Bump(n)) /\ Stops(p) /\ WorkerRole(p)' /\ ThreadRole(p)'
          /\ SoundFault(job'[p].view.fault) /\ mem'.fault = mem.fault
      BY <1>1, <2>3, <2>5, <3>2, Stopped DEF n, Like
    <3>4. Steps(p)
      BY <1>1, <2>3, <3>2, <3>3, StepsFrom
    <3> QED BY <1>1, <2>3, <2>4, <2>5, <3>2, <3>3, <3>4
            DEF FinishClearEffect, Lands, Carries, Like, FaultStays
  <2>6. CASE job[p].after = "undo" /\ End(p, m)
    <3>1. /\ Lands(p, m) /\ Stops(p) /\ WorkerRole(p)' /\ ThreadRole(p)'
          /\ SoundFault(job'[p].view.fault) /\ mem'.fault = mem.fault
      BY <1>1, <2>3, <2>6, Stopped DEF Like
    <3>2. Steps(p)
      BY <1>1, <2>3, <3>1, StepsFrom DEF Like
    <3> QED BY <1>1, <2>3, <2>4, <2>6, <3>1, <3>2
            DEF FinishClearEffect, Lands, Carries, Like, FaultStays
  <2>7. CASE job[p].after = "handoff" /\ SaveNext(p, Bump([m EXCEPT !.handoff = FALSE]), "w_save")
    <3> DEFINE n == [m EXCEPT !.handoff = FALSE]
    <3>1. /\ n \in Memory /\ n.active = m.active /\ n.releasing = m.releasing
          /\ n.inflight = m.inflight /\ n.wal = m.wal
          /\ n.fault = m.fault /\ n.rev = m.rev
      BY <2>3 DEF Memory
    <3> HIDE DEF n
    <3>2. /\ Bump(n) \in Memory /\ Bump(n).active = m.active /\ Bump(n).releasing = m.releasing
          /\ Bump(n).inflight = m.inflight /\ Bump(n).wal = m.wal
          /\ Bump(n).fault = m.fault /\ Bump(n).rev > mem.rev
      BY <2>3, <3>1, BumpDoes, FieldsOf DEF Like
    <3>3. /\ Lands(p, Bump(n)) /\ Keeps(p) /\ job'[p].pc = "w_save" /\ mem'.fault = mem.fault
      BY <1>1, <2>3, <2>7, <3>2, SaveNextDoes DEF n, Like, Lands, Captures
    <3>4. WorkerRole(p)' /\ ThreadRole(p)' /\ SoundFault(job'[p].view.fault)
      BY <1>1, <2>7, <3>3, LeaseAssumption
         DEF Keeps, Shape, WorkerRole, ThreadRole, Formed, Fin, Proc
    <3>5. Steps(p)
      BY <1>1, <2>3, <3>2, <3>3, <3>4, StepsFrom
    <3> QED BY <1>1, <2>3, <2>4, <2>7, <3>2, <3>3, <3>5
            DEF FinishClearEffect, Lands, Carries, Like, FaultStays
  <2>8. CASE Changed(p, m)
    <3>1. Steps(p) /\ Changing(p) /\ Carries(m) /\ FaultStays
      BY <1>1, <2>3, <2>8, ChangedSteps
    <3> QED BY <1>1, <2>3, <2>4, <3>1 DEF FinishClearEffect, Carries, Like
  <2> QED BY <1>2, <2>5, <2>6, <2>7, <2>8 DEF m, Settle
<1>3. CASE UNCHANGED disk
           /\ IF Same(p)
              THEN SaveNext(p, Bump([mem EXCEPT !.fault = Marks(mem.wal), !.grantFailed = TRUE]),
                            "f_pending")
              ELSE Changed(p, mem)
  <2>1. Saves(p) /\ SnapStays /\ (Carries(mem) /\ FaultStays => Waits)
    BY <1>1, <1>3 DEF Saves, SnapStays, Carries, Waits, LeaseStays, MarkStays
  <2>2. CASE Same(p) /\ SaveNext(p, Bump([mem EXCEPT !.fault = Marks(mem.wal),
                                                     !.grantFailed = TRUE]), "f_pending")
    <3> DEFINE f == Marks(mem.wal)
               n == [mem EXCEPT !.fault = f, !.grantFailed = TRUE]
    <3>0. f \in Marker
      BY FieldsOf DEF Marks, Marker, Wal
    <3>a. mem.wal # NoWal => f # NoMarker /\ SoundFault(f)
      BY <1>1 DEF Sound, SoundFault, Marks, NoMarker
    <3>b. mem.wal # NoWal
      BY <1>1 DEF Core, Each, Where, CPub, CUndo, CEnd, Holds, Mine, InEnd, Shape, WorkerRole,
                  ThreadRole, Proc, Fin, NoWal
    <3> HIDE DEF f
    <3>1. /\ n \in Memory /\ n.active = mem.active /\ n.releasing = mem.releasing
          /\ n.inflight = mem.inflight /\ n.wal = mem.wal /\ n.handoff = mem.handoff
          /\ n.fault = f /\ n.rev = mem.rev
      BY <3>0, FieldsOf DEF Memory
    <3> HIDE DEF n
    <3>2. /\ Bump(n) \in Memory /\ Bump(n).active = mem.active
          /\ Bump(n).releasing = mem.releasing /\ Bump(n).inflight = mem.inflight
          /\ Bump(n).wal = mem.wal /\ Bump(n).handoff = mem.handoff
          /\ Bump(n).fault = f /\ Bump(n).rev > mem.rev
      BY <3>1, BumpDoes, FieldsOf
    <3>3. /\ Lands(p, Bump(n)) /\ Keeps(p) /\ job'[p].pc = "f_pending" /\ mem'.fault = f
      BY <2>2, <3>2, <3>a, <3>b, SaveNextDoes DEF n, f, Lands, Captures
    <3>4. WorkerRole(p)' /\ ThreadRole(p)' /\ SoundFault(job'[p].view.fault)
      BY <1>1, <3>3, RolesFrom DEF Keeps, Shape, Formed
    <3>5. Steps(p)
      BY <1>1, <2>1, <3>2, <3>3, <3>4, StepsFrom
    <3> QED BY <1>1, <2>1, <3>a, <3>b, <3>2, <3>3, <3>5
            DEF FinishClearEffect, Lands, Carries, FaultStays, Waits, LeaseStays, MarkStays
  <2>3. CASE Changed(p, mem)
    BY <1>1, <2>1, <2>3, ChangedSteps DEF FinishClearEffect
  <2> QED BY <1>3, <2>2, <2>3
<1> QED BY <1>2, <1>3 DEF FinishClear, NotMoved

LEMMA EndSteps ==
  ASSUME TypeOK, Core, NEW p \in Proc, Up, job[p].pc # "idle", UNCHANGED <<issued, boot>>,
         NEW m \in Memory, SoundFault(m.fault), End(p, m), Saves(p),
         m.rev > mem.rev \/ (m.rev = mem.rev /\ m.active = mem.active
                             /\ m.releasing = mem.releasing /\ m.inflight = mem.inflight)
  PROVE  Steps(p) /\ Stops(p) /\ Carries(m) /\ mem'.fault = m.fault
<1>1. /\ Lands(p, m) /\ Stops(p) /\ WorkerRole(p)' /\ ThreadRole(p)'
      /\ SoundFault(job'[p].view.fault) /\ mem'.fault = m.fault
  BY Stopped
<1> QED BY <1>1, StepsFrom DEF Lands

(* The step changes nothing but its job, its snapshot and perhaps a flag.  *)
LEMMA WaitsFrom ==
  ASSUME Carries(mem), FaultStays, LedgerStays, disk'.wal = disk.wal
  PROVE  Waits
  BY DEF Carries, Waits, LeaseStays, MarkStays

ClearPendingEffect(p) ==
  Waits /\ \/ job[p].after = "undo" /\ Latching(p)
           \/ job[p].after # "undo" /\ Stops(p)

LEMMA ClearPendingDoes ==
  ASSUME TypeOK, Core, NEW p \in Proc, ClearPending(p)
  PROVE  job[p].pc = "f_pending" /\ Steps(p) /\ ClearPendingEffect(p)
<1>1. /\ Up /\ job[p].pc = "f_pending" /\ job[p].pc # "idle" /\ job[p].pc \in Saving /\ Like(mem)
      /\ UNCHANGED <<issued, boot>> /\ LedgerStays /\ SoundFault(mem.fault) /\ mem \in Memory
  BY MemLike DEF ClearPending, At, Saving, LedgerStays, Core, Whole, Sounds, Like
<1>2. Saves(p) /\ disk'.wal = disk.wal
  BY <1>1, SavedDoes DEF ClearPending
<1>3. CASE job[p].after = "undo" /\ Latch(p, mem)
  BY <1>1, <1>2, <1>3, LatchSteps, WaitsFrom DEF ClearPendingEffect
<1>4. CASE job[p].after # "undo" /\ End(p, mem)
  BY <1>1, <1>2, <1>4, EndSteps, WaitsFrom DEF ClearPendingEffect, FaultStays
<1> QED BY <1>3, <1>4 DEF ClearPending

(* A compensation that has or has not reached the marker.                  *)
Unmarks(p) == Keeps(p) /\ job'[p].pc = "c_revoke" /\ ~job'[p].marked /\ mem'.fault = mem.fault

LEMMA UnmarkSteps ==
  ASSUME TypeOK, Core, NEW p \in Proc, Up, job[p].pc \in Comp, UNCHANGED <<issued, boot>>,
         Become(p, mem, [job[p] EXCEPT !.pc = "c_revoke", !.marked = FALSE]),
         UNCHANGED disk, LedgerStays
  PROVE  Steps(p) /\ Waits /\ SnapStays /\ Unmarks(p)
<1>1. Shape(p) /\ SoundFault(mem.fault) /\ job[p].pc # "idle" /\ job[p] \in Job /\ mem \in Memory
  BY FieldsOf DEF Core, Whole, Each, Sounds, Comp
<1>2. Others(p) /\ mem' = mem /\ job'[p] = [job[p] EXCEPT !.pc = "c_revoke", !.marked = FALSE]
  BY BecomeDoes
<1>3. Unmarks(p) /\ job'[p].snap = job[p].snap
  BY <1>1, <1>2 DEF Job, Unmarks, Keeps
<1>4. Lands(p, mem)
  BY <1>1, <1>2, <1>3 DEF Unmarks, Lands, Carries, Captures, Saving
<1>5. WorkerRole(p)' /\ ThreadRole(p)' /\ SoundFault(job'[p].view.fault)
  BY <1>1, <1>3 DEF Unmarks, Keeps, Shape, Formed, WorkerRole, ThreadRole, Fin, Comp
<1>6. Saves(p) /\ SnapStays
  BY DEF Saves, SnapStays
<1>7. Steps(p)
  BY <1>1, <1>4, <1>5, <1>6, StepsFrom
<1> QED BY <1>3, <1>4, <1>6, <1>7, WaitsFrom DEF Lands, Unmarks, FaultStays

ArmCompensationEffect(p) ==
  \/ /\ Arms(p, "grant") /\ LeaseStays /\ Keeps(p)
     /\ job'[p].pc = "c_mark" /\ job'[p].held = mem'.wal
  \/ Waits /\ SnapStays /\ Unmarks(p)

LEMMA ArmedDoes ==
  ASSUME TypeOK, NEW l \in LeaseOrNone, NEW op \in {"grant", "release"}
  PROVE  Like(Armed(op, l)) /\ Armed(op, l).wal = ArmedWal(op, l)
<1>1. ArmedWal(op, l) \in Wal /\ Sound(ArmedWal(op, l))
  BY DEF ArmedWal, Wal, Sound
<1> QED BY <1>1, NowLike DEF Armed, Now

LEMMA ArmCompensationDoes ==
  ASSUME TypeOK, Core, NEW p \in Proc, ArmCompensation(p)
  PROVE  job[p].pc = "c_arm" /\ Steps(p) /\ ArmCompensationEffect(p)
<1>1. /\ Up /\ job[p].pc = "c_arm" /\ job[p].pc \in Comp /\ job[p].pc # "idle"
      /\ UNCHANGED <<issued, boot>> /\ LedgerStays /\ Shape(p) /\ SoundFault(mem.fault)
      /\ job[p].lease \in LeaseOrNone
  BY FieldsOf DEF ArmCompensation, At, Comp, LedgerStays, Core, Each, Whole, Sounds
<1>2. CASE ArmDisk("grant", job[p].lease) /\ Move(p, Armed("grant", job[p].lease), "c_mark")
  <2> DEFINE m == Armed("grant", job[p].lease)
  <2>1. /\ disk.wal = NoWal /\ SnapStays /\ disk'.wal = m.wal
        /\ disk'.wal.op = "grant" /\ disk'.wal.lease = job[p].lease /\ disk'.wal.state = "armed"
        /\ ~disk'.wal.changed /\ disk'.wal # NoWal /\ Like(m)
    BY <1>1, <1>2, ArmDiskDoes, ArmedDoes
  <2> HIDE DEF m
  <2>2. /\ Lands(p, m) /\ Keeps(p) /\ job'[p].pc = "c_mark" /\ job'[p].held = mem'.wal
        /\ mem'.fault = mem.fault
    BY <1>1, <1>2, <2>1, MoveDoes DEF m, Like, Lands, Captures, Saving, Carries
  <2>3. WorkerRole(p)' /\ ThreadRole(p)' /\ SoundFault(job'[p].view.fault)
    BY <1>1, <2>2 DEF Keeps, Shape, Formed, WorkerRole, ThreadRole, Fin
  <2>4. Steps(p)
    BY <1>1, <2>1, <2>2, <2>3, StepsFrom DEF Like, Saves
  <2> QED BY <1>1, <2>1, <2>2, <2>4
          DEF ArmCompensationEffect, Arms, LeaseStays, Like, Lands, Carries
<1>3. CASE UNCHANGED disk /\ Become(p, mem, [job[p] EXCEPT !.pc = "c_revoke", !.marked = FALSE])
  BY <1>1, <1>3, UnmarkSteps DEF ArmCompensationEffect
<1> QED BY <1>2, <1>3 DEF ArmCompensation, ArmFails

MarkCompensationEffect(p) ==
  \/ /\ Moves(p) /\ disk'.wal.state = disk.wal.state /\ mem'.fault = mem.fault
     /\ ~disk.wal.changed => disk.wal.state = "armed"
     /\ Keeps(p) /\ job'[p].pc = "c_revoke"
  \/ Waits /\ SnapStays /\ Unmarks(p)

LEMMA MarkCompensationDoes ==
  ASSUME TypeOK, Core, NEW p \in Proc, MarkCompensation(p)
  PROVE  job[p].pc = "c_mark" /\ Steps(p) /\ MarkCompensationEffect(p)
<1> DEFINE w == [job[p].held EXCEPT !.changed = TRUE]
<1>1. /\ Up /\ job[p].pc = "c_mark" /\ job[p].pc \in Comp /\ job[p].pc # "idle"
      /\ UNCHANGED <<issued, boot>> /\ LedgerStays /\ Shape(p) /\ SoundFault(mem.fault)
      /\ CMark(p)
  BY DEF MarkCompensation, At, Comp, LedgerStays, Core, Each, Whole, Sounds, Where
<1>2. w \in Wal /\ Alike(w, job[p].held) /\ w.changed /\ w.state = job[p].held.state
  BY FieldsOf, ZenonT(40) DEF Wal, Alike
<1> HIDE DEF w
<1>3. CASE Moved(p, w) /\ Move(p, Now(w), "c_revoke")
  <2>1. w.state \notin {"none", "fault"}
    BY <1>1, <1>2 DEF CMark, Holds
  <2>2. Sound(w) /\ SnapStays /\ Saves(p) /\ disk'.wal = w /\ disk.wal = job[p].held
        /\ (Carries(Now(w)) /\ FaultStays => Moves(p))
        /\ (w.changed # disk.wal.changed => disk.wal.state = "armed")
    BY <1>1, <1>2, <1>3, <2>1, MarkMoves
  <2>3. Like(Now(w))
    BY <1>2, <2>2, NowLike
  <2>4. /\ Lands(p, Now(w)) /\ Keeps(p) /\ job'[p].pc = "c_revoke" /\ mem'.fault = mem.fault
    BY <1>1, <1>3, <2>3, MoveDoes DEF Like, Lands, Captures, Saving
  <2>5. WorkerRole(p)' /\ ThreadRole(p)' /\ SoundFault(job'[p].view.fault)
    BY <1>1, <2>4 DEF Keeps, Shape, Formed, WorkerRole, ThreadRole, Fin
  <2>6. Steps(p)
    BY <1>1, <2>2, <2>3, <2>4, <2>5, StepsFrom DEF Like
  <2> QED BY <1>1, <1>2, <2>2, <2>4, <2>6 DEF MarkCompensationEffect, FaultStays, Lands
<1>4. CASE UNCHANGED disk /\ Become(p, mem, [job[p] EXCEPT !.pc = "c_revoke", !.marked = FALSE])
  BY <1>1, <1>4, UnmarkSteps DEF MarkCompensationEffect
<1> QED BY <1>3, <1>4 DEF MarkCompensation, NotMoved, w

LatchFaultEffect(p) ==
  /\ Keeps(p) /\ job'[p].pc = "l_save" /\ mem'.fault # NoMarker
  /\ \/ Moves(p) /\ disk'.wal.state = "fault" /\ ~disk'.wal.changed
     \/ Waits /\ SnapStays /\ (mem.wal = NoWal => mem'.fault = Unmarked)

LEMMA LatchFaultDoes ==
  ASSUME TypeOK, Core, NEW p \in Proc, LatchFault(p)
  PROVE  job[p].pc = "latch" /\ Steps(p) /\ LatchFaultEffect(p)
<1> DEFINE w == [job[p].held EXCEPT !.state = "fault", !.changed = FALSE]
<1>1. /\ Up /\ job[p].pc = "latch" /\ job[p].pc # "idle"
      /\ UNCHANGED <<issued, boot>> /\ LedgerStays /\ Shape(p) /\ SoundFault(mem.fault)
      /\ Like(mem)
  BY MemLike DEF LatchFault, At, LedgerStays, Core, Each, Whole, Sounds
<1>2. w \in Wal /\ Alike(w, job[p].held) /\ ~w.changed /\ w.state = "fault"
  BY FieldsOf, ZenonT(40) DEF Wal, Alike
<1> HIDE DEF w
<1>3. ASSUME NEW m, Like(m), Latched(p, m), Saves(p)
      PROVE  /\ Steps(p) /\ Carries(m) /\ Keeps(p) /\ job'[p].pc = "l_save"
             /\ mem'.fault # NoMarker /\ FaultStays
             /\ m.wal = NoWal => mem'.fault = Unmarked
  <2>1. /\ Lands(p, m) /\ Keeps(p) /\ job'[p].pc = "l_save" /\ mem'.fault # NoMarker
        /\ m.wal = NoWal => mem'.fault = Unmarked
    BY <1>3, LatchedDoes DEF Like
  <2>2. WorkerRole(p)' /\ ThreadRole(p)' /\ SoundFault(job'[p].view.fault)
    BY <1>1, <2>1, RolesFrom DEF Keeps, Shape, Formed
  <2>3. Steps(p)
    BY <1>1, <1>3, <2>1, <2>2, StepsFrom DEF Like
  <2> QED BY <2>1, <2>3 DEF Lands, Carries, FaultStays
<1>4. CASE Moved(p, w) /\ Latched(p, Now(w))
  <2>1. Sound(w) /\ SnapStays /\ Saves(p) /\ disk'.wal = w
        /\ (Carries(Now(w)) /\ FaultStays => Moves(p))
    BY <1>1, <1>2, <1>4, MarkMoves
  <2> QED BY <1>1, <1>2, <1>3, <1>4, <2>1, NowLike DEF LatchFaultEffect
<1>5. CASE UNCHANGED disk /\ Latched(p, mem)
  <2>1. Saves(p) /\ SnapStays /\ disk'.wal = disk.wal
    BY <1>5 DEF Saves, SnapStays
  <2> QED BY <1>1, <1>3, <1>5, <2>1, WaitsFrom DEF LatchFaultEffect
<1> QED BY <1>4, <1>5 DEF LatchFault, NotMoved, w

LEMMA ClearGrantDoes ==
  ASSUME TypeOK, NEW l
  PROVE  /\ ClearGrant(mem, l) \in Memory
         /\ ClearGrant(mem, l).active = mem.active /\ ClearGrant(mem, l).wal = mem.wal
         /\ ClearGrant(mem, l).releasing = mem.releasing
         /\ ClearGrant(mem, l).handoff = mem.handoff /\ ClearGrant(mem, l).fault = mem.fault
         /\ ClearGrant(mem, l).inflight = IF mem.inflight = l THEN NoLease ELSE mem.inflight
         /\ \/ ClearGrant(mem, l).rev > mem.rev
            \/ ClearGrant(mem, l).rev = mem.rev /\ ClearGrant(mem, l).inflight = mem.inflight
<1> DEFINE n == [mem EXCEPT !.inflight = NoLease]
<1>1. /\ n \in Memory /\ n.active = mem.active /\ n.wal = mem.wal /\ n.releasing = mem.releasing
      /\ n.handoff = mem.handoff /\ n.fault = mem.fault /\ n.inflight = NoLease /\ n.rev = mem.rev
      /\ mem \in Memory /\ mem.rev \in Nat
  BY FieldsOf DEF Memory, LeaseOrNone
<1> HIDE DEF n
<1>2. CASE mem.inflight = l
  <2>1. ClearGrant(mem, l) = Bump(n)
    BY <1>2 DEF ClearGrant, n
  <2> QED BY <1>1, <1>2, <2>1, BumpDoes
<1>3. CASE mem.inflight # l
  BY <1>1, <1>3 DEF ClearGrant
<1> QED BY <1>2, <1>3

FaultSavedEffect(p) ==
  /\ Stops(p)
  /\ \/ job[p].after = "refused" /\ Drops(p)
     \/ job[p].after # "refused" /\ Waits

LEMMA FaultSavedDoes ==
  ASSUME TypeOK, Core, NEW p \in Proc, FaultSaved(p)
  PROVE  job[p].pc = "l_save" /\ Steps(p) /\ FaultSavedEffect(p)
<1>1. /\ Up /\ job[p].pc = "l_save" /\ job[p].pc # "idle" /\ job[p].pc \in Saving
      /\ UNCHANGED <<issued, boot>> /\ LedgerStays /\ SoundFault(mem.fault) /\ mem \in Memory
  BY FieldsOf DEF FaultSaved, At, Saving, LedgerStays, Core, Whole, Sounds
<1>2. Saves(p) /\ disk'.wal = disk.wal
  BY <1>1, SavedDoes DEF FaultSaved
<1>3. CASE job[p].after = "refused" /\ End(p, ClearGrant(mem, job[p].lease))
  <2>1. /\ Steps(p) /\ Stops(p) /\ Carries(ClearGrant(mem, job[p].lease))
        /\ mem'.fault = mem.fault
    BY <1>1, <1>2, <1>3, EndSteps, ClearGrantDoes
  <2> QED BY <1>1, <1>2, <1>3, <2>1, ClearGrantDoes
          DEF FaultSavedEffect, Drops, Carries, MarkStays
<1>4. CASE job[p].after # "refused" /\ End(p, mem)
  BY <1>1, <1>2, <1>4, EndSteps, WaitsFrom DEF FaultSavedEffect, FaultStays
<1> QED BY <1>3, <1>4 DEF FaultSaved

LEMMA WithdrawnDoes ==
  ASSUME TypeOK, NEW p \in Proc, NEW requeue
  PROVE  /\ Withdrawn(p, requeue) \in Memory
         /\ Withdrawn(p, requeue).releasing = mem.releasing
         /\ Withdrawn(p, requeue).wal = mem.wal
         /\ Withdrawn(p, requeue).handoff = mem.handoff
         /\ Withdrawn(p, requeue).fault = mem.fault
         /\ Withdrawn(p, requeue).active =
              IF mem.active = job[p].lease THEN NoLease ELSE mem.active
         /\ Withdrawn(p, requeue).inflight =
              IF mem.inflight = job[p].lease THEN NoLease ELSE mem.inflight
         /\ \/ Withdrawn(p, requeue).rev > mem.rev
            \/ /\ Withdrawn(p, requeue).rev = mem.rev
               /\ Withdrawn(p, requeue).active = mem.active
               /\ Withdrawn(p, requeue).inflight = mem.inflight
<1> DEFINE a == IF mem.active = job[p].lease THEN NoLease ELSE mem.active
           i == IF mem.inflight = job[p].lease THEN NoLease ELSE mem.inflight
           k == IF requeue THEN mem.waiting + 1 ELSE mem.waiting
           n == [mem EXCEPT !.active = a, !.inflight = i, !.waiting = k]
<1>1. a \in LeaseOrNone /\ i \in LeaseOrNone /\ k \in Nat /\ mem \in Memory
  BY DEF TypeOK, Memory, LeaseOrNone
<1>2. Withdrawn(p, requeue) = IF n = mem THEN n ELSE Bump(n)
  BY DEF Withdrawn
<1> HIDE DEF a, i, k
<1>3. /\ n \in Memory /\ n.active = a /\ n.wal = mem.wal /\ n.releasing = mem.releasing
      /\ n.handoff = mem.handoff /\ n.fault = mem.fault /\ n.inflight = i /\ n.rev = mem.rev
      /\ mem.rev \in Nat
  BY <1>1 DEF Memory
<1> HIDE DEF n
<1>4. CASE n = mem
  BY <1>2, <1>3, <1>4 DEF a, i
<1>5. CASE n # mem
  <2>1. Withdrawn(p, requeue) = Bump(n)
    BY <1>2, <1>5
  <2>2. Bump(n) \in Memory /\ Bump(n).rev = mem.rev + 1
         /\ Bump(n).active = a /\ Bump(n).releasing = mem.releasing
         /\ Bump(n).inflight = i /\ Bump(n).handoff = mem.handoff
         /\ Bump(n).wal = mem.wal /\ Bump(n).fault = mem.fault
    BY <1>3, BumpDoes
  <2> QED BY <1>3, <2>1, <2>2 DEF a, i
<1> QED BY <1>4, <1>5

(* A lease is taken back, and then the marker is finished or a fault is    *)
(* latched.                                                                *)
RevokeEffect(p) ==
  /\ Revokes(p)
  /\ \/ Latching(p)
     \/ /\ mem'.wal # NoWal /\ job[p].marked /\ ledger' = ledger \ {job[p].lease}
        /\ job'[p].lease = job[p].lease /\ job'[p].after = "undo"
        /\ job'[p].pc = "f_mark" /\ job'[p].held = mem'.wal /\ mem'.fault = mem.fault

LEMMA RevokesFrom ==
  ASSUME TypeOK, Core, NEW p \in Proc, Up, job[p].pc \in Comp, UNCHANGED <<issued, boot>>,
         UNCHANGED disk, NEW m \in Memory, Lands(p, m), NEW requeue, m = Withdrawn(p, requeue),
         WorkerRole(p)', ThreadRole(p)', SoundFault(job'[p].view.fault), FaultStays,
         ledger' \in {ledger, ledger \ {job[p].lease}}
  PROVE  Steps(p) /\ Revokes(p)
<1>1. job[p].pc # "idle" /\ Saves(p) /\ SnapStays /\ disk'.wal = disk.wal
  BY DEF Comp, Saves, SnapStays
<1>2. Steps(p)
  BY <1>1, WithdrawnDoes, StepsFrom
<1> QED BY <1>1, <1>2, WithdrawnDoes DEF Revokes, Lands, Carries, MarkStays

LEMMA RevokeDoes ==
  ASSUME TypeOK, Core, NEW p \in Thread, Revoke(p)
  PROVE  job[p].pc = "c_revoke" /\ Steps(p) /\ RevokeEffect(p)
<1>0. p \in Proc
  BY DEF Proc
<1> DEFINE requeue == job[p].fifo /\ job[p].published /\ ~mem.withdrawn
           m == Withdrawn(p, requeue)
<1>1. /\ Up /\ job[p].pc = "c_revoke" /\ job[p].pc \in Comp /\ job[p].pc # "idle"
      /\ UNCHANGED <<issued, boot>> /\ Shape(p) /\ SoundFault(mem.fault) /\ Sound(mem.wal)
      /\ UNCHANGED disk
  BY <1>0 DEF Revoke, At, Comp, Core, Each, Whole, Sounds
<1>3. m \in Memory /\ m.wal = mem.wal /\ m.fault = mem.fault
  BY <1>0, WithdrawnDoes
<1>4. \/ ledger' = ledger \ {job[p].lease} /\ job[p].marked /\ Finish(p, m, "undo")
      \/ ledger' \in {ledger, ledger \ {job[p].lease}} /\ Latch(p, m)
  BY DEF Revoke
<1> HIDE DEF m
<1>5. ASSUME Lands(p, m), Latching(p), ledger' \in {ledger, ledger \ {job[p].lease}}
      PROVE  Steps(p) /\ RevokeEffect(p)
  <2>1. WorkerRole(p)' /\ ThreadRole(p)' /\ SoundFault(job'[p].view.fault)
    BY <1>0, <1>1, <1>5, RolesFrom DEF Latching, Keeps, Shape, Formed
  <2>2. FaultStays
    BY <1>5 DEF Latching, FaultStays, SoundFault, Unmarked, NoMarker
  <2>3. Steps(p) /\ Revokes(p)
    BY <1>0, <1>1, <1>3, <1>5, <2>1, <2>2, RevokesFrom DEF m
  <2> QED BY <1>5, <2>3 DEF RevokeEffect
<1>6. CASE ledger' \in {ledger, ledger \ {job[p].lease}} /\ Latch(p, m)
  BY <1>0, <1>1, <1>3, <1>5, <1>6, LatchDoes
<1>7. CASE ledger' = ledger \ {job[p].lease} /\ job[p].marked /\ Finish(p, m, "undo")
  <2>1. /\ Lands(p, m)
        /\ \/ m.wal = NoWal /\ Latching(p)
           \/ /\ m.wal # NoWal /\ job'[p].lease = job[p].lease /\ job'[p].after = "undo"
              /\ job'[p].pc = "f_mark" /\ job'[p].held = mem'.wal
              /\ job'[p].view.fault = mem.fault /\ mem'.fault = mem.fault
    BY <1>0, <1>1, <1>3, <1>7, FinishDoes
  <2>2. CASE Latching(p)
    BY <1>1, <1>5, <1>7, <2>1, <2>2
  <2>3. CASE /\ m.wal # NoWal /\ job'[p].lease = job[p].lease /\ job'[p].after = "undo"
             /\ job'[p].pc = "f_mark" /\ job'[p].held = mem'.wal
             /\ job'[p].view.fault = mem.fault /\ mem'.fault = mem.fault
    <3>1. WorkerRole(p)' /\ ThreadRole(p)' /\ SoundFault(job'[p].view.fault)
      BY <1>1, <2>3, LeaseAssumption DEF WorkerRole, ThreadRole, Fin
    <3>2. Steps(p) /\ Revokes(p)
      BY <1>0, <1>1, <1>3, <1>7, <2>1, <2>3, <3>1, RevokesFrom DEF m, FaultStays
    <3> QED BY <1>1, <1>3, <1>7, <2>1, <2>3, <3>2 DEF RevokeEffect, Lands, Carries
  <2> QED BY <2>1, <2>2, <2>3
<1> QED BY <1>1, <1>4, <1>6, <1>7

RevokeBrokenEffect(p) == Revokes(p) /\ Latching(p)

LEMMA RevokeBrokenDoes ==
  ASSUME TypeOK, Core, NEW p \in Proc, RevokeBroken(p)
  PROVE  job[p].pc = "b_revoke" /\ Steps(p) /\ RevokeBrokenEffect(p)
<1> DEFINE m == Withdrawn(p, job[p].fifo)
<1>1. /\ Up /\ job[p].pc = "b_revoke" /\ job[p].pc \in Comp /\ job[p].pc # "idle"
      /\ UNCHANGED <<issued, boot>> /\ Shape(p) /\ SoundFault(mem.fault) /\ Sound(mem.wal)
      /\ UNCHANGED disk /\ LWork(p) /\ CBrev(p)
      /\ ledger' \in {ledger, ledger \ {job[p].lease}}
  BY DEF RevokeBroken, At, Comp, Core, Each, Whole, Sounds, Where
<1>2. Latch(p, m)
  BY <1>1 DEF RevokeBroken, LWork, CBrev, Works, Latest, Comp
<1>3. m \in Memory /\ m.wal = mem.wal /\ m.fault = mem.fault
  BY WithdrawnDoes
<1> HIDE DEF m
<1>4. Lands(p, m) /\ Latching(p)
  BY <1>1, <1>2, <1>3, LatchDoes
<1>5. WorkerRole(p)' /\ ThreadRole(p)' /\ SoundFault(job'[p].view.fault)
  BY <1>1, <1>4, RolesFrom DEF Latching, Keeps, Shape, Formed
<1>6. FaultStays
  BY <1>4 DEF Latching, FaultStays, SoundFault, Unmarked, NoMarker
<1> QED BY <1>1, <1>3, <1>4, <1>5, <1>6, RevokesFrom DEF m, RevokeBrokenEffect

-----------------------------------------------------------------------------
(* Granting.                                                               *)

BeginGrantEffect(t) ==
  /\ Up /\ boot' = boot /\ issued' = issued + 1 /\ Others(t) /\ LedgerStays /\ disk' = disk
  /\ SlotIdle /\ mem.fault = NoMarker /\ mem'.fault = NoMarker
  /\ mem'.active = NoLease /\ mem'.releasing = NoLease /\ mem'.inflight = issued'
  /\ mem'.wal = NoWal /\ mem'.handoff = mem.handoff /\ mem'.rev > mem.rev
  /\ job'[t].pc = "gate" /\ job'[t].lease = issued' /\ job'[t].after = "none" /\ Shape(t)'

LEMMA BeginGrantDoes ==
  ASSUME TypeOK, Core, NEW t \in Thread, NEW fifo \in BOOLEAN, BeginGrant(t, fifo)
  PROVE  BeginGrantEffect(t)
<1> DEFINE n == [mem EXCEPT !.inflight = issued + 1, !.withdrawn = FALSE]
           m == Bump(n)
           j == [Idle EXCEPT !.pc = "gate", !.lease = issued + 1, !.fifo = fifo,
                             !.view = View(m, "grant")]
<1>1. /\ Up /\ SlotIdle /\ mem.fault = NoMarker /\ issued' = issued + 1 /\ Become(t, m, j)
      /\ UNCHANGED <<disk, ledger, boot>>
  BY DEF BeginGrant, MayStart
<1>2. issued + 1 \in Lease /\ issued + 1 \in LeaseOrNone
  BY LeaseAssumption DEF BeginGrant, TypeOK, Lease, LeaseOrNone
<1>3. /\ n \in Memory /\ n.active = mem.active /\ n.wal = mem.wal /\ n.releasing = mem.releasing
      /\ n.handoff = mem.handoff /\ n.fault = mem.fault /\ n.inflight = issued + 1
      /\ n.rev = mem.rev /\ mem.rev \in Nat
  BY <1>2, FieldsOf DEF Memory
<1> HIDE DEF n
<1>4. /\ m \in Memory /\ m.active = mem.active /\ m.wal = mem.wal /\ m.releasing = mem.releasing
      /\ m.handoff = mem.handoff /\ m.fault = mem.fault /\ m.inflight = issued + 1
      /\ m.rev > mem.rev /\ View(m, "grant").fault = mem.fault
  BY <1>3, BumpDoes DEF View
<1> HIDE DEF m
<1>5. /\ j.pc = "gate" /\ j.lease = issued + 1 /\ j.view = View(m, "grant")
      /\ j.snap = NoSnapshot /\ j.after = "none"
  BY DEF Idle
<1> HIDE DEF j
<1>6. Others(t) /\ job'[t] = j /\ mem' = m
  BY <1>1, BecomeDoes DEF Proc
<1>7. Shape(t)'
  BY <1>1, <1>3, <1>4, <1>5, <1>6, LeaseAssumption
     DEF Shape, WorkerRole, ThreadRole, Formed, SoundFault, NoSnapshot, Fin
<1> QED BY <1>1, <1>4, <1>5, <1>6, <1>7 DEF BeginGrantEffect, LedgerStays, SlotIdle

TakeGateEffect(t) ==
  /\ SnapStays
  /\ \/ Drops(t) /\ Stops(t)
     \/ Waits /\ Keeps(t) /\ job'[t].pc = "g_arm" /\ mem'.fault = mem.fault

LEMMA TakeGateDoes ==
  ASSUME TypeOK, Core, NEW t \in Thread, TakeGate(t)
  PROVE  job[t].pc = "gate" /\ Steps(t) /\ TakeGateEffect(t)
<1>1. /\ Up /\ job[t].pc = "gate" /\ job[t].pc # "idle" /\ t \in Proc /\ job[t] \in Job
      /\ UNCHANGED <<issued, boot>> /\ LedgerStays /\ SoundFault(mem.fault) /\ mem \in Memory
      /\ Shape(t) /\ Saves(t) /\ SnapStays /\ disk'.wal = disk.wal
  BY FieldsOf DEF TakeGate, At, LedgerStays, Core, Whole, Each, Sounds, Proc, Saves, SnapStays
<1>2. CASE End(t, ClearGrant(mem, job[t].lease))
  <2>1. /\ Steps(t) /\ Stops(t) /\ Carries(ClearGrant(mem, job[t].lease))
        /\ mem'.fault = mem.fault
    BY <1>1, <1>2, EndSteps, ClearGrantDoes
  <2> QED BY <1>1, <1>2, <2>1, ClearGrantDoes DEF TakeGateEffect, Drops, Carries, MarkStays
<1>3. CASE Become(t, [mem EXCEPT !.gate = TRUE], [job[t] EXCEPT !.pc = "g_arm", !.gate = TRUE])
  <2> DEFINE m == [mem EXCEPT !.gate = TRUE]
  <2>1. m \in Memory /\ m.rev = mem.rev /\ m.fault = mem.fault /\ m.active = mem.active
        /\ m.releasing = mem.releasing /\ m.inflight = mem.inflight /\ m.wal = mem.wal
        /\ m.handoff = mem.handoff
    BY <1>1 DEF Memory
  <2> HIDE DEF m
  <2>2. /\ Others(t) /\ mem' = m
        /\ job'[t] = [job[t] EXCEPT !.pc = "g_arm", !.gate = TRUE]
    BY <1>1, <1>3, BecomeDoes DEF m
  <2>3. Keeps(t) /\ job'[t].pc = "g_arm" /\ job'[t].snap = job[t].snap
    BY <1>1, <2>2 DEF Job, Keeps
  <2>4. Lands(t, m)
    BY <1>1, <2>1, <2>2, <2>3 DEF Lands, Carries, Captures, Saving
  <2>5. WorkerRole(t)' /\ ThreadRole(t)' /\ SoundFault(job'[t].view.fault)
    BY <1>1, <2>3, LeaseAssumption DEF Keeps, Shape, Formed, WorkerRole, ThreadRole, Fin
  <2>6. Steps(t)
    BY <1>1, <2>1, <2>4, <2>5, StepsFrom
  <2> QED BY <1>1, <2>1, <2>2, <2>3, <2>6
          DEF TakeGateEffect, Waits, LeaseStays, MarkStays, FaultStays
<1> QED BY <1>1, <1>2, <1>3 DEF TakeGate

ArmGrantEffect(t) ==
  \/ /\ Arms(t, "grant") /\ LeaseStays /\ Keeps(t)
     /\ job'[t].pc = "g_audit" /\ job'[t].held = mem'.wal
  \/ Drops(t) /\ SnapStays /\ Stops(t)

LEMMA ArmGrantDoes ==
  ASSUME TypeOK, Core, NEW t \in Thread, ArmGrant(t)
  PROVE  job[t].pc = "g_arm" /\ Steps(t) /\ ArmGrantEffect(t)
<1>1. /\ Up /\ job[t].pc = "g_arm" /\ job[t].pc # "idle" /\ t \in Proc
      /\ UNCHANGED <<issued, boot>> /\ LedgerStays /\ SoundFault(mem.fault) /\ mem \in Memory
      /\ Shape(t) /\ job[t].lease \in LeaseOrNone
  BY FieldsOf DEF ArmGrant, At, LedgerStays, Core, Whole, Each, Sounds, Proc
<1>2. CASE ArmDisk("grant", job[t].lease) /\ Move(t, Armed("grant", job[t].lease), "g_audit")
  <2> DEFINE m == Armed("grant", job[t].lease)
  <2>1. /\ disk.wal = NoWal /\ SnapStays /\ disk'.wal = m.wal
        /\ disk'.wal.op = "grant" /\ disk'.wal.lease = job[t].lease /\ disk'.wal.state = "armed"
        /\ ~disk'.wal.changed /\ disk'.wal # NoWal /\ Like(m)
    BY <1>1, <1>2, ArmDiskDoes, ArmedDoes
  <2> HIDE DEF m
  <2>2. /\ Lands(t, m) /\ Keeps(t) /\ job'[t].pc = "g_audit" /\ job'[t].held = mem'.wal
        /\ mem'.fault = mem.fault
    BY <1>1, <1>2, <2>1, MoveDoes DEF m, Like, Lands, Captures, Saving, Carries
  <2>3. WorkerRole(t)' /\ ThreadRole(t)' /\ SoundFault(job'[t].view.fault)
    BY <1>1, <2>2, LeaseAssumption DEF Keeps, Shape, Formed, WorkerRole, ThreadRole, Fin
  <2>4. Steps(t)
    BY <1>1, <2>1, <2>2, <2>3, StepsFrom DEF Like, Saves
  <2> QED BY <1>1, <2>1, <2>2, <2>4 DEF ArmGrantEffect, Arms, LeaseStays, Like, Lands, Carries
<1>3. CASE UNCHANGED disk /\ End(t, ClearGrant(mem, job[t].lease))
  <2>1. Saves(t) /\ SnapStays
    BY <1>3 DEF Saves, SnapStays
  <2>2. /\ Steps(t) /\ Stops(t) /\ Carries(ClearGrant(mem, job[t].lease))
        /\ mem'.fault = mem.fault
    BY <1>1, <1>3, <2>1, EndSteps, ClearGrantDoes
  <2> QED BY <1>1, <1>3, <2>1, <2>2, ClearGrantDoes DEF ArmGrantEffect, Drops, Carries, MarkStays
<1> QED BY <1>2, <1>3 DEF ArmGrant, ArmFails

(* The audits of a grant.                                                  *)
AuditGrantEffect(t) ==
  \/ /\ Audits(t) /\ mem.inflight = job[t].lease /\ mem.active = NoLease
     /\ mem.releasing = NoLease /\ mem'.active = job[t].lease
     /\ job'[t].pc = "f_mark" /\ job'[t].after = "publish" /\ job'[t].lease = job[t].lease
     /\ job'[t].held = job[t].held
  \/ Audits(t) /\ LeaseStays /\ Keeps(t) /\ job'[t].pc = "c_mark" /\ job'[t].held = job[t].held
  \/ Waits /\ SnapStays /\ Compensating(t)
  \/ /\ Drops(t) \/ Waits
     /\ SnapStays /\ job'[t].pc = "latch" /\ job'[t].after = "refused" /\ mem'.fault = mem.fault
     /\ job'[t].lease = job[t].lease /\ job'[t].held = mem.wal

LEMMA PublishDoes ==
  ASSUME TypeOK, NEW t \in Thread, NEW m, Like(m), m.waiting = mem.waiting, Exact(t), Publish(t, m)
  PROVE  /\ Others(t) /\ mem'.rev = mem.rev + 1 /\ mem'.active = job[t].lease
         /\ mem'.releasing = mem.releasing /\ mem'.inflight = mem.inflight
         /\ mem'.wal = m.wal /\ mem'.handoff = mem.handoff /\ mem'.fault = mem.fault
         /\ job'[t].pc = "f_mark" /\ job'[t].after = "publish" /\ job'[t].lease = job[t].lease
         /\ job'[t].held = job[t].held /\ job'[t].view.fault = mem.fault
         /\ job'[t].snap.fault = mem.fault
<1> DEFINE k == IF job[t].fifo THEN m.waiting - 1 ELSE m.waiting
           n == [m EXCEPT !.active = job[t].lease, !.due = FALSE, !.waiting = k]
           j == [job[t] EXCEPT !.pc = "f_mark", !.after = "publish",
                               !.published = TRUE, !.gate = job[t].fifo,
                               !.view = View(Bump(n), "grant"), !.snap = Payload(Bump(n), TRUE)]
<1>0. t \in Proc
  BY DEF Proc
<1>1. job[t] \in Job /\ job[t].lease \in LeaseOrNone
  BY <1>0, FieldsOf
<1>2. mem.waiting \in Nat /\ (job[t].fifo => mem.waiting > 0)
  BY DEF Exact, TypeOK, Memory
<1>3. k \in Nat
  BY <1>2
<1>4. Become(t, Bump(n), j)
  BY DEF Publish
<1> HIDE DEF k
<1>5. /\ n \in Memory /\ n.active = job[t].lease /\ n.releasing = mem.releasing
      /\ n.inflight = mem.inflight /\ n.wal = m.wal /\ n.handoff = mem.handoff
      /\ n.fault = mem.fault /\ n.rev = mem.rev
  BY <1>1, <1>3 DEF Like, Memory
<1> HIDE DEF n
<1>6. /\ Bump(n).active = job[t].lease /\ Bump(n).releasing = mem.releasing
      /\ Bump(n).inflight = mem.inflight /\ Bump(n).wal = m.wal /\ Bump(n).handoff = mem.handoff
      /\ Bump(n).fault = mem.fault /\ Bump(n).rev = mem.rev + 1
  BY <1>5, BumpDoes
<1>7. /\ j.pc = "f_mark" /\ j.after = "publish" /\ j.lease = job[t].lease
      /\ j.held = job[t].held /\ j.view = View(Bump(n), "grant") /\ j.snap = Payload(Bump(n), TRUE)
  BY <1>1 DEF Job
<1>8. View(Bump(n), "grant").fault = mem.fault /\ Payload(Bump(n), TRUE).fault = mem.fault
  BY <1>6 DEF View, Payload
<1>9. Others(t) /\ job'[t] = j /\ mem' = Bump(n)
  BY <1>0, <1>4, BecomeDoes
<1> QED BY <1>6, <1>7, <1>8, <1>9

LEMMA AuditGrantDoes ==
  ASSUME TypeOK, Core, NEW t \in Thread, AuditGrant(t)
  PROVE  job[t].pc = "g_audit" /\ Steps(t) /\ AuditGrantEffect(t)
<1> DEFINE m == IF job[t].fifo THEN mem ELSE Unlock(t, mem)
           l == job[t].lease
<1>1. /\ Up /\ job[t].pc = "g_audit" /\ job[t].pc # "idle" /\ t \in Proc
      /\ UNCHANGED <<issued, boot>> /\ SoundFault(mem.fault) /\ mem \in Memory
      /\ Shape(t) /\ job[t].lease \in LeaseOrNone /\ job[t] \in Job /\ UNCHANGED disk
      /\ Like(mem)
  BY FieldsOf, MemLike DEF AuditGrant, At, Core, Whole, Each, Sounds, Proc
<1>2. Like(m) /\ m.wal = mem.wal /\ m.waiting = mem.waiting
  BY <1>1 DEF Like, Unlock, Memory
<1>3. Saves(t) /\ SnapStays /\ disk'.wal = disk.wal
  BY <1>1 DEF Saves, SnapStays
<1>4. CASE /\ ledger' = ledger \cup {l} /\ Exact(t) /\ Publish(t, m)
  <2> HIDE DEF m
  <2>1. /\ Others(t) /\ mem'.rev = mem.rev + 1 /\ mem'.active = job[t].lease
         /\ mem'.releasing = mem.releasing /\ mem'.inflight = mem.inflight
         /\ mem'.wal = m.wal /\ mem'.handoff = mem.handoff /\ mem'.fault = mem.fault
         /\ job'[t].pc = "f_mark" /\ job'[t].after = "publish" /\ job'[t].lease = job[t].lease
         /\ job'[t].held = job[t].held /\ job'[t].view.fault = mem.fault
         /\ job'[t].snap.fault = mem.fault
    BY <1>2, <1>4, PublishDoes
  <2>2. Shape(t)' /\ mem'.rev # 0 /\ ~Deaf
    BY <1>1, <2>1, LeaseAssumption, FieldsOf
       DEF Shape, Formed, WorkerRole, ThreadRole, Fin, Deaf, Idle
  <2>3. Frame(t) /\ Captures(t)
    BY <1>1, <2>1, <2>2, FieldsOf DEF Frame, Runs, Captures, Saving
  <2> QED BY <1>1, <1>2, <1>3, <1>4, <2>1, <2>2, <2>3
          DEF Steps, AuditGrantEffect, Audits, Exact, MarkStays, LeaseStays
<1>5. CASE ledger' = ledger \cup {l}
           /\ Become(t, m, [job[t] EXCEPT !.pc = "c_mark", !.gate = job[t].fifo])
  <2> HIDE DEF m
  <2>1. Others(t) /\ mem' = m /\ job'[t] = [job[t] EXCEPT !.pc = "c_mark", !.gate = job[t].fifo]
    BY <1>1, <1>5, BecomeDoes
  <2>2. /\ Keeps(t) /\ job'[t].pc = "c_mark"
        /\ job'[t].held = job[t].held /\ job'[t].snap = job[t].snap
    BY <1>1, <2>1 DEF Keeps, Job
  <2>3. Lands(t, m)
    BY <1>1, <1>2, <2>1, <2>2 DEF Lands, Carries, Captures, Saving, Like
  <2>4. WorkerRole(t)' /\ ThreadRole(t)' /\ SoundFault(job'[t].view.fault)
    BY <1>1, <2>2, LeaseAssumption DEF Keeps, Shape, Formed, WorkerRole, ThreadRole, Fin
  <2>5. Steps(t)
    BY <1>1, <1>2, <1>3, <2>3, <2>4, StepsFrom DEF Like
  <2> QED BY <1>1, <1>2, <1>3, <1>5, <2>1, <2>2, <2>5
          DEF AuditGrantEffect, Audits, LeaseStays, MarkStays, Like
<1>6. CASE UNCHANGED ledger /\ Compensate(t, m)
  <2> HIDE DEF m
  <2>1. Lands(t, m) /\ Compensating(t)
    BY <1>1, <1>2, <1>6, CompensateDoes DEF Like
  <2>2. WorkerRole(t)' /\ ThreadRole(t)' /\ SoundFault(job'[t].view.fault)
    BY <1>1, <2>1, RolesFrom DEF Compensating, Keeps, Comp, Shape, Formed
  <2>3. Steps(t)
    BY <1>1, <1>2, <1>3, <2>1, <2>2, StepsFrom DEF Like
  <2> QED BY <1>1, <1>2, <1>3, <1>6, <2>1, <2>3
          DEF AuditGrantEffect, Waits, LeaseStays, MarkStays, FaultStays, Like, Compensating,
              Lands, Carries, LedgerStays
<1>7. CASE UNCHANGED ledger
           /\ Become(t, IF job[t].fifo THEN ClearGrant(mem, l) ELSE mem,
                     [job[t] EXCEPT !.pc = "latch", !.after = "refused", !.held = mem.wal])
  <2> DEFINE n == IF job[t].fifo THEN ClearGrant(mem, l) ELSE mem
  <2>1. /\ n \in Memory /\ n.active = mem.active /\ n.wal = mem.wal /\ n.releasing = mem.releasing
        /\ n.handoff = mem.handoff /\ n.fault = mem.fault
        /\ n.inflight \in {mem.inflight, IF mem.inflight = l THEN NoLease ELSE mem.inflight}
        /\ n.rev > mem.rev \/ (n.rev = mem.rev /\ n.inflight = mem.inflight)
    BY <1>1, ClearGrantDoes
  <2> HIDE DEF n
  <2>2. /\ Others(t) /\ mem' = n
        /\ job'[t] = [job[t] EXCEPT !.pc = "latch", !.after = "refused", !.held = mem.wal]
    BY <1>1, <1>7, BecomeDoes DEF n
  <2>3. /\ job'[t].pc = "latch" /\ job'[t].after = "refused" /\ job'[t].held = mem.wal
        /\ job'[t].snap = job[t].snap /\ job'[t].lease = job[t].lease /\ job'[t].view = job[t].view
    BY <1>1, <2>2 DEF Job
  <2>4. Shape(t)' /\ mem'.rev # 0 /\ ~Deaf
    BY <1>1, <2>1, <2>2, <2>3, LeaseAssumption, FieldsOf
       DEF Shape, Formed, WorkerRole, ThreadRole, Fin, Deaf, Idle
  <2>5. Frame(t) /\ Captures(t)
    BY <1>1, <2>1, <2>2, <2>3, <2>4, FieldsOf DEF Frame, Runs, Captures, Saving, MemNamed
  <2>6. mem'.inflight = mem.inflight => Waits
    BY <1>1, <1>7, <2>1, <2>2 DEF Waits, LeaseStays, MarkStays, LedgerStays, FaultStays
  <2>7. mem'.inflight # mem.inflight => Drops(t)
    BY <1>1, <1>7, <2>1, <2>2 DEF Drops, MarkStays, LedgerStays
  <2> QED BY <1>1, <1>3, <2>1, <2>2, <2>3, <2>4, <2>5, <2>6, <2>7
          DEF Steps, AuditGrantEffect
<1> QED BY <1>1, <1>4, <1>5, <1>6, <1>7 DEF AuditGrant

-----------------------------------------------------------------------------
(* Ending a lease.                                                         *)

(* The calls and steps that leave the lease, the marker and the ledger     *)
(* alone, and their job with nothing to do for a lease.                    *)
Rests(p) ==
  /\ Steps(p) /\ Waits
  /\ job'[p].pc \in {"idle", "swept", "beat", "persist"}
  /\ job'[p].lease = NoLease \/ (p \in Thread /\ job'[p].lease = mem.active)

LEMMA RestsFrom ==
  ASSUME TypeOK, Core, NEW p \in Proc, Up, UNCHANGED <<issued, boot, ledger>>, Others(p),
         SoundFault(mem'.fault),
         mem'.fault = mem.fault \/ (mem'.fault # NoMarker /\ mem.wal # NoWal),
         mem'.wal = mem.wal, mem'.active = mem.active, mem'.releasing = mem.releasing,
         mem'.inflight = mem.inflight, mem'.rev = mem.rev \/ mem'.rev = mem.rev + 1,
         mem'.handoff = mem.handoff \/ mem'.fault # NoMarker,
         mem.rev # 0, Saves(p), disk'.wal = disk.wal, Captures(p), Shape(p)'
  PROVE  Steps(p) /\ Waits
<1>1. Runs
  BY FieldsOf DEF Runs, Deaf, MemNamed
<1> QED BY <1>1 DEF Steps, Frame, Waits, LeaseStays, MarkStays, LedgerStays, FaultStays

LEMMA StoppedRests ==
  ASSUME TypeOK, Core, NEW p \in Proc, Up, job[p].pc # "idle",
         UNCHANGED <<issued, boot, ledger>>, NEW m \in Memory, End(p, m),
         m.active = mem.active, m.releasing = mem.releasing, m.inflight = mem.inflight,
         m.rev \in {mem.rev, mem.rev + 1}, m.wal = mem.wal,
         SoundFault(m.fault), m.fault = mem.fault \/ (m.fault # NoMarker /\ mem.wal # NoWal),
         m.handoff = mem.handoff \/ m.fault # NoMarker, Saves(p), disk'.wal = disk.wal
  PROVE  Rests(p) /\ Stops(p) /\ mem'.fault = m.fault /\ mem'.handoff = m.handoff
<1>1. mem.rev \in Nat /\ m.rev \in Nat
  BY FieldsOf DEF Memory
<1>2. Steps(p) /\ Stops(p) /\ Carries(m) /\ mem'.fault = m.fault
  BY <1>1, EndSteps
<1>3. Waits /\ mem'.handoff = m.handoff
  BY <1>2 DEF Waits, Carries, LeaseStays, MarkStays, LedgerStays, FaultStays
<1> QED BY <1>2, <1>3 DEF Rests, Stops, Idle

(* A daemon that named a lease has taken a step since it started.          *)
LEMMA Started ==
  ASSUME TypeOK, Core, MemNamed # {} \/ mem.waiting # 0 \/ (\E p \in Proc : job[p].pc # "idle")
  PROVE  mem.rev # 0
<1>1. CASE MemNamed # {} \/ mem.waiting # 0
  <2>1. LET m == [Fresh EXCEPT !.fault = mem.fault]
        IN  m.active = 0 /\ m.releasing = 0 /\ m.inflight = 0 /\ m.waiting = 0
    BY DEF Fresh, NoLease
  <2> QED BY <1>1, <2>1, ZenonT(40) DEF MemNamed, Core, Whole, Boots, NoLease
<1>2. CASE \E p \in Proc : job[p].pc # "idle"
  BY <1>2 DEF Core, Each, Shape, Formed, Idle
<1> QED BY <1>1, <1>2

(* A call that begins from an idle thread, or from one that has just swept *)
(* in vain, captures no snapshot of its own.                               *)
LEMMA BeginsDoes ==
  ASSUME TypeOK, Core, NEW t \in Thread, Up, mem.active # NoLease,
         UNCHANGED <<disk, ledger, issued, boot>>, NEW j, Become(t, mem, j),
         j.pc \in {"r_arm", "beat"}, j.lease = mem.active,
         j.after \in {"none", "owner", "expired"}, j.view = Idle.view, j.snap = Idle.snap
  PROVE  Steps(t) /\ Still /\ job'[t] = j
<1>0. t \in Proc
  BY DEF Proc
<1>1. mem.rev # 0
  BY Started DEF MemNamed
<1>2. Others(t) /\ job'[t] = j /\ mem' = mem
  BY <1>0, BecomeDoes
<1>3. j.view.fault = NoMarker /\ j.snap.fault = NoMarker
  BY DEF Idle, View, Fresh, NoSnapshot
<1>4. Shape(t)' /\ Captures(t)
  BY <1>0, <1>1, <1>2, <1>3, LeaseAssumption
     DEF Shape, WorkerRole, ThreadRole, Formed, SoundFault, Fin, Captures, Saving
<1>5. SoundFault(mem.fault) /\ Saves(t)
  BY DEF Core, Whole, Sounds, Saves, SnapStays
<1> QED BY <1>0, <1>1, <1>2, <1>3, <1>4, <1>5, RestsFrom DEF Still

BeginReleaseEffect(t) ==
  /\ Still /\ mem.active # NoLease /\ mem.wal = NoWal /\ mem.fault = NoMarker
  /\ job[t].pc \in {"idle", "swept"}
  /\ job'[t].pc = "r_arm" /\ job'[t].lease = mem.active

LEMMA BeginReleaseDoes ==
  ASSUME TypeOK, Core, NEW t \in Thread, BeginRelease(t)
  PROVE  Steps(t) /\ BeginReleaseEffect(t)
<1> DEFINE after == IF mem.due /\ job[t].pc = "idle" THEN "expired" ELSE "owner"
           j == [Idle EXCEPT !.pc = "r_arm", !.lease = mem.active, !.after = after]
<1>1. /\ Up /\ mem.active # NoLease /\ mem.wal = NoWal /\ mem.fault = NoMarker
      /\ UNCHANGED <<disk, ledger, issued, boot>> /\ job[t].pc \in {"idle", "swept"}
      /\ Become(t, mem, j)
  BY DEF BeginRelease
<1>2. /\ j.pc = "r_arm" /\ j.lease = mem.active /\ j.after \in {"owner", "expired"}
      /\ j.view = Idle.view /\ j.snap = Idle.snap
  BY DEF Idle
<1> HIDE DEF j
<1>3. Steps(t) /\ Still /\ job'[t] = j
  BY <1>1, <1>2, BeginsDoes
<1> QED BY <1>1, <1>2, <1>3 DEF BeginReleaseEffect

ArmReleaseEffect(t) ==
  \/ /\ Arms(t, "release") /\ mem'.active = NoLease /\ mem'.releasing = job[t].lease
     /\ mem'.inflight = mem.inflight /\ mem'.rev > mem.rev
     /\ mem.active = issued /\ Latest(t) /\ Fits
     /\ job'[t].pc = "cleanup" /\ job'[t].lease = job[t].lease
  \/ Rests(t) /\ Still /\ SnapStays

LEMMA ArmReleaseDoes ==
  ASSUME TypeOK, Core, NEW t \in Thread, ArmRelease(t), amiss' = {}
  PROVE  job[t].pc = "r_arm" /\ Steps(t) /\ ArmReleaseEffect(t)
<1>1. /\ Up /\ job[t].pc = "r_arm" /\ job[t].pc # "idle" /\ t \in Proc
      /\ UNCHANGED <<issued, boot>> /\ LedgerStays /\ SoundFault(mem.fault) /\ mem \in Memory
      /\ Shape(t) /\ CRarm(t) /\ job[t].lease \in LeaseOrNone /\ job[t] \in Job /\ mem.rev \in Nat
  BY FieldsOf DEF ArmRelease, LedgerStays, Core, Whole, Each, Sounds, Proc, Where
<1>2. mem.rev # 0
  BY <1>1, Started
<1>3. CASE /\ ArmDisk("release", job[t].lease)
           /\ Move(t, Bump(Retire(Armed("release", job[t].lease), job[t].lease)), "cleanup")
           /\ Overtaken(job[t].lease)
  <2>0. mem.active = issued /\ Latest(t) /\ Fits
    <3>1. mem.active = job[t].lease /\ job[t].lease # NoLease
      BY <1>1, <1>3 DEF Overtaken, CRarm
    <3>2. Last /\ Owned
      BY DEF Core, Whole
    <3>3. mem.active = issued /\ issued # 0
      BY <3>1, <3>2 DEF Last, MemNamed, NoLease
    <3> QED BY <1>1, <3>1, <3>2, <3>3 DEF Owned, MemNamed, Latest, Fixing
  <2> DEFINE a == Armed("release", job[t].lease)
             n == Retire(a, job[t].lease)
  <2>1. /\ disk.wal = NoWal /\ SnapStays /\ disk'.wal = a.wal
        /\ disk'.wal.op = "release" /\ disk'.wal.lease = job[t].lease /\ disk'.wal.state = "armed"
        /\ ~disk'.wal.changed /\ disk'.wal # NoWal /\ Like(a)
    BY <1>1, <1>3, ArmDiskDoes, ArmedDoes
  <2> HIDE DEF a
  <2>2. /\ n \in Memory /\ n.active = NoLease /\ n.releasing = job[t].lease
        /\ n.inflight = mem.inflight /\ n.wal = a.wal /\ n.handoff = mem.handoff
        /\ n.fault = mem.fault /\ n.rev = mem.rev
    BY <1>1, <2>1 DEF Retire, Like, Memory, LeaseOrNone
  <2> HIDE DEF n
  <2>3. /\ Bump(n) \in Memory /\ Bump(n).active = NoLease /\ Bump(n).releasing = job[t].lease
        /\ Bump(n).inflight = mem.inflight /\ Bump(n).wal = a.wal
        /\ Bump(n).handoff = mem.handoff
        /\ Bump(n).fault = mem.fault /\ Bump(n).rev = mem.rev + 1
    BY <2>2, BumpDoes
  <2>4. /\ Others(t) /\ mem' = Bump(n) /\ Keeps(t) /\ job'[t].pc = "cleanup"
        /\ job'[t].snap = job[t].snap
    BY <1>1, <1>3, <2>3, MoveDoes DEF a, n
  <2>5. Lands(t, Bump(n))
    BY <1>1, <2>3, <2>4 DEF Lands, Carries, Captures, Saving
  <2>6. WorkerRole(t)' /\ ThreadRole(t)' /\ SoundFault(job'[t].view.fault)
    BY <1>1, <2>4, LeaseAssumption DEF Keeps, Shape, Formed, WorkerRole, ThreadRole, Fin
  <2>7. Steps(t)
    BY <1>1, <2>1, <2>3, <2>5, <2>6, StepsFrom DEF Saves
  <2> QED BY <1>1, <2>0, <2>1, <2>3, <2>4, <2>7 DEF ArmReleaseEffect, Arms, Keeps
<1>4. CASE /\ UNCHANGED disk
           /\ Become(t, mem, [Idle EXCEPT
                                !.pc = IF job[t].after = "expired" THEN "swept" ELSE "idle"])
  <2> DEFINE pc == IF job[t].after = "expired" THEN "swept" ELSE "idle"
             j == [Idle EXCEPT !.pc = pc]
  <2>1. pc \in {"idle", "swept"}
    OBVIOUS
  <2>2. Others(t) /\ job'[t] = j /\ mem' = mem
    BY <1>1, <1>4, BecomeDoes
  <2> HIDE DEF pc
  <2>3. /\ j.pc = pc /\ j.lease = NoLease /\ j.after = "none"
        /\ j.view.fault = NoMarker /\ j.snap.fault = NoMarker
    BY DEF Idle, View, Fresh, NoSnapshot
  <2> HIDE DEF j
  <2>4. Shape(t)' /\ Captures(t) /\ Saves(t) /\ SnapStays
    BY <1>1, <1>2, <1>4, <2>1, <2>2, <2>3, LeaseAssumption
       DEF Shape, WorkerRole, ThreadRole, Formed, SoundFault, Fin, Captures, Saving, Saves,
           SnapStays
  <2>5. Steps(t) /\ Waits
    BY <1>1, <1>2, <1>4, <2>2, <2>4, RestsFrom DEF LedgerStays
  <2> QED BY <1>1, <2>1, <2>2, <2>3, <2>4, <2>5 DEF ArmReleaseEffect, Rests, Still
<1> QED BY <1>1, <1>3, <1>4 DEF ArmRelease, ArmFails

(* A handoff begins, and with it a worker if there is room for one; those  *)
(* in gone are done.                                                       *)
Turns(gone, q) == job'[q] = IF q \in gone THEN Idle ELSE job[q]
Enters(w, l) ==
  /\ job[w].pc = "idle"
  /\ job'[w].pc = "w_audit" /\ job'[w].lease = l /\ Shape(w)'
HandOverEffect(l, gone) ==
  /\ Runs /\ disk' = disk /\ LedgerStays /\ mem'.rev > mem.rev
  /\ mem'.active = mem.active /\ mem'.inflight = mem.inflight /\ mem'.wal = mem.wal
  /\ mem'.fault = mem.fault /\ mem'.releasing = NoLease /\ mem'.handoff
  /\ \/ \A q \in Proc : Turns(gone, q)
     \/ \E w \in Worker : Enters(w, l) /\ \A q \in Proc \ {w} : Turns(gone, q)

LEMMA HandOverDoes ==
  ASSUME TypeOK, Core, Up, UNCHANGED <<disk, ledger, issued, boot>>, mem.releasing # NoLease,
         NEW l, NEW gone \in SUBSET Thread, NEW rest \in [Proc -> Job], HandOver(l, rest),
         \A q \in Proc : rest[q] = IF q \in gone THEN Idle ELSE job[q]
  PROVE  HandOverEffect(l, gone)
<1>1. mem.rev # 0 /\ mem.rev \in Nat /\ mem \in Memory /\ mem.waiting \in Nat
  BY Started, FieldsOf DEF MemNamed, Memory
<1>2. PICK left \in Spared .. mem.waiting :
        LET m == Bump([mem EXCEPT !.releasing = NoLease, !.unsafe = FALSE,
                              !.handoff = TRUE, !.waiting = left])
        IN  \/ /\ ~SlotTaken /\ IoOk
               /\ mem' = m
               /\ \E w \in Worker :
                    /\ job[w].pc = "idle"
                    /\ job' = [rest EXCEPT ![w] = [Idle EXCEPT !.pc = "w_audit", !.lease = l]]
            \/ /\ (SlotTaken /\ IoOk) \/ IoFails
               /\ mem' = [m EXCEPT !.handoffFailed = TRUE]
               /\ job' = rest
  BY DEF HandOver
<1> DEFINE n == [mem EXCEPT !.releasing = NoLease, !.unsafe = FALSE,
                            !.handoff = TRUE, !.waiting = left]
           m == Bump(n)
<1>3. left \in Nat
  BY <1>1, <1>2 DEF Spared
<1>4. /\ n \in Memory /\ n.active = mem.active /\ n.inflight = mem.inflight /\ n.wal = mem.wal
      /\ n.fault = mem.fault /\ n.releasing = NoLease /\ n.handoff /\ n.rev = mem.rev
  BY <1>1, <1>3 DEF Memory, LeaseOrNone
<1> HIDE DEF n
<1>5. /\ m \in Memory /\ m.active = mem.active /\ m.inflight = mem.inflight /\ m.wal = mem.wal
      /\ m.fault = mem.fault /\ m.releasing = NoLease /\ m.handoff /\ m.rev = mem.rev + 1
  BY <1>4, BumpDoes
<1>6. /\ \/ mem' = m
         \/ mem' = [m EXCEPT !.handoffFailed = TRUE]
      /\ \/ job' = rest
         \/ \E w \in Worker :
              /\ job[w].pc = "idle"
              /\ job' = [rest EXCEPT ![w] = [Idle EXCEPT !.pc = "w_audit", !.lease = l]]
  BY <1>2 DEF n
<1> HIDE DEF m
<1>7. /\ mem'.active = mem.active /\ mem'.inflight = mem.inflight /\ mem'.wal = mem.wal
      /\ mem'.fault = mem.fault /\ mem'.releasing = NoLease /\ mem'.handoff
      /\ mem'.rev = mem.rev + 1
  BY <1>5, <1>6 DEF Memory
<1>8. Runs /\ disk' = disk /\ LedgerStays /\ mem'.rev > mem.rev
  BY <1>1, <1>7 DEF Runs, Deaf, LedgerStays
<1>9. CASE job' = rest
  BY <1>7, <1>8, <1>9 DEF HandOverEffect, Turns
<1>10. ASSUME NEW w \in Worker, job[w].pc = "idle",
              job' = [rest EXCEPT ![w] = [Idle EXCEPT !.pc = "w_audit", !.lease = l]]
       PROVE  HandOverEffect(l, gone)
  <2> DEFINE j == [Idle EXCEPT !.pc = "w_audit", !.lease = l]
  <2>1. w \in Worker /\ w \in Proc /\ job'[w] = j /\ \A q \in Proc \ {w} : job'[q] = rest[q]
    BY <1>10 DEF Proc
  <2>2. /\ j.pc = "w_audit" /\ j.lease = l /\ j.after = "none" /\ j.view.fault = NoMarker
        /\ j.snap.fault = NoMarker
    BY DEF Idle, View, Fresh, NoSnapshot
  <2> HIDE DEF j
  <2>3. Shape(w)'
    BY <1>1, <1>7, <2>1, <2>2, LeaseAssumption
       DEF Shape, WorkerRole, ThreadRole, Formed, SoundFault, Fin
  <2>4. Enters(w, l) /\ \A q \in Proc \ {w} : Turns(gone, q)
    BY <1>10, <2>1, <2>2, <2>3 DEF Enters, Turns
  <2> QED BY <1>7, <1>8, <1>10, <2>4 DEF HandOverEffect
<1> QED BY <1>6, <1>9, <1>10

CleanUpEffect(t) ==
  \/ HandOverEffect(job[t].lease, {t})
  \/ Rests(t) /\ Still /\ SnapStays

LEMMA CleanUpDoes ==
  ASSUME TypeOK, Core, NEW t \in Thread, CleanUp(t)
  PROVE  job[t].pc = "cleanup" /\ CleanUpEffect(t)
<1>1. /\ Up /\ job[t].pc = "cleanup" /\ job[t].pc # "idle" /\ t \in Proc
      /\ UNCHANGED <<disk, ledger, issued, boot>> /\ SoundFault(mem.fault) /\ mem \in Memory
      /\ Shape(t) /\ mem.rev \in Nat /\ LWork(t) /\ CClean(t) /\ job \in [Proc -> Job]
  BY FieldsOf DEF TypeOK, CleanUp, At, Core, Whole, Each, Sounds, Proc, Where
<1>2. mem.rev # 0
  BY <1>1, Started
<1>3. Idle \in Job
  BY DEF Idle, Job, Pc, View, Fresh, Fence, NoWal, NoMarker, NoSnapshot, Marker, Wal, Snapshot,
         LeaseOrNone, NoLease
<1>4. Finished(t) \in [Proc -> Job]
      /\ \A q \in Proc : Finished(t)[q] = IF q \in {t} THEN Idle ELSE job[q]
  BY <1>1, <1>3 DEF Finished
<1>5. CASE HandOver(job[t].lease, Finished(t))
  <2>1. mem.releasing # NoLease
    BY <1>1 DEF LWork, CClean, Works, Latest, NoLease
  <2> QED BY <1>1, <1>4, <1>5, <2>1, HandOverDoes DEF CleanUpEffect
<1>6. CASE \E unsafe \in BOOLEAN :
             mem' = [mem EXCEPT !.unsafe = unsafe] /\ job' = Finished(t)
  <2>0. /\ mem'.rev = mem.rev /\ mem'.wal = mem.wal /\ mem'.fault = mem.fault
        /\ mem'.handoff = mem.handoff /\ mem'.active = mem.active
        /\ mem'.releasing = mem.releasing /\ mem'.inflight = mem.inflight
    BY <1>1, <1>6 DEF Memory
  <2>1. Others(t) /\ job'[t] = Idle
    BY <1>1, <1>4, <1>6 DEF Others
  <2>2. /\ Idle.pc = "idle" /\ Idle.lease = NoLease /\ Idle.after = "none"
        /\ Idle.view.fault = NoMarker /\ Idle.snap.fault = NoMarker
    BY DEF Idle, View, Fresh, NoSnapshot
  <2>3. Shape(t)' /\ Captures(t) /\ Saves(t) /\ SnapStays
    BY <1>1, <1>2, <1>6, <2>0, <2>1, <2>2, LeaseAssumption
       DEF Shape, WorkerRole, ThreadRole, Formed, SoundFault, Fin, Captures, Saving, Saves,
           SnapStays
  <2>4. Steps(t) /\ Waits
    BY <1>1, <1>2, <1>6, <2>0, <2>1, <2>3, RestsFrom
  <2> QED BY <1>1, <2>0, <2>1, <2>2, <2>3, <2>4 DEF CleanUpEffect, Rests, Still
<1> QED BY <1>1, <1>5, <1>6 DEF CleanUp

(* The audits of a release: the lease may have ended in the ledger.        *)
AuditReleaseEffect(w) ==
  /\ LeaseStays /\ MarkStays /\ FaultStays /\ SnapStays /\ mem'.handoff = mem.handoff
  /\ ledger' \in {ledger, ledger \ {job[w].lease}}
  /\ \/ Latching(w)
     \/ /\ mem'.wal # NoWal /\ ledger' = ledger \ {job[w].lease}
        /\ job'[w].lease = job[w].lease /\ job'[w].after = "handoff"
        /\ job'[w].pc = "f_mark" /\ job'[w].held = mem'.wal /\ mem'.fault = mem.fault

LEMMA AuditReleaseDoes ==
  ASSUME TypeOK, Core, NEW w \in Worker, AuditRelease(w)
  PROVE  job[w].pc = "w_audit" /\ Steps(w) /\ AuditReleaseEffect(w)
<1>1. /\ Up /\ job[w].pc = "w_audit" /\ job[w].pc # "idle" /\ w \in Proc
      /\ UNCHANGED <<disk, issued, boot>> /\ SoundFault(mem.fault) /\ Sound(mem.wal)
      /\ Shape(w) /\ Like(mem) /\ mem \in Memory /\ Saves(w) /\ SnapStays /\ disk'.wal = disk.wal
  BY FieldsOf, MemLike
     DEF AuditRelease, At, Core, Whole, Each, Sounds, Proc, Saves, SnapStays
<1>2. \/ ledger' = ledger \ {job[w].lease} /\ Finish(w, mem, "handoff")
      \/ ledger' \in {ledger, ledger \ {job[w].lease}} /\ Latch(w, mem)
  BY DEF AuditRelease
<1>3. ASSUME Lands(w, mem), Latching(w), ledger' \in {ledger, ledger \ {job[w].lease}}
      PROVE  Steps(w) /\ AuditReleaseEffect(w)
  <2>1. WorkerRole(w)' /\ ThreadRole(w)' /\ SoundFault(job'[w].view.fault)
    BY <1>1, <1>3, RolesFrom DEF Latching, Keeps, Shape, Formed
  <2>2. Steps(w)
    BY <1>1, <1>3, <2>1, StepsFrom
  <2> QED BY <1>1, <1>3, <2>2
          DEF AuditReleaseEffect, Lands, Carries, LeaseStays, MarkStays, FaultStays, Latching,
              SoundFault, Unmarked, NoMarker
<1>4. CASE ledger' \in {ledger, ledger \ {job[w].lease}} /\ Latch(w, mem)
  BY <1>1, <1>3, <1>4, LatchDoes
<1>5. CASE ledger' = ledger \ {job[w].lease} /\ Finish(w, mem, "handoff")
  <2>1. /\ Lands(w, mem)
        /\ \/ mem.wal = NoWal /\ Latching(w)
           \/ /\ mem.wal # NoWal /\ job'[w].lease = job[w].lease /\ job'[w].after = "handoff"
              /\ job'[w].pc = "f_mark" /\ job'[w].held = mem'.wal
              /\ job'[w].view.fault = mem.fault /\ mem'.fault = mem.fault
    BY <1>1, <1>5, FinishDoes
  <2>2. CASE Latching(w)
    BY <1>1, <1>3, <1>5, <2>1, <2>2
  <2>3. CASE /\ mem.wal # NoWal /\ job'[w].lease = job[w].lease /\ job'[w].after = "handoff"
             /\ job'[w].pc = "f_mark" /\ job'[w].held = mem'.wal
             /\ job'[w].view.fault = mem.fault /\ mem'.fault = mem.fault
    <3>1. WorkerRole(w)' /\ ThreadRole(w)' /\ SoundFault(job'[w].view.fault)
      BY <1>1, <2>3, LeaseAssumption DEF WorkerRole, ThreadRole, Fin
    <3>2. Steps(w)
      BY <1>1, <2>1, <3>1, StepsFrom
    <3> QED BY <1>1, <1>5, <2>1, <2>3, <3>2
            DEF AuditReleaseEffect, Lands, Carries, LeaseStays, MarkStays, FaultStays
  <2> QED BY <2>1, <2>2, <2>3
<1> QED BY <1>1, <1>2, <1>4, <1>5

LEMMA ReleaseSavedDoes ==
  ASSUME TypeOK, Core, NEW w \in Worker, ReleaseSaved(w)
  PROVE  job[w].pc = "w_save" /\ Rests(w)
<1>1. /\ Up /\ job[w].pc = "w_save" /\ job[w].pc # "idle" /\ w \in Proc
      /\ UNCHANGED <<issued, boot, ledger>> /\ SoundFault(mem.fault) /\ mem \in Memory
  BY FieldsOf DEF ReleaseSaved, At, Core, Whole, Sounds, Proc
<1>2. Saves(w) /\ disk'.wal = disk.wal
  BY <1>1, SavedDoes DEF ReleaseSaved, Saving
<1>3. CASE End(w, mem)
  BY <1>1, <1>2, <1>3, StoppedRests
<1>4. CASE End(w, [mem EXCEPT !.handoffFailed = TRUE])
  <2> DEFINE m == [mem EXCEPT !.handoffFailed = TRUE]
  <2>1. /\ m \in Memory /\ m.active = mem.active /\ m.releasing = mem.releasing
        /\ m.inflight = mem.inflight /\ m.rev = mem.rev /\ m.wal = mem.wal
        /\ m.fault = mem.fault /\ m.handoff = mem.handoff
    BY <1>1 DEF Memory
  <2> HIDE DEF m
  <2> QED BY <1>1, <1>2, <1>4, <2>1, StoppedRests DEF m
<1> QED BY <1>1, <1>3, <1>4 DEF ReleaseSaved

-----------------------------------------------------------------------------
(* Time, and the calls that only touch the lease or the queue.             *)

Touches == Runs /\ Still /\ job' = job /\ disk' = disk

LEMMA TouchesFrom ==
  ASSUME TypeOK, Core, Up, UNCHANGED <<disk, ledger, job, issued, boot>>,
         mem.rev # 0 \/ mem.fault = NoMarker, mem'.rev # 0,
         mem'.rev = mem.rev \/ mem'.rev = mem.rev + 1,
         mem'.active = mem.active, mem'.releasing = mem.releasing, mem'.inflight = mem.inflight,
         mem'.wal = mem.wal, mem'.fault = mem.fault, mem'.handoff = mem.handoff
  PROVE  Touches
<1>1. Runs
  BY FieldsOf DEF Runs, Deaf, MemNamed
<1>2. Still
  BY DEF Still, Waits, LeaseStays, MarkStays, LedgerStays, FaultStays
<1> QED BY <1>1, <1>2 DEF Touches

LEMMA LapseDoes ==
  ASSUME TypeOK, Core, Lapse
  PROVE  Touches
<1>1. /\ Up /\ mem.active # NoLease /\ mem' = [mem EXCEPT !.due = TRUE] /\ mem \in Memory
      /\ UNCHANGED <<disk, ledger, job, issued, boot>>
  BY FieldsOf DEF Lapse
<1>2. mem.rev # 0
  BY <1>1, Started DEF MemNamed
<1>3. /\ mem'.active = mem.active /\ mem'.releasing = mem.releasing
      /\ mem'.inflight = mem.inflight /\ mem'.rev = mem.rev
      /\ mem'.wal = mem.wal /\ mem'.fault = mem.fault /\ mem'.handoff = mem.handoff
  BY <1>1 DEF Memory
<1> QED BY <1>1, <1>2, <1>3, TouchesFrom

(* The end of a cleanup nobody runs any more, and its repair.              *)
LEMMA FencedDoes ==
  ASSUME TypeOK, Core, FencedCleanUp \/ RepairLifecycle
  PROVE  /\ mem.releasing # NoLease /\ \A t \in Thread : job[t].pc # "cleanup"
         /\ \/ HandOverEffect(mem.releasing, {})
            \/ Touches
<1>1. /\ Up /\ mem.releasing # NoLease /\ \A t \in Thread : job[t].pc # "cleanup"
      /\ UNCHANGED <<disk, ledger, issued, boot>>
      /\ HandOver(mem.releasing, job) \/ (mem' = [mem EXCEPT !.unsafe = TRUE] /\ UNCHANGED job)
  BY DEF FencedCleanUp, RepairLifecycle, Fenced
<1>2. CASE HandOver(mem.releasing, job)
  <2>1. job \in [Proc -> Job]
    BY DEF TypeOK
  <2> QED BY <1>1, <1>2, <2>1, HandOverDoes
<1>3. CASE mem' = [mem EXCEPT !.unsafe = TRUE] /\ UNCHANGED job
  <2>1. mem.rev # 0 /\ mem \in Memory
    BY <1>1, Started, FieldsOf DEF MemNamed
  <2>2. /\ mem'.rev = mem.rev /\ mem'.wal = mem.wal /\ mem'.fault = mem.fault
        /\ mem'.handoff = mem.handoff /\ mem'.active = mem.active
        /\ mem'.releasing = mem.releasing /\ mem'.inflight = mem.inflight
    BY <1>3, <2>1 DEF Memory
  <2> QED BY <1>1, <1>3, <2>1, <2>2, TouchesFrom
<1> QED BY <1>1, <1>2, <1>3

(* Enqueue and the two cancellations change the queue, or tombstone the    *)
(* operation of the grant in flight.                                       *)
LEMMA QueueTouches ==
  ASSUME TypeOK, Core, Up, UNCHANGED <<disk, ledger, job, issued, boot>>,
         mem.rev # 0 \/ mem.fault = NoMarker, NEW m \in Memory, mem' = Bump(m),
         m.active = mem.active, m.releasing = mem.releasing, m.inflight = mem.inflight,
         m.rev = mem.rev, m.wal = mem.wal, m.fault = mem.fault, m.handoff = mem.handoff
  PROVE  Touches
<1>1. /\ mem'.active = mem.active /\ mem'.releasing = mem.releasing
      /\ mem'.inflight = mem.inflight /\ mem'.rev = mem.rev + 1 /\ mem'.rev # 0
      /\ mem'.wal = mem.wal /\ mem'.fault = mem.fault /\ mem'.handoff = mem.handoff
  BY BumpDoes
<1> QED BY <1>1, TouchesFrom

LEMMA EnqueueDoes ==
  ASSUME TypeOK, Core, NEW t \in Thread, Enqueue(t)
  PROVE  Touches
<1> DEFINE m == [mem EXCEPT !.waiting = mem.waiting + 1]
<1>1. /\ Up /\ mem.fault = NoMarker /\ UNCHANGED <<disk, ledger, job, issued, boot>>
      /\ mem' = Bump(m) /\ mem \in Memory
  BY FieldsOf DEF Enqueue, MayTouch, MayStart
<1>2. /\ m \in Memory /\ m.active = mem.active /\ m.releasing = mem.releasing
      /\ m.inflight = mem.inflight /\ m.rev = mem.rev
      /\ m.wal = mem.wal /\ m.fault = mem.fault /\ m.handoff = mem.handoff
  BY <1>1 DEF Memory
<1> HIDE DEF m
<1> QED BY <1>1, <1>2, QueueTouches

LEMMA CancelGrantDoes ==
  ASSUME TypeOK, Core, NEW t \in Thread, CancelGrant(t), TypeOK'
  PROVE  Touches
<1> DEFINE waiting == IF HeadInFlight THEN mem.waiting - 1 ELSE mem.waiting
           m == [mem EXCEPT !.withdrawn = TRUE, !.waiting = waiting]
<1>1. /\ Up /\ mem.inflight # NoLease /\ UNCHANGED <<disk, ledger, job, issued, boot>>
      /\ mem' = Bump(m) /\ mem \in Memory
  BY FieldsOf DEF CancelGrant, MayTouch, MayStart
<1>2. mem'.waiting = waiting
  BY <1>1 DEF Bump, Memory
<1>3. waiting \in Nat /\ mem.rev # 0
  BY <1>1, <1>2, Started DEF TypeOK, Memory, MemNamed
<1> HIDE DEF waiting
<1>4. /\ m \in Memory /\ m.active = mem.active /\ m.releasing = mem.releasing
      /\ m.inflight = mem.inflight /\ m.rev = mem.rev
      /\ m.wal = mem.wal /\ m.fault = mem.fault /\ m.handoff = mem.handoff
  BY <1>1, <1>3 DEF Memory
<1> HIDE DEF m
<1> QED BY <1>1, <1>3, <1>4, QueueTouches

LEMMA CancelTicketDoes ==
  ASSUME TypeOK, Core, NEW t \in Thread, CancelTicket(t)
  PROVE  Touches
<1> DEFINE m == [mem EXCEPT !.waiting = mem.waiting - 1]
<1>1. /\ Up /\ mem.waiting > Spared /\ UNCHANGED <<disk, ledger, job, issued, boot>>
      /\ mem' = Bump(m) /\ mem \in Memory
  BY FieldsOf DEF CancelTicket, MayTouch, MayStart
<1>2. mem.waiting \in Nat /\ mem.waiting # 0 /\ mem.waiting - 1 \in Nat
  BY <1>1 DEF Memory, Spared
<1>3. mem.rev # 0
  BY <1>2, Started
<1>4. /\ m \in Memory /\ m.active = mem.active /\ m.releasing = mem.releasing
      /\ m.inflight = mem.inflight /\ m.rev = mem.rev
      /\ m.wal = mem.wal /\ m.fault = mem.fault /\ m.handoff = mem.handoff
  BY <1>1, <1>2 DEF Memory
<1> HIDE DEF m
<1> QED BY <1>1, <1>3, <1>4, QueueTouches

LEMMA BeginHeartbeatDoes ==
  ASSUME TypeOK, Core, NEW t \in Thread, BeginHeartbeat(t)
  PROVE  Rests(t) /\ Still /\ SnapStays /\ job[t].pc \in {"idle", "swept"}
<1> DEFINE j == [Idle EXCEPT !.pc = "beat", !.lease = mem.active]
<1>1. /\ Up /\ mem.active # NoLease /\ UNCHANGED <<disk, ledger, issued, boot>>
      /\ Become(t, mem, j) /\ job[t].pc \in {"idle", "swept"}
  BY DEF BeginHeartbeat, Validates, MayTouch, MayStart
<1>2. /\ j.pc = "beat" /\ j.lease = mem.active /\ j.after = "none"
      /\ j.view = Idle.view /\ j.snap = Idle.snap
  BY DEF Idle
<1> HIDE DEF j
<1>3. Steps(t) /\ Still /\ job'[t] = j
  BY <1>1, <1>2, BeginsDoes
<1> QED BY <1>1, <1>2, <1>3 DEF Rests, Still, SnapStays

LEMMA HeartbeatDoes ==
  ASSUME TypeOK, Core, NEW t \in Thread, Heartbeat(t)
  PROVE  job[t].pc = "beat" /\ Rests(t)
<1>1. /\ Up /\ job[t].pc = "beat" /\ job[t].pc # "idle" /\ t \in Proc
      /\ UNCHANGED <<issued, boot, ledger, disk>> /\ SoundFault(mem.fault) /\ mem \in Memory
  BY FieldsOf DEF Heartbeat, At, Core, Whole, Sounds, Proc
<1>2. Saves(t) /\ disk'.wal = disk.wal
  BY <1>1 DEF Saves, SnapStays
<1>3. CASE End(t, mem)
  BY <1>1, <1>2, <1>3, StoppedRests
<1>4. CASE End(t, Bump([mem EXCEPT !.due = FALSE]))
  <2> DEFINE n == [mem EXCEPT !.due = FALSE]
             m == Bump(n)
  <2>1. /\ n \in Memory /\ n.active = mem.active /\ n.releasing = mem.releasing
        /\ n.inflight = mem.inflight /\ n.rev = mem.rev /\ n.wal = mem.wal
        /\ n.fault = mem.fault /\ n.handoff = mem.handoff
    BY <1>1 DEF Memory
  <2> HIDE DEF n
  <2>2. /\ m \in Memory /\ m.active = mem.active /\ m.releasing = mem.releasing
        /\ m.inflight = mem.inflight /\ m.rev = mem.rev + 1 /\ m.wal = mem.wal
        /\ m.fault = mem.fault /\ m.handoff = mem.handoff
    BY <2>1, BumpDoes
  <2>3. End(t, m)
    BY <1>4 DEF n
  <2> HIDE DEF m
  <2> QED BY <1>1, <1>2, <2>2, <2>3, StoppedRests
<1> QED BY <1>1, <1>3, <1>4 DEF Heartbeat

LEMMA GiveUpDoes ==
  ASSUME TypeOK, Core, NEW t \in Thread, GiveUp(t)
  PROVE  job[t].pc = "swept" /\ Rests(t)
<1>1. /\ Up /\ job[t].pc = "swept" /\ job[t].pc # "idle" /\ t \in Proc
      /\ UNCHANGED <<issued, boot, ledger, disk>> /\ SoundFault(mem.fault) /\ mem \in Memory
      /\ End(t, mem)
  BY FieldsOf DEF GiveUp, At, Core, Whole, Sounds, Proc
<1>2. Saves(t) /\ disk'.wal = disk.wal
  BY <1>1 DEF Saves, SnapStays
<1> QED BY <1>1, <1>2, StoppedRests

(* A save that ends its call.                                              *)
LEMMA PersistDoes ==
  ASSUME TypeOK, Core, NEW t \in Thread, Persist(t) \/ RepairFailed(t)
  PROVE  job[t].pc \in {"persist", "fix_late"} /\ Rests(t)
<1>1. /\ Up /\ job[t].pc \in {"persist", "fix_late"} /\ job[t].pc # "idle" /\ t \in Proc
      /\ UNCHANGED <<issued, boot, ledger>> /\ SoundFault(mem.fault) /\ mem \in Memory
      /\ End(t, mem) /\ job[t].pc \in Saving
  BY FieldsOf DEF Persist, RepairFailed, At, Core, Whole, Sounds, Proc, Saving
<1>2. Saves(t) /\ disk'.wal = disk.wal
  BY <1>1, SavedDoes DEF Persist, RepairFailed
<1> QED BY <1>1, <1>2, StoppedRests

LEMMA BeginPersistDoes ==
  ASSUME TypeOK, Core, NEW t \in Thread, BeginPersist(t)
  PROVE  Rests(t) /\ Still /\ SnapStays /\ job[t].pc = "idle"
<1> DEFINE j == [Idle EXCEPT !.pc = "persist", !.snap = Payload(mem, FALSE)]
<1>1. /\ Up /\ job[t].pc = "idle" /\ mem.rev > disk.snap.rev /\ t \in Proc
      /\ UNCHANGED <<disk, ledger, issued, boot>> /\ Become(t, mem, j)
      /\ mem \in Memory /\ SoundFault(mem.fault)
  BY FieldsOf DEF BeginPersist, Core, Whole, Sounds, Proc
<1>2. mem.rev # 0
  BY <1>1 DEF TypeOK, Memory, Snapshot
<1>3. /\ j.pc = "persist" /\ j.lease = NoLease /\ j.after = "none"
      /\ j.view.fault = NoMarker /\ j.snap = Payload(mem, FALSE)
  BY DEF Idle, View, Fresh
<1>4. Others(t) /\ job'[t] = j /\ mem' = mem
  BY <1>1, BecomeDoes
<1> HIDE DEF j
<1>5. /\ Payload(mem, FALSE).rev = mem.rev /\ Payload(mem, FALSE).fault = mem.fault
      /\ Named(Payload(mem, FALSE)) = MemNamed
  BY <1>1, PayloadDoes DEF MemNamed
<1> HIDE DEF Payload
<1>6. Captures(t) /\ Saves(t) /\ SnapStays
  BY <1>1, <1>3, <1>4, <1>5 DEF Captures, MemNamed, Saves, SnapStays
<1>7. Shape(t)'
  BY <1>1, <1>2, <1>3, <1>4, <1>5, LeaseAssumption
     DEF Shape, WorkerRole, ThreadRole, Formed, SoundFault, Fin
<1>8. Steps(t) /\ Waits
  BY <1>1, <1>2, <1>4, <1>6, <1>7, RestsFrom
<1> QED BY <1>1, <1>3, <1>4, <1>6, <1>8 DEF Rests, Still

-----------------------------------------------------------------------------
(* The repair.                                                             *)

ReconcileEffect ==
  /\ Up /\ boot' = boot /\ issued' = issued /\ mem' = mem /\ job' = job /\ SnapStays
  /\ disk.wal.state \in {"fault", "repairing"} /\ mem.fault = Marks(disk.wal)
  /\ disk'.wal.state = "repairing" /\ Alike(disk'.wal, disk.wal)
  /\ \A w \in Worker : job[w].pc = "idle"
  /\ \A p \in Proc : job[p].pc \notin Fixing
  /\ ledger' \in {ledger, ledger \ {disk.wal.lease}}

LEMMA ReconcileDoes ==
  ASSUME TypeOK, Core, NEW t \in Thread, Reconcile(t), amiss' = {}
  PROVE  ReconcileEffect
<1>1. /\ Up /\ Repairable({"fault", "repairing"}) /\ UNCHANGED <<mem, job, issued, boot>>
      /\ disk' = [disk EXCEPT !.wal.state = "repairing"]
      /\ ledger' \in {ledger, ledger \ {disk.wal.lease}}
  BY DEF Reconcile, MayStart
<1>2. disk'.wal.state = "repairing" /\ Alike(disk'.wal, disk.wal) /\ SnapStays
  BY <1>1 DEF TypeOK, Wal, Alike, SnapStays
<1>3. \A w \in Worker : job[w].pc = "idle"
  BY DEF Reconcile, Overlapped
<1>4. \A p \in Proc : job[p].pc \notin Fixing
  BY <1>1, <1>3 DEF Repairable, Repairing, Fixing, Proc
<1> QED BY <1>1, <1>2, <1>3, <1>4 DEF ReconcileEffect, Repairable

BeginRepairEffect(t) ==
  /\ LeaseStays /\ SnapStays
  /\ disk.wal.state \in {"repairing", "repaired"} /\ mem.fault = Marks(disk.wal)
  /\ disk'.wal.state = "repaired" /\ Alike(disk'.wal, disk.wal) /\ mem'.wal = disk'.wal
  /\ mem.fault # NoMarker /\ mem'.fault = NoMarker /\ ~mem'.handoff
  /\ ledger' = ledger \ {disk.wal.lease}
  /\ \A w \in Worker : job[w].pc = "idle"
  /\ \A p \in Proc : job[p].pc \notin Fixing
  /\ job'[t].pc = "fix_save" /\ job'[t].lease = disk.wal.lease
  /\ job'[t].view.fault = mem.fault

LEMMA BeginRepairDoes ==
  ASSUME TypeOK, Core, NEW t \in Thread, BeginRepair(t), amiss' = {}
  PROVE  job[t].pc = "idle" /\ Steps(t) /\ BeginRepairEffect(t)
<1> DEFINE w == [disk.wal EXCEPT !.state = "repaired", !.rev = mem.rev + 1]
           n == [mem EXCEPT !.wal = w, !.fence = TRUE, !.fault = NoMarker,
                            !.handoff = FALSE, !.handoffFailed = FALSE, !.grantFailed = FALSE]
           j == [Idle EXCEPT !.pc = "fix_save", !.lease = w.lease,
                             !.view = View(mem, "release"), !.snap = Payload(Bump(n), TRUE)]
<1>1. /\ Up /\ Repairable({"repairing", "repaired"}) /\ UNCHANGED <<issued, boot>>
      /\ disk' = [disk EXCEPT !.wal = w] /\ ledger' = ledger \ {w.lease}
      /\ Become(t, Bump(n), j) /\ job[t].pc = "idle" /\ mem \in Memory /\ t \in Proc
      /\ SoundFault(mem.fault) /\ Sound(disk.wal) /\ mem.rev \in Nat
  BY FieldsOf DEF BeginRepair, MayStart, Proc, Core, Whole, Sounds
<1>2. /\ w \in Wal /\ w.state = "repaired" /\ Alike(w, disk.wal) /\ w.lease = disk.wal.lease
  <2>1. disk.wal \in Wal /\ mem.rev + 1 \in Nat
    BY <1>1 DEF TypeOK
  <2> QED BY <2>1 DEF Wal, Alike
<1>a. SnapStays /\ disk'.wal = w
  BY <1>1 DEF TypeOK, SnapStays
<1> HIDE DEF w
<1>3. disk.wal # NoWal /\ mem.fault = Marks(disk.wal) /\ mem.fault # NoMarker
  BY <1>1 DEF Repairable, NoWal, Sound, Marks, NoMarker
<1>c. \A w_ \in Worker : job[w_].pc = "idle"
  BY DEF BeginRepair, Overlapped
<1>4. \A p \in Proc : job[p].pc \notin Fixing
  BY <1>1, <1>c DEF Repairable, Repairing, Fixing, Proc
<1>5. /\ n \in Memory /\ n.active = mem.active /\ n.releasing = mem.releasing
      /\ n.inflight = mem.inflight /\ n.rev = mem.rev /\ n.wal = w
      /\ n.fault = NoMarker /\ n.handoff = FALSE
  BY <1>1, <1>2 DEF Memory, Marker, NoMarker, LeaseOrNone
<1> HIDE DEF n
<1>6. /\ Bump(n) \in Memory /\ Bump(n).active = mem.active /\ Bump(n).releasing = mem.releasing
      /\ Bump(n).inflight = mem.inflight /\ Bump(n).rev = mem.rev + 1 /\ Bump(n).wal = w
      /\ Bump(n).fault = NoMarker /\ Bump(n).handoff = FALSE
  BY <1>5, BumpDoes
<1>7. /\ Others(t) /\ job'[t] = j /\ mem' = Bump(n)
  BY <1>1, BecomeDoes
<1>8. /\ j.pc = "fix_save" /\ j.lease = w.lease /\ j.after = "none"
      /\ j.view = View(mem, "release") /\ j.snap = Payload(Bump(n), TRUE)
  BY DEF Idle
<1>9. /\ Payload(Bump(n), TRUE).rev = mem.rev + 1 /\ Payload(Bump(n), TRUE).fault = NoMarker
      /\ Named(Payload(Bump(n), TRUE)) = MemNamed /\ View(mem, "release").fault = mem.fault
  BY <1>6, PayloadDoes DEF MemNamed, View
<1> HIDE DEF j, Payload
<1>b. MemNamed' = MemNamed
  BY <1>6, <1>7 DEF MemNamed
<1>10. Captures(t) /\ Saves(t)
  <2>1. job'[t].snap = Payload(Bump(n), TRUE) /\ mem'.rev = mem.rev + 1 /\ mem'.fault = NoMarker
    BY <1>6, <1>7, <1>8
  <2>2. Captures(t)
    BY <1>b, <1>9, <2>1 DEF Captures
  <2> QED BY <1>a, <2>2 DEF Saves
<1>11. Shape(t)'
  <2>1. /\ job'[t].pc = "fix_save" /\ job'[t].after = "none" /\ job'[t].view.fault = mem.fault
        /\ job'[t].snap.fault = NoMarker
    BY <1>7, <1>8, <1>9
  <2>2. SoundFault(mem.fault) /\ mem'.rev # 0
    BY <1>6, <1>7, FieldsOf DEF Core, Whole, Sounds
  <2> QED BY <2>1, <2>2, LeaseAssumption DEF Shape, WorkerRole, ThreadRole, Formed, SoundFault, Fin
<1>12. Frame(t)
  BY <1>1, <1>3, <1>6, <1>7, <1>b DEF Frame, Runs, Deaf
<1> QED BY <1>a, <1>c, <1>1, <1>2, <1>3, <1>4, <1>6, <1>7, <1>8, <1>9, <1>10, <1>11, <1>12
        DEF Steps, BeginRepairEffect, Repairable, LeaseStays

RepairSavedEffect(t) ==
  \/ Rests(t)
  \/ Still /\ Keeps(t) /\ job'[t].pc = "fix_clear" /\ job'[t].held = mem.wal

LEMMA RepairSavedDoes ==
  ASSUME TypeOK, Core, NEW t \in Thread, RepairSaved(t)
  PROVE  job[t].pc = "fix_save" /\ Steps(t) /\ RepairSavedEffect(t)
<1>1. /\ Up /\ job[t].pc = "fix_save" /\ job[t].pc # "idle" /\ t \in Proc
      /\ UNCHANGED <<issued, boot, ledger>> /\ SoundFault(mem.fault) /\ mem \in Memory
      /\ job[t] \in Job /\ Shape(t) /\ CFix(t) /\ job[t].pc \in Saving /\ mem.rev \in Nat
  BY FieldsOf DEF RepairSaved, At, Core, Whole, Each, Sounds, Proc, Saving, Where
<1>2. Saves(t) /\ disk'.wal = disk.wal
  BY <1>1, SavedDoes DEF RepairSaved
<1>3. CASE End(t, Unrepaired(t))
  <2> DEFINE v == job[t].view
             n == [mem EXCEPT !.fault = v.fault, !.handoff = v.handoff,
                              !.handoffFailed = v.handoffFailed,
                              !.grantFailed = v.grantFailed, !.fence = FALSE]
             m == Bump(n)
  <2>1. /\ n \in Memory /\ n.active = mem.active /\ n.releasing = mem.releasing
        /\ n.inflight = mem.inflight /\ n.rev = mem.rev /\ n.wal = mem.wal
        /\ n.fault = job[t].view.fault
    BY <1>1 DEF Memory, Job, Fence
  <2>2. Unrepaired(t) = m
    BY DEF Unrepaired
  <2> HIDE DEF n
  <2>3. /\ m \in Memory /\ m.active = mem.active /\ m.releasing = mem.releasing
        /\ m.inflight = mem.inflight /\ m.rev = mem.rev + 1 /\ m.wal = mem.wal
        /\ m.fault = job[t].view.fault
    BY <2>1, BumpDoes
  <2>4. SoundFault(m.fault) /\ m.fault # NoMarker /\ mem.wal # NoWal
    BY <1>1, <2>3 DEF Shape, Formed, CFix, NoWal
  <2> HIDE DEF m
  <2>5. Rests(t)
    BY <1>1, <1>2, <1>3, <2>2, <2>3, <2>4, StoppedRests
  <2> QED BY <1>1, <2>5 DEF RepairSavedEffect, Rests
<1>4. CASE Move(t, mem, "fix_clear")
  <2>1. /\ Others(t) /\ mem' = mem /\ Keeps(t) /\ job'[t].pc = "fix_clear"
        /\ job'[t].held = mem.wal /\ job'[t].snap = job[t].snap
    BY <1>1, <1>4, MoveDoes
  <2>2. Shape(t)' /\ Captures(t)
    BY <1>1, <2>1, LeaseAssumption, Started
       DEF Shape, WorkerRole, ThreadRole, Formed, Fin, Keeps, Captures, Saving
  <2>3. Steps(t) /\ Waits
    BY <1>1, <1>2, <2>1, <2>2, RestsFrom, Started
  <2> QED BY <1>1, <2>1, <2>3 DEF RepairSavedEffect, Still
<1> QED BY <1>1, <1>3, <1>4 DEF RepairSaved

RepairClearedEffect(t) ==
  \/ Clears(t) /\ LeaseStays /\ Stops(t) /\ mem'.handoff = mem.handoff /\ mem'.fault = mem.fault
  \/ Waits /\ SnapStays /\ Keeps(t) /\ job'[t].pc = "fix_late" /\ mem'.fault # NoMarker

LEMMA RepairClearedDoes ==
  ASSUME TypeOK, Core, NEW t \in Thread, RepairCleared(t)
  PROVE  job[t].pc = "fix_clear" /\ Steps(t) /\ RepairClearedEffect(t)
<1>1. /\ Up /\ job[t].pc = "fix_clear" /\ job[t].pc # "idle" /\ t \in Proc
      /\ UNCHANGED <<issued, boot, ledger>> /\ SoundFault(mem.fault) /\ mem \in Memory
      /\ job[t] \in Job /\ Shape(t) /\ CFix(t) /\ mem.rev \in Nat /\ Sound(mem.wal)
  BY FieldsOf DEF RepairCleared, At, Core, Whole, Each, Sounds, Proc, Where
<1>2. CASE Moved(t, NoWal) /\ End(t, [Now(NoWal) EXCEPT !.fence = FALSE])
  <2> DEFINE m == [Now(NoWal) EXCEPT !.fence = FALSE]
  <2>0. NoWal \in Wal
    BY DEF NoWal, Wal, LeaseOrNone
  <2>1. /\ m \in Memory /\ m.active = mem.active /\ m.releasing = mem.releasing
        /\ m.inflight = mem.inflight /\ m.rev = mem.rev /\ m.wal = NoWal
        /\ m.fault = mem.fault /\ m.handoff = mem.handoff
    BY <1>1, <2>0 DEF Memory, Now
  <2>2. /\ job[t].held # NoWal /\ disk.wal = job[t].held /\ disk'.wal = NoWal /\ SnapStays
        /\ disk.wal.state \in {"completed", "repaired"}
    BY <1>1, <1>2, <2>0, MovedDoes
  <2> HIDE DEF m
  <2>3. Steps(t) /\ Stops(t) /\ Carries(m) /\ mem'.fault = mem.fault
    BY <1>1, <1>2, <2>1, <2>2, EndSteps DEF m, Saves
  <2> QED BY <1>1, <2>1, <2>2, <2>3
          DEF RepairClearedEffect, Clears, LeaseStays, LedgerStays, FaultStays, Carries
<1>3. ASSUME NEW release, UNCHANGED disk,
             SaveNext(t, Bump([mem EXCEPT !.fault = Marks(mem.wal), !.fence = FALSE,
                                          !.handoffFailed = @ \/ release,
                                          !.grantFailed = @ \/ ~release]), "fix_late")
      PROVE  Steps(t) /\ RepairClearedEffect(t)
  <2> DEFINE n == [mem EXCEPT !.fault = Marks(mem.wal), !.fence = FALSE,
                              !.handoffFailed = @ \/ release, !.grantFailed = @ \/ ~release]
  <2>1. Marks(mem.wal) \in Marker /\ Marks(mem.wal) # NoMarker /\ SoundFault(Marks(mem.wal))
    BY <1>1 DEF CFix, Marks, Marker, Memory, Wal, Sound, NoWal, NoMarker, SoundFault
  <2>2. /\ n \in Memory /\ n.active = mem.active /\ n.releasing = mem.releasing
        /\ n.inflight = mem.inflight /\ n.rev = mem.rev /\ n.wal = mem.wal
        /\ n.fault = Marks(mem.wal) /\ n.handoff = mem.handoff
    BY <1>1, <2>1 DEF Memory
  <2>3. SaveNext(t, Bump(n), "fix_late")
    BY <1>3
  <2> HIDE DEF n
  <2>4. /\ Bump(n) \in Memory /\ Bump(n).active = mem.active /\ Bump(n).releasing = mem.releasing
        /\ Bump(n).inflight = mem.inflight /\ Bump(n).rev = mem.rev + 1 /\ Bump(n).wal = mem.wal
        /\ Bump(n).fault = Marks(mem.wal) /\ Bump(n).handoff = mem.handoff
    BY <2>2, BumpDoes
  <2>5. /\ Others(t) /\ mem' = Bump(n) /\ Keeps(t) /\ job'[t].pc = "fix_late"
        /\ job'[t].snap.rev = mem'.rev /\ Named(job'[t].snap) = MemNamed'
        /\ job'[t].snap.fault = mem'.fault
    BY <1>1, <2>3, <2>4, SaveNextDoes
  <2>6. Shape(t)' /\ Captures(t) /\ Saves(t) /\ SnapStays
    BY <1>1, <1>3, <2>1, <2>4, <2>5, LeaseAssumption, Started
       DEF Shape, WorkerRole, ThreadRole, Formed, Fin, Keeps, Captures, Saves, SnapStays
  <2>7. mem.wal # NoWal
    BY <1>1 DEF CFix, NoWal
  <2>8. Steps(t) /\ Waits
    BY <1>1, <1>3, <2>1, <2>4, <2>5, <2>6, <2>7, RestsFrom, Started
  <2> QED BY <2>1, <2>4, <2>5, <2>6, <2>8 DEF RepairClearedEffect
<1> QED BY <1>1, <1>2, <1>3 DEF RepairCleared, NotMoved

-----------------------------------------------------------------------------
(* What the steps do to the shared state, and when.                        *)

Turned(p) ==
  /\ Moves(p)
  /\ \/ /\ job[p].pc = "f_mark"
        /\ disk'.wal.state = disk.wal.state /\ disk'.wal.changed = disk.wal.changed
     \/ /\ job[p].pc = "f_done" /\ disk.wal.state \in {"armed", "completed"}
        /\ disk'.wal.state = "completed" /\ disk'.wal.changed = disk.wal.changed
     \/ /\ job[p].pc = "c_mark" /\ disk'.wal.state = disk.wal.state
        /\ ~disk.wal.changed => disk.wal.state = "armed"
     \/ /\ job[p].pc = "latch" /\ mem'.fault # NoMarker
        /\ disk'.wal.state = "fault" /\ ~disk'.wal.changed
Cleared(p) ==
  /\ Clears(p)
  /\ \/ /\ job[p].pc = "f_clear" /\ job[p].after = "publish" /\ mem'.inflight = NoLease
        /\ mem'.handoff = mem.handoff /\ mem'.fault = mem.fault
     \/ /\ job[p].pc = "f_clear" /\ job[p].after = "handoff"
        /\ mem'.inflight = mem.inflight /\ mem'.fault = mem.fault
     \/ /\ job[p].pc \in {"f_clear", "fix_clear"}
        /\ mem'.inflight = mem.inflight /\ mem'.handoff = mem.handoff
Dropped(p) ==
  /\ Drops(p) /\ job[p].pc \in {"gate", "g_arm", "g_audit", "l_save"}
  /\ job[p].pc = "l_save" => job[p].after = "refused"
ArmedBy(p) ==
  \/ Arms(p, "grant") /\ LeaseStays /\ job[p].pc \in {"g_arm", "c_arm"}
  \/ /\ Arms(p, "release") /\ job[p].pc = "r_arm" /\ mem'.active = NoLease
     /\ mem'.releasing = job[p].lease /\ mem'.inflight = mem.inflight
     /\ mem.active = issued /\ Latest(p) /\ Fits
Audited(p) == Audits(p) /\ job[p].pc = "g_audit"
Revoked(p) ==
  /\ Revokes(p)
  /\ job[p].pc \in {"c_revoke", "b_revoke"}
  /\ mem'.wal = NoWal => mem'.fault = Unmarked
Ended(p) == AuditReleaseEffect(p) /\ job[p].pc = "w_audit"

(* What each needs to know of its own job, and of another one.             *)
Base(p) ==
  /\ Whole /\ Each(p) /\ Shape(p)' /\ Runs /\ Saves(p)
  /\ mem.wal \in Wal /\ disk.wal \in Wal /\ issued \in Nat /\ job[p].lease \in Nat
Near(p, q) ==
  Each(q) /\ Apart(p, q) /\ Apart(q, p) /\ job'[q] = job[q] /\ job[q].lease \in Nat
Stands(q) == LWork(q) /\ LEnd(q) /\ LLatch(q) /\ Where(q)

(* Every job knows this when one of them steps.                            *)
LEMMA BaseHolds ==
  ASSUME TypeOK, Core, NEW p \in Proc, Steps(p)
  PROVE  Base(p) /\ \A q \in Proc \ {p} : Near(p, q)
<1>1. /\ mem.wal \in Wal /\ disk.wal \in Wal /\ issued \in Nat
      /\ \A q \in Proc : job[q].lease \in Nat
  BY LeaseAssumption DEF TypeOK, Memory, Job, LeaseOrNone, NoLease, Lease
<1>2. Base(p)
  BY <1>1 DEF Base, Core, Steps, Frame
<1>3. ASSUME NEW q \in Proc \ {p} PROVE Near(p, q)
  BY <1>1 DEF Near, Core, Steps, Frame, Others
<1> QED BY <1>2, <1>3

(* What the rest of the daemon keeps while the job of p takes such a step. *)
Spares(p) ==
  /\ Whole'
  /\ \A q \in Proc \ {p} : Near(p, q) => Stands(q)'
  /\ \A q \in Proc \ {p} : \A r \in Proc \ {p, q} :
       Near(p, q) /\ Near(p, r) /\ Near(q, r) => PRace(q, r)'

Shared(p) ==
  \/ Waits \/ Turned(p) \/ Cleared(p) \/ Dropped(p) \/ ArmedBy(p) \/ Audited(p)
  \/ Revoked(p) \/ Ended(p) \/ (p \in Thread /\ BeginRepairEffect(p))

(* A publication whose snapshot was just saved, and the jobs that grant.   *)
Sealing(p) == job[p].pc \in {"f_done", "f_clear"} /\ job[p].after = "publish"
Seals(p) ==
  /\ Sealing(p)' => \/ Sealing(p)
                    \/ /\ job[p].pc = "f_snap" /\ job[p].after = "publish"
                       /\ mem.rev = job[p].view.rev
                       /\ disk'.snap = Newer(disk.snap, job[p].snap)
  /\ job'[p].pc = "f_snap" /\ job'[p].after = "publish" =>
       job'[p].snap.rev = job'[p].view.rev
Grants(p) ==
  job'[p].pc \in GrantPc => job[p].pc \in GrantPc /\ job'[p].lease = job[p].lease

Acts(p) ==
  /\ Steps(p) /\ Shared(p) /\ Stands(p)' /\ Seals(p) /\ Grants(p)
  /\ \A q \in Proc \ {p} : Apart(p, q)' /\ Apart(q, p)'

-----------------------------------------------------------------------------
(* What each such step leaves the shared state and the other jobs.         *)

LEMMA WaitsSpares ==
  ASSUME NEW p \in Proc, Base(p), Waits
  PROVE  Spares(p)
<1>1. Whole'
  <2>1. Sounds'
    BY DEF Base, Waits, Sounds, MarkStays, FaultStays, Whole, Each, Shape, Saves, SnapStays,
       Formed
  <2>2. Boots'
    BY DEF Base, Boots, Whole, Runs, Up
  <2>3. Last'
    BY LeaseAssumption DEF Base, Whole, Runs, Last, MemNamed, Waits, LeaseStays, LedgerStays
  <2>4. Twin'
    BY DEF Base, Waits, Twin, MarkStays, FaultStays, Whole, Runs
  <2>5. Owned'
    BY DEF Base, Waits, Owned, MemNamed, Fits, LeaseStays, MarkStays, Whole, Runs
  <2>6. Closed'
    BY DEF Base, Waits, Closed, MarkStays, LedgerStays, Whole
  <2>7. Retiring'
    BY DEF Base, Waits, Retiring, Mine, LeaseStays, MarkStays, LedgerStays, Whole, Runs
  <2>8. Held'
    BY DEF Base, Waits, Held, LeaseStays, MarkStays, LedgerStays, Whole, Runs
  <2> QED BY <2>1, <2>2, <2>3, <2>4, <2>5, <2>6, <2>7, <2>8 DEF Whole
<1>2. ASSUME NEW q \in Proc \ {p}, Near(p, q) PROVE Stands(q)'
  <2>1. LWork(q)' /\ LEnd(q)' /\ LLatch(q)'
    BY <1>2 DEF Base, Near, Waits, LWork, LEnd, LLatch, Latest, Works, Fits, LeaseStays,
       MarkStays, Each, Runs
  <2>2. CGate(q)' /\ CAudit(q)' /\ CPub(q)' /\ CUndo(q)' /\ CPend(q)' /\ CComp(q)'
    BY <1>2 DEF Base, Near, Waits, Where, CGate, CAudit, CPub, CUndo, CPend, CComp, Mine, Holds,
       State, LeaseStays, MarkStays, LedgerStays, FaultStays, Each, Runs
  <2>3. CAfter(q)' /\ CMark(q)' /\ CRev(q)' /\ CBrev(q)' /\ CRef(q)'
    BY <1>2 DEF Base, Near, Waits, Where, CAfter, CMark, CRev, CBrev, CRef, Mine, Latest, Holds,
       LeaseStays, MarkStays, LedgerStays, Each, Runs
  <2>4. CRarm(q)' /\ CClean(q)' /\ CEnd(q)' /\ CRace(q)' /\ CFix(q)'
    BY <1>2 DEF Base, Near, Waits, Where, CRarm, CClean, CEnd, CRace, CFix, Raced, Mine, InEnd,
       LeaseStays, MarkStays, LedgerStays, FaultStays, Each, Runs
  <2> QED BY <2>1, <2>2, <2>3, <2>4 DEF Stands, Where
<1>3. ASSUME NEW q \in Proc \ {p}, NEW r \in Proc \ {p, q}, Near(p, q), Near(p, r),
             Near(q, r)
      PROVE  PRace(q, r)'
  BY <1>3 DEF Base, Near, Waits, PRace, InEnd, Raced, Mine, MarkStays, Apart, Runs
<1> QED BY <1>1, <1>2, <1>3 DEF Spares

LEMMA TurnedSpares ==
  ASSUME NEW p \in Proc, Base(p), Turned(p)
  PROVE  Spares(p)
<1>1. Whole'
  <2>1. Sounds'
    BY DEF Base, Turned, Sounds, Sound, Moves, FaultStays, SnapStays, Alike, Whole
  <2>2. Boots'
    BY DEF Base, Turned, Boots, Whole, Each, Shape, Runs, Formed, Idle
  <2>3. Last'
    BY LeaseAssumption DEF Base, Whole, Runs, Last, MemNamed, Turned, Moves, LeaseStays,
       LedgerStays
  <2>4. Twin'
    BY DEF Turned, Twin, Alike, Moves
  <2>5. Owned'
    BY LeaseAssumption DEF Base, Whole, Runs, Owned, Fits, Alike, Turned, Moves, LeaseStays,
       MemNamed
  <2>6. Closed'
    BY DEF Proc, Base, Turned, Closed, Moves, LedgerStays, Alike, Whole, Each, Shape,
       WorkerRole, ThreadRole, Fin, Where, CPub, CUndo, CEnd, Mine, InEnd, Holds
  <2>7. Retiring'
    BY LeaseAssumption DEF Base, Whole, Runs, Retiring, Owned, Fits, Alike, Mine, Sounds, Sound,
       Turned, Moves, LeaseStays, LedgerStays, MemNamed, NoLease, NoWal
  <2>8. Held'
    BY DEF Base, Turned, Held, Moves, LeaseStays, Whole
  <2> QED BY <2>1, <2>2, <2>3, <2>4, <2>5, <2>6, <2>7, <2>8 DEF Whole
<1>2. ASSUME NEW q \in Proc \ {p}, Near(p, q) PROVE Stands(q)'
  <2>1. LWork(q)' /\ LEnd(q)' /\ LLatch(q)'
    BY <1>2 DEF Base, Near, Turned, LWork, LEnd, LLatch, Latest, Works, Fits, Alike, Moves,
       LeaseStays, Each, Runs
  <2>2. CGate(q)' /\ CAudit(q)' /\ CPub(q)' /\ CUndo(q)' /\ CPend(q)' /\ CComp(q)'
    <3>1. CGate(q)' /\ CAudit(q)' /\ CPub(q)'
      BY <1>2 DEF Proc, Base, Near, Turned, LWork, LLatch, Where, CGate, CAudit, CPub, CEnd,
         Mine, InEnd, Fin, Latest, Fixing, Holds, GrantPc, Comp, Works, Moves, LeaseStays, Each,
         Apart, POne, InGrant, Shape, WorkerRole, Runs
    <3>2. CUndo(q)' /\ CPend(q)' /\ CComp(q)'
      BY <1>2 DEF Proc, Base, Near, Turned, LWork, LLatch, Where, CUndo, CPend, CComp, CEnd,
         Mine, InEnd, Fin, Latest, Fixing, Holds, GrantPc, Comp, Works, Moves, LeaseStays, Each,
         Apart, POne, InGrant, Shape, WorkerRole, Runs
    <3> QED BY <3>1, <3>2
  <2>3. CAfter(q)' /\ CMark(q)' /\ CRev(q)' /\ CBrev(q)' /\ CRef(q)'
    BY <1>2, SMTT(30) DEF Proc, Base, Near, Turned, LWork, LLatch, Where, CAfter, CMark, CRev,
       CBrev, CRef, CEnd, Mine, InEnd, Fin, Latest, Fixing, Holds, Comp, Works, Moves, LeaseStays,
       LedgerStays, Each, Apart, POne, InGrant, Shape, WorkerRole, Runs
  <2>4. CRarm(q)' /\ CClean(q)' /\ CEnd(q)' /\ CRace(q)' /\ CFix(q)'
    BY <1>2, SMTT(30) DEF Proc, Base, Near, Turned, LWork, LEnd, LLatch, Where, CRarm, CClean,
       CEnd, CRace, CFix, NoLease, Mine, InEnd, NoWal, Fin, Latest, Fixing, Comp, Works, Fits,
       Alike, Moves, LeaseStays, LedgerStays, FaultStays, Each, Apart, POne, InGrant, Runs
  <2> QED BY <2>1, <2>2, <2>3, <2>4 DEF Stands, Where
<1>3. ASSUME NEW q \in Proc \ {p}, NEW r \in Proc \ {p, q}, Near(p, q), Near(p, r),
             Near(q, r)
      PROVE  PRace(q, r)'
  BY <1>3, LeaseAssumption, ZenonT(40) DEF Proc, Base, Near, Turned, PRace, InEnd, Raced, Mine,
     Fin, Moves, NoMarker, FaultStays, SoundFault, Each, Apart, PGrant, POne, PWork, Fixing,
     Latest, InGrant, Comp, Shape, LWork, LLatch, Works, ThreadRole
<1> QED BY <1>1, <1>2, <1>3 DEF Spares

LEMMA ClearedSpares ==
  ASSUME NEW p \in Proc, Base(p), Cleared(p)
  PROVE  Spares(p)
<1>1. Whole'
  BY DEF Base, Cleared, Whole, Sounds, Boots, Last, Twin, Owned, Closed, Retiring, Held, NoWal,
     Mine, MemNamed, Fits, Alike, Up, Sound, Clears, LedgerStays, FaultStays, SnapStays, Each,
     Runs, Fin, Where, CPub
<1>2. ASSUME NEW q \in Proc \ {p}, Near(p, q) PROVE Stands(q)'
  <2>1. LWork(q)' /\ LEnd(q)' /\ LLatch(q)'
    BY <1>2 DEF Base, Near, Cleared, LWork, LEnd, LLatch, Latest, Works, Fits, Alike, Clears,
       Each, Runs
  <2>2. CGate(q)' /\ CAudit(q)' /\ CPub(q)' /\ CUndo(q)' /\ CPend(q)' /\ CComp(q)'
    <3>1. CGate(q)' /\ CAudit(q)' /\ CPub(q)'
      BY <1>2 DEF Proc, Base, Near, Cleared, LWork, Where, CGate, CAudit, CPub, CEnd, CFix,
         Mine, InEnd, Fin, Holds, Comp, State, Works, Clears, Each, Apart, POne, InGrant, Shape,
         WorkerRole, Runs
    <3>2. CUndo(q)' /\ CPend(q)' /\ CComp(q)'
      BY <1>2 DEF Proc, Base, Near, Cleared, LWork, Where, CUndo, CPend, CComp, CEnd, CFix,
         Mine, InEnd, Fin, Holds, Comp, State, Works, Clears, Each, Apart, POne, InGrant, Shape,
         WorkerRole, Runs
    <3> QED BY <3>1, <3>2
  <2>3. CAfter(q)' /\ CMark(q)' /\ CRev(q)' /\ CBrev(q)' /\ CRef(q)'
    BY <1>2, SMTT(30) DEF Proc, Base, Near, Cleared, LWork, Where, CAfter, CMark, CRev, CBrev,
       CRef, CEnd, CFix, Mine, InEnd, Fin, Latest, Holds, Comp, Works, Clears, LedgerStays, Each,
       Apart, POne, InGrant, Shape, WorkerRole, Runs
  <2>4. CRarm(q)' /\ CClean(q)' /\ CEnd(q)' /\ CRace(q)' /\ CFix(q)'
    BY <1>2, SMTT(30) DEF Proc, Base, Near, Cleared, LWork, LEnd, Where, CPub, CUndo, CRarm,
       CClean, CEnd, CRace, CFix, Raced, Mine, InEnd, Fin, Fixing, Holds, State, Works, Clears,
       LedgerStays, FaultStays, Each, Apart, PWork, PFix, Shape, WorkerRole, ThreadRole, Whole,
       Runs, Closed
  <2> QED BY <2>1, <2>2, <2>3, <2>4 DEF Stands, Where
<1>3. ASSUME NEW q \in Proc \ {p}, NEW r \in Proc \ {p, q}, Near(p, q), Near(p, r),
             Near(q, r)
      PROVE  PRace(q, r)'
  <2>1. SUFFICES ASSUME job[q].pc = "c_arm", InEnd(r) PROVE FALSE
    BY <1>3 DEF PRace, Near, InEnd
  <2>2. Raced /\ Latest(r) /\ r \in Worker
    BY <1>3, <2>1 DEF Near, Apart, PRace, Each, LWork, Works, InEnd, Shape, ThreadRole, Proc
  <2>3. CASE job[p].pc = "fix_clear"
    BY <2>2, <2>3 DEF Base, Each, Where, CFix, Raced
  <2>4. CASE job[p].pc = "f_clear" /\ p \in Thread
    BY <2>2, <2>4 DEF Base, Each, Shape, ThreadRole, Where, CPub, CUndo, Holds, Mine, Raced, Fin
  <2>5. CASE job[p].pc = "f_clear" /\ p \in Worker
    BY <1>3, <2>2, <2>5 DEF Base, Each, LWork, Works, Near, Apart, PWork, Fin
  <2> QED BY <2>3, <2>4, <2>5 DEF Cleared, Proc
<1> QED BY <1>1, <1>2, <1>3 DEF Spares

LEMMA DroppedSpares ==
  ASSUME NEW p \in Proc, Base(p), Dropped(p)
  PROVE  Spares(p)
<1>1. Whole'
  <2>1. Sounds'
    BY DEF Base, Dropped, Sounds, Drops, MarkStays, Whole, Each, Shape, Saves, SnapStays, Formed
  <2>2. Boots'
    BY DEF Base, Boots, Whole, Runs, Up
  <2>3. Last'
    BY LeaseAssumption DEF Base, Whole, Runs, Last, MemNamed, Dropped, Drops, LedgerStays,
       NoLease
  <2>4. Twin'
    BY DEF Base, Dropped, Twin, Up, Drops, MarkStays, Whole, Each, Shape, Formed, Idle, Boots
  <2>5. Owned'
    BY DEF Base, Dropped, Owned, MemNamed, Fits, Drops, MarkStays, Whole, Runs
  <2>6. Closed'
    BY DEF Base, Dropped, Closed, Drops, MarkStays, LedgerStays, Whole
  <2>7. Retiring'
    BY DEF Base, Dropped, Retiring, Mine, Drops, MarkStays, LedgerStays, Whole, Runs
  <2>8. Held'
    BY DEF Base, Dropped, Held, NoLease, Drops, MarkStays, LedgerStays, Whole, Each, Runs,
       MemNamed, Where, CGate, CAudit, CRef, Latest, Fixing, Last
  <2> QED BY <2>1, <2>2, <2>3, <2>4, <2>5, <2>6, <2>7, <2>8 DEF Whole
<1>2. ASSUME NEW q \in Proc \ {p}, Near(p, q) PROVE Stands(q)'
  <2>1. LWork(q)' /\ LEnd(q)' /\ LLatch(q)'
    BY <1>2 DEF Base, Near, Dropped, LWork, LEnd, LLatch, Latest, Works, Fits, Drops, MarkStays,
       Each, Runs
  <2>2. CGate(q)' /\ CAudit(q)' /\ CPub(q)' /\ CUndo(q)' /\ CPend(q)' /\ CComp(q)'
    BY <1>2 DEF Proc, Base, Near, Dropped, LWork, Where, CGate, CAudit, CPub, CUndo, CPend,
       CComp, Mine, Fin, Latest, Fixing, Holds, GrantPc, Comp, State, Works, Drops, MarkStays,
       LedgerStays, Each, Apart, POne, InGrant, Shape, WorkerRole, Runs
  <2>3. CAfter(q)' /\ CMark(q)' /\ CRev(q)' /\ CBrev(q)' /\ CRef(q)'
    BY <1>2 DEF Base, Near, Dropped, Where, CAfter, CMark, CRev, CBrev, CRef, Mine, Latest,
       Holds, Drops, MarkStays, LedgerStays, Each, Runs
  <2>4. CRarm(q)' /\ CClean(q)' /\ CEnd(q)' /\ CRace(q)' /\ CFix(q)'
    BY <1>2 DEF Base, Near, Dropped, Where, CRarm, CClean, CEnd, CRace, CFix, Raced, Mine,
       InEnd, Drops, MarkStays, LedgerStays, Each, Runs
  <2> QED BY <2>1, <2>2, <2>3, <2>4 DEF Stands, Where
<1>3. ASSUME NEW q \in Proc \ {p}, NEW r \in Proc \ {p, q}, Near(p, q), Near(p, r),
             Near(q, r)
      PROVE  PRace(q, r)'
  BY <1>3 DEF Base, Near, Dropped, PRace, InEnd, Raced, Mine, Drops, MarkStays, Apart, Runs
<1> QED BY <1>1, <1>2, <1>3 DEF Spares

LEMMA ArmedBySpares ==
  ASSUME NEW p \in Proc, Base(p), ArmedBy(p)
  PROVE  Spares(p)
<1>1. Whole'
  <2>1. Sounds'
    BY DEF Base, ArmedBy, Sounds, Sound, Arms, SnapStays, Whole
  <2>2. Boots'
    BY DEF Base, Boots, Whole, Runs, Up
  <2>3. Last'
    BY DEF Base, ArmedBy, Last, MemNamed, Arms, LeaseStays, LedgerStays, Whole, Each, Runs,
       LWork, Latest, Works, Boots
  <2>4. Twin'
    BY DEF ArmedBy, Twin, Alike, Arms
  <2>5. Owned'
    BY DEF Base, ArmedBy, Owned, Fits, Alike, Arms, Each, Runs, LWork, Latest, GrantPc, Comp,
       Works
  <2>6. Closed'
    BY DEF ArmedBy, Closed, Arms
  <2>7. Retiring'
    BY DEF Base, ArmedBy, Retiring, NoWal, Mine, Arms, LeaseStays, Each, Runs, LWork, Where,
       CGate, CRace, Raced, Latest, Works
  <2>8. Held'
    BY DEF Base, ArmedBy, Held, LeaseStays, Whole, Each, MemNamed, Where, CGate, CComp, Comp,
       Last
  <2> QED BY <2>1, <2>2, <2>3, <2>4, <2>5, <2>6, <2>7, <2>8 DEF Whole
<1>2. ASSUME NEW q \in Proc \ {p}, Near(p, q) PROVE Stands(q)'
  <2>1. LWork(q)' /\ LEnd(q)' /\ LLatch(q)'
    BY <1>2 DEF Base, Near, ArmedBy, LWork, LEnd, LLatch, Where, CRarm, Latest, GrantPc, Comp,
       Works, Fits, Alike, Arms, LeaseStays, Each, Runs
  <2>2. CGate(q)' /\ CAudit(q)' /\ CPub(q)' /\ CUndo(q)' /\ CPend(q)' /\ CComp(q)'
    BY <1>2 DEF Base, Near, ArmedBy, LWork, Where, CGate, CAudit, CPub, CUndo, CPend, CComp,
       NoWal, GrantPc, Comp, State, Works, Arms, LeaseStays, Each, Apart, PGrant, Runs
  <2>3. CAfter(q)' /\ CMark(q)' /\ CRev(q)' /\ CBrev(q)' /\ CRef(q)'
    BY <1>2 DEF Base, Near, ArmedBy, Where, CAfter, CMark, CRev, CBrev, CRef, NoWal, Latest,
       Arms, LeaseStays, LedgerStays, Each, Runs
  <2>4. CRarm(q)' /\ CClean(q)' /\ CEnd(q)' /\ CRace(q)' /\ CFix(q)'
    BY <1>2 DEF Base, Near, ArmedBy, LWork, Where, CRarm, CClean, CEnd, CRace, CFix, Raced,
       Mine, InEnd, NoWal, Latest, GrantPc, Works, Arms, LeaseStays, LedgerStays, Each, Apart,
       PGrant, PRace, Runs
  <2> QED BY <2>1, <2>2, <2>3, <2>4 DEF Stands, Where
<1>3. ASSUME NEW q \in Proc \ {p}, NEW r \in Proc \ {p, q}, Near(p, q), Near(p, r),
             Near(q, r)
      PROVE  PRace(q, r)'
  BY <1>3 DEF Near, ArmedBy, PRace, InEnd, Raced, Arms, NoWal, Apart
<1> QED BY <1>1, <1>2, <1>3 DEF Spares

LEMMA AuditedSpares ==
  ASSUME NEW p \in Proc, Base(p), Audited(p)
  PROVE  Spares(p)
<1>1. Whole'
  BY DEF Base, Audited, Whole, Sounds, Boots, Last, Twin, Owned, Closed, Retiring, Held, NoWal,
     MemNamed, Fits, Fresh, Audits, MarkStays, SnapStays, Each, Runs, LWork, Where, CAudit,
     Latest, Holds, GrantPc, Works
<1>2. ASSUME NEW q \in Proc \ {p}, Near(p, q) PROVE Stands(q)'
  <2>1. LWork(q)' /\ LEnd(q)' /\ LLatch(q)'
    BY <1>2 DEF Base, Near, Audited, LWork, LEnd, LLatch, Latest, GrantPc, Works, Each, Apart,
       PGrant, Runs
  <2>2. CGate(q)' /\ CAudit(q)' /\ CPub(q)' /\ CUndo(q)' /\ CPend(q)' /\ CComp(q)'
    BY <1>2 DEF Near, Audited, LWork, CGate, CAudit, CPub, CUndo, CPend, CComp, GrantPc, Works,
       Each, Apart, PGrant
  <2>3. CAfter(q)' /\ CMark(q)' /\ CRev(q)' /\ CBrev(q)' /\ CRef(q)'
    BY <1>2 DEF Base, Near, Audited, LWork, CAfter, CMark, CRev, CBrev, CRef, Latest, GrantPc,
       Comp, Works, Each, Apart, PGrant, Runs
  <2>4. CRarm(q)' /\ CClean(q)' /\ CEnd(q)' /\ CRace(q)' /\ CFix(q)'
    BY <1>2 DEF Base, Near, Audited, LWork, Where, CAudit, CRarm, CClean, CEnd, CRace, CFix,
       InEnd, GrantPc, Comp, Works, Each, Apart, PGrant
  <2> QED BY <2>1, <2>2, <2>3, <2>4 DEF Stands, Where
<1>3. ASSUME NEW q \in Proc \ {p}, NEW r \in Proc \ {p, q}, Near(p, q), Near(p, r),
             Near(q, r)
      PROVE  PRace(q, r)'
  BY <1>3 DEF Base, Near, Audited, PRace, InEnd, Raced, Mine, Audits, MarkStays, Apart, Runs
<1> QED BY <1>1, <1>2, <1>3 DEF Spares

LEMMA RevokedSpares ==
  ASSUME NEW p \in Proc, Base(p), Revoked(p)
  PROVE  Spares(p)
<1>1. Whole'
  BY DEF Base, Revoked, Whole, Sounds, Boots, Last, Twin, Owned, Closed, Retiring, Held, Mine,
     MemNamed, Fits, Up, Revokes, MarkStays, SnapStays, FaultStays, Runs
<1>2. ASSUME NEW q \in Proc \ {p}, Near(p, q) PROVE Stands(q)'
  <2>1. LWork(q)' /\ LEnd(q)' /\ LLatch(q)'
    BY <1>2 DEF Base, Near, Revoked, LWork, LEnd, LLatch, Latest, Works, Fits, Revokes,
       MarkStays, Each, Runs
  <2>2. CGate(q)' /\ CAudit(q)' /\ CPub(q)' /\ CUndo(q)' /\ CPend(q)' /\ CComp(q)'
    BY <1>2 DEF Proc, Base, Near, Revoked, LWork, CGate, CAudit, CPub, CUndo, CPend, CComp, Fin,
       GrantPc, Comp, Works, Each, Apart, POne, InGrant, Shape, WorkerRole
  <2>3. CAfter(q)' /\ CMark(q)' /\ CRev(q)' /\ CBrev(q)' /\ CRef(q)'
    BY <1>2 DEF Proc, Base, Near, Revoked, LWork, CAfter, CMark, CRev, CBrev, CRef, Fin, Latest,
       Comp, Works, Each, Apart, POne, InGrant, Shape, WorkerRole, Runs
  <2>4. CRarm(q)' /\ CClean(q)' /\ CEnd(q)' /\ CRace(q)' /\ CFix(q)'
    BY <1>2 DEF Proc, Base, Near, Revoked, LWork, Where, CBrev, CRarm, CClean, CEnd, CRace,
       CFix, Mine, InEnd, NoWal, Fin, Comp, Works, Revokes, MarkStays, FaultStays, Each, Apart,
       POne, InGrant, Shape, WorkerRole, Runs
  <2> QED BY <2>1, <2>2, <2>3, <2>4 DEF Stands, Where
<1>3. ASSUME NEW q \in Proc \ {p}, NEW r \in Proc \ {p, q}, Near(p, q), Near(p, r),
             Near(q, r)
      PROVE  PRace(q, r)'
  BY <1>3 DEF Proc, Base, Near, Revoked, PRace, InEnd, SoundFault, Each, Apart, PGrant, POne,
     PWork, PClean, InGrant, Comp, Shape, LWork, Works, ThreadRole
<1> QED BY <1>1, <1>2, <1>3 DEF Spares

LEMMA EndedSpares ==
  ASSUME NEW p \in Proc, Base(p), Ended(p)
  PROVE  Spares(p)
<1>1. Whole'
  BY DEF Proc, Base, Ended, Whole, Sounds, Boots, Last, Twin, Owned, Closed, Retiring, Held,
     MemNamed, Fits, AuditReleaseEffect, LeaseStays, MarkStays, FaultStays, SnapStays, Each,
     Shape, Runs, ThreadRole, Formed, Idle, LWork, LEnd, Works
<1>2. ASSUME NEW q \in Proc \ {p}, Near(p, q) PROVE Stands(q)'
  <2>1. LWork(q)' /\ LEnd(q)' /\ LLatch(q)'
    BY <1>2 DEF Base, Near, Ended, LWork, LEnd, LLatch, Latest, Works, Fits, AuditReleaseEffect,
       LeaseStays, MarkStays, Each, Runs
  <2>2. CGate(q)' /\ CAudit(q)' /\ CPub(q)' /\ CUndo(q)' /\ CPend(q)' /\ CComp(q)'
    BY <1>2 DEF Base, Near, Ended, Where, CGate, CAudit, CPub, CUndo, CPend, CComp, CEnd, Mine,
       InEnd, NoWal, Holds, AuditReleaseEffect, LeaseStays, MarkStays, Each, Runs
  <2>3. CAfter(q)' /\ CMark(q)' /\ CRev(q)' /\ CBrev(q)' /\ CRef(q)'
    BY <1>2 DEF Base, Near, Ended, Where, CAfter, CMark, CRev, CBrev, CRef, Mine, Latest, Holds,
       AuditReleaseEffect, LeaseStays, MarkStays, Each, Runs
  <2>4. CRarm(q)' /\ CClean(q)' /\ CEnd(q)' /\ CRace(q)' /\ CFix(q)'
    BY <1>2 DEF Base, Near, Ended, Where, CRarm, CClean, CEnd, CRace, CFix, Raced, Mine, InEnd,
       AuditReleaseEffect, LeaseStays, MarkStays, FaultStays, Each, Runs
  <2> QED BY <2>1, <2>2, <2>3, <2>4 DEF Stands, Where
<1>3. ASSUME NEW q \in Proc \ {p}, NEW r \in Proc \ {p, q}, Near(p, q), Near(p, r),
             Near(q, r)
      PROVE  PRace(q, r)'
  BY <1>3 DEF Proc, Base, Near, Ended, PRace, InEnd, Each, Apart, PGrant, PWork, Comp, Shape,
     LWork, Works, ThreadRole
<1> QED BY <1>1, <1>2, <1>3 DEF Spares

LEMMA BeginRepairSpares ==
  ASSUME NEW p \in Proc, Base(p), BeginRepairEffect(p), p \in Thread
  PROVE  Spares(p)
<1>1. Whole'
  <2>1. Sounds'
    BY DEF Base, BeginRepairEffect, Sounds, Sound, SoundFault, SnapStays, Marks, Alike, Whole
  <2>2. Boots'
    BY DEF Base, Boots, Whole, Runs, Up
  <2>3. Last'
    BY DEF Base, BeginRepairEffect, Last, MemNamed, LeaseStays, Whole, Runs, Boots
  <2>4. Twin'
    BY DEF BeginRepairEffect, Twin, Alike
  <2>5. Owned'
    BY LeaseAssumption DEF Base, Whole, Runs, Owned, Fits, Alike, MemNamed, NoWal,
       BeginRepairEffect, LeaseStays
  <2>6. Closed'
    BY DEF BeginRepairEffect, Closed, Alike
  <2>7. Retiring'
    BY LeaseAssumption DEF Base, Whole, Runs, Retiring, Owned, Fits, Alike, Mine,
       BeginRepairEffect, LeaseStays, MemNamed, Sounds, Sound, Twin, Closed, NoWal, NoMarker,
       NoLease
  <2>8. Held'
    BY DEF Base, BeginRepairEffect, Held, NoWal, LeaseStays, Whole
  <2> QED BY <2>1, <2>2, <2>3, <2>4, <2>5, <2>6, <2>7, <2>8 DEF Whole
<1>2. ASSUME NEW q \in Proc \ {p}, Near(p, q) PROVE Stands(q)'
  <2>1. LWork(q)' /\ LEnd(q)' /\ LLatch(q)'
    BY <1>2 DEF Base, Near, BeginRepairEffect, LWork, LEnd, LLatch, NoWal, Latest, Works, Fits,
       Alike, LeaseStays, Each, Runs
  <2>2. CGate(q)' /\ CAudit(q)' /\ CPub(q)' /\ CUndo(q)' /\ CPend(q)' /\ CComp(q)'
    BY <1>2 DEF Base, Near, BeginRepairEffect, Where, CGate, CAudit, CPub, CUndo, CPend, CComp,
       NoWal, State, LeaseStays, Each, Runs
  <2>3. CAfter(q)' /\ CMark(q)' /\ CRev(q)' /\ CBrev(q)' /\ CRef(q)'
    BY <1>2 DEF Base, Near, BeginRepairEffect, Where, CAfter, CMark, CRev, CBrev, CRef, Latest,
       LeaseStays, Each, Runs
  <2>4. CRarm(q)' /\ CClean(q)' /\ CEnd(q)' /\ CRace(q)' /\ CFix(q)'
    BY <1>2 DEF Proc, Base, Near, BeginRepairEffect, Where, CRarm, CClean, CEnd, CRace, CFix,
       Raced, InEnd, NoWal, Fin, LeaseStays, Each, Shape, ThreadRole, Runs
  <2> QED BY <2>1, <2>2, <2>3, <2>4 DEF Stands, Where
<1>3. ASSUME NEW q \in Proc \ {p}, NEW r \in Proc \ {p, q}, Near(p, q), Near(p, r),
             Near(q, r)
      PROVE  PRace(q, r)'
  BY <1>3 DEF Near, BeginRepairEffect, PRace, InEnd, Raced, Apart
<1> QED BY <1>1, <1>2, <1>3 DEF Spares

(* So whatever kind of step p takes, the others stand where they stood.    *)
LEMMA SharedSpares ==
  ASSUME NEW p \in Proc, Base(p), Shared(p)
  PROVE  Spares(p)
BY WaitsSpares, TurnedSpares, ClearedSpares, DroppedSpares, ArmedBySpares, AuditedSpares,
   RevokedSpares, EndedSpares, BeginRepairSpares DEF Shared

-----------------------------------------------------------------------------
(* The coordinator, the marker, the ledger and the jobs keep together.     *)

(* A step of these kinds after which p stands where it should keeps Core.  *)
LEMMA ActsKeep ==
  ASSUME TypeOK, Core, NEW p \in Proc, Acts(p)
  PROVE  Core'
<1>1. Steps(p) /\ Shared(p) /\ Stands(p)'
  BY DEF Acts
<1>2. Base(p) /\ \A q \in Proc \ {p} : Near(p, q)
  BY <1>1, BaseHolds
<1>3. Spares(p)
  BY <1>1, <1>2, SharedSpares
<1>4. mem'.rev # 0 /\ issued' = issued /\ \A q \in Proc \ {p} : job'[q] = job[q]
  BY <1>1 DEF Steps, Frame, Runs, Others
<1>5. ASSUME NEW q \in Proc
      PROVE  Each(q)'
  <2>1. CASE q = p
    BY <1>1, <2>1 DEF Each, Stands, Steps
  <2>2. CASE q # p
    <3>1. Stands(q)'
      BY <1>2, <1>3, <2>2 DEF Spares
    <3>2. Shape(q) /\ job'[q] = job[q]
      BY <1>4, <2>2 DEF Core, Each
    <3>3. Shape(q)'
      BY <1>4, <3>2 DEF Shape, WorkerRole, ThreadRole, Formed
    <3> QED BY <3>1, <3>3 DEF Each, Stands
  <2> QED BY <2>1, <2>2
<1>6. ASSUME NEW q \in Proc, NEW r \in Proc \ {q}
      PROVE  Apart(q, r)'
  <2>1. CASE q = p \/ r = p
    BY <2>1 DEF Acts
  <2>2. CASE q # p /\ r # p
    <3>1. Near(p, q) /\ Near(p, r) /\ job'[q] = job[q] /\ job'[r] = job[r]
      BY <1>2, <1>4, <2>2
    <3>2. Near(q, r)
      BY <3>1 DEF Near, Core
    <3>3. PRace(q, r)'
      BY <1>3, <2>2, <3>1, <3>2 DEF Spares
    <3>4. Apart(q, r)
      BY DEF Core
    <3> QED BY <1>4, <3>1, <3>3, <3>4
            DEF Apart, PGrant, POne, PWork, PClean, PFix, Latest, InGrant
  <2> QED BY <2>1, <2>2
<1> QED BY <1>3, <1>5, <1>6 DEF Core, Spares

(* Nobody is busy while the daemon starts.                                 *)
LEMMA AllIdle ==
  ASSUME TypeOK', \A p \in Proc : job'[p] = Idle, Whole'
  PROVE  Core'
<1>1. /\ Idle.pc = "idle" /\ Idle.lease = NoLease /\ Idle.after = "none"
      /\ Idle.snap.fault = NoMarker /\ Idle.view.fault = NoMarker
  BY DEF Idle, NoSnapshot, View, Fresh
<1>2. issued' \in Nat
  BY LeaseAssumption DEF TypeOK
<1> HIDE DEF Idle
<1>3. ASSUME NEW p \in Proc
      PROVE  /\ job'[p].pc = "idle" /\ job'[p].lease = NoLease
             /\ job'[p].after = "none" /\ Shape(p)'
  BY <1>1 DEF Shape, WorkerRole, ThreadRole, Formed, SoundFault, Fin
<1>4. ASSUME NEW p \in Proc
      PROVE  ~Works(p)' /\ ~Latest(p)' /\ ~InEnd(p)' /\ ~InGrant(p)'
  BY <1>2, <1>3 DEF Works, Latest, InEnd, InGrant, GrantPc, Comp, Fin, NoLease
<1>5. ASSUME NEW p \in Proc
      PROVE  Each(p)'
  BY <1>2, <1>3, <1>4
     DEF Each, LWork, LEnd, LLatch, Where, CGate, CAudit, CPub, CUndo, CPend, CComp, CAfter,
         CMark, CRev, CBrev, CRef, CRarm, CClean, CEnd, CRace, CFix, GrantPc, Comp, Fin, NoLease
<1>6. ASSUME NEW p \in Proc, NEW q \in Proc \ {p}
      PROVE  Apart(p, q)'
  BY <1>3, <1>4 DEF Apart, PGrant, POne, PWork, PClean, PFix, PRace, GrantPc, Fixing
<1> QED BY <1>5, <1>6 DEF Core

(* With no job at work the restart goes on as it must.                     *)
LEMMA NotStarted ==
  ASSUME TypeOK, Core, boot.at # "up"
  PROVE  /\ \A p \in Proc : job[p] = Idle
         /\ mem.rev = 0 /\ MemNamed = {} /\ mem.active = NoLease /\ mem.wal = NoWal
         /\ mem.releasing = NoLease /\ mem.inflight = NoLease
<1>1. mem.rev = 0 /\ mem = [Fresh EXCEPT !.fault = mem.fault]
  BY DEF Core, Whole, Boots
<1>2. LET m == [Fresh EXCEPT !.fault = mem.fault]
      IN  /\ m.active = NoLease /\ m.releasing = NoLease /\ m.inflight = NoLease
          /\ m.wal = NoWal
  BY DEF Fresh
<1>3. \A p \in Proc : job[p] = Idle
  BY <1>1 DEF Core, Each, Shape, Formed
<1> QED BY <1>1, <1>2, <1>3 DEF MemNamed

-----------------------------------------------------------------------------
(* Every step of a grant, of an end and of a repair is one of them.        *)

LEMMA RestsActs ==
  ASSUME TypeOK, Core, NEW p \in Proc, Rests(p)
  PROVE  Acts(p)
<1>1. Steps(p) /\ Waits
  BY DEF Rests
<1>2. Base(p) /\ \A q \in Proc \ {p} : Near(p, q)
  BY <1>1, BaseHolds
<1>3. Stands(p)'
  <2>1. LWork(p)'
    BY <1>2 DEF Rests, LWork, Works, Base, Runs, Whole, Last, MemNamed, Fixing, GrantPc, Comp,
       Fin, NoLease
  <2>2. LEnd(p)'
    BY <1>2, LeaseAssumption DEF Rests, LEnd, Latest, NoLease
  <2>3. LLatch(p)'
    BY <1>2 DEF Rests, LLatch
  <2>4. Where(p)'
    BY <1>2 DEF Rests, Where, CGate, CAudit, CPub, CUndo, CPend, CComp, CAfter, CMark, CRev,
       CBrev, CRef, CRarm, CClean, CEnd, CRace, CFix, InEnd, Fin, GrantPc, Comp
  <2> QED BY <2>1, <2>2, <2>3, <2>4 DEF Stands
<1>4. ASSUME NEW q \in Proc \ {p} PROVE Apart(p, q)' /\ Apart(q, p)'
  <2>1. Near(p, q)
    BY <1>2
  <2> QED
    BY <1>2, <2>1, LeaseAssumption DEF Near, Rests, Apart, PGrant, POne, PWork, PClean, PFix,
       PRace, InEnd, Fin, Fixing, Latest, InGrant, GrantPc, Comp, NoLease, Each, Where, CGate,
       CAudit
<1>5. Shared(p) /\ Seals(p) /\ Grants(p)
  BY <1>1 DEF Rests, Shared, Seals, Sealing, Grants, GrantPc
<1> QED BY <1>1, <1>3, <1>4, <1>5 DEF Acts

LEMMA FinishMarkActs ==
  ASSUME TypeOK, Core, NEW p \in Proc, FinishMark(p)
  PROVE  Acts(p)
<1>1. p \in Proc /\ job[p].pc = "f_mark" /\ Steps(p) /\ FinishMarkEffect(p)
  BY FinishMarkDoes DEF Proc
<1>2. Base(p) /\ \A q \in Proc \ {p} : Near(p, q)
  BY <1>1, BaseHolds
<1>3. Stands(p)'
  BY <1>1, <1>2 DEF Proc, Base, FinishMarkEffect, Stands, LWork, LEnd, LLatch, Where, CGate,
     CAudit, CPub, CUndo, CPend, CComp, CAfter, CMark, CRev, CBrev, CRef, CRarm, CClean, CEnd,
     CRace, CFix, Mine, InEnd, Fin, Latest, Fixing, Holds, Comp, State, Works, Fits, Alike,
     Moves, Keeps, Changing, Waits, Breaking, Latching, LeaseStays, MarkStays, LedgerStays,
     Compensating, Each, Shape, Runs, WorkerRole, ThreadRole
<1>4. ASSUME NEW q \in Proc \ {p} PROVE Apart(p, q)' /\ Apart(q, p)'
  <2>1. Near(p, q)
    BY <1>2
  <2>2. Apart(p, q)'
    <3>1. PGrant(p, q)' /\ POne(p, q)' /\ PWork(p, q)'
      BY <1>1, <1>2, <2>1 DEF Base, Near, FinishMarkEffect, Apart, PGrant, POne, PWork, PClean,
         PFix, PRace, Fin, Fixing, Latest, InGrant, GrantPc, Moves, Keeps, Changing, Breaking,
         Latching, Compensating, Runs
    <3>2. PClean(p, q)' /\ PFix(p, q)' /\ PRace(p, q)'
      BY <1>1, <1>2, <2>1 DEF Base, Near, FinishMarkEffect, Apart, PGrant, POne, PWork, PClean,
         PFix, PRace, Fin, Fixing, Latest, InGrant, GrantPc, Moves, Keeps, Changing, Breaking,
         Latching, Compensating, Runs
    <3> QED BY <3>1, <3>2 DEF Apart
  <2>3. Apart(q, p)'
    <3>1. PGrant(q, p)' /\ POne(q, p)' /\ PWork(q, p)'
      BY <1>1, <1>2, <2>1 DEF Base, Near, FinishMarkEffect, Apart, PGrant, POne, PWork, PClean,
         PFix, PRace, InEnd, Raced, Mine, Fin, Fixing, Latest, InGrant, Moves, Keeps, Changing,
         Breaking, Latching, Compensating, Alike, Runs
    <3>2. PClean(q, p)' /\ PFix(q, p)' /\ PRace(q, p)'
      BY <1>1, <1>2, <2>1 DEF Base, Near, FinishMarkEffect, Apart, PGrant, POne, PWork, PClean,
         PFix, PRace, InEnd, Raced, Mine, Fin, Fixing, Latest, InGrant, Moves, Keeps, Changing,
         Breaking, Latching, Compensating, Alike, Runs
    <3> QED BY <3>1, <3>2 DEF Apart
  <2> QED BY <2>2, <2>3
<1>5. Shared(p)
  BY <1>1, <1>2 DEF FinishMarkEffect, Shared, Turned
<1>6. Seals(p) /\ Grants(p)
  BY <1>1, <1>2 DEF FinishMarkEffect, Seals, Sealing, Grants, GrantPc, Latching, Compensating,
     Changing, Breaking, Keeps, Steps, Captures, Saving
<1> QED BY <1>1, <1>3, <1>4, <1>5, <1>6 DEF Acts

LEMMA FinishSnapshotActs ==
  ASSUME TypeOK, Core, NEW p \in Proc, FinishSnapshot(p)
  PROVE  Acts(p)
<1>1. p \in Proc /\ job[p].pc = "f_snap" /\ Steps(p) /\ FinishSnapshotEffect(p)
  BY FinishSnapshotDoes DEF Proc
<1>2. Base(p) /\ \A q \in Proc \ {p} : Near(p, q)
  BY <1>1, BaseHolds
<1>3. Stands(p)'
  <2>1. LWork(p)' /\ LEnd(p)' /\ LLatch(p)'
    BY <1>1, <1>2 DEF Proc, Base, FinishSnapshotEffect, LWork, LEnd, LLatch, Where, CGate,
       CAudit, CPub, CUndo, CPend, CComp, CAfter, CMark, CRev, CBrev, CRef, CRarm, CClean,
       CEnd, CRace, CFix, Mine, InEnd, Fin, Latest, Fixing, Holds, Comp, State, Works, Fits,
       Waits, Keeps, Changing, Breaking, Latching, Compensating, LeaseStays, MarkStays,
       LedgerStays, Each, Shape, Runs, WorkerRole, ThreadRole
  <2>2. CGate(p)' /\ CAudit(p)' /\ CPub(p)' /\ CUndo(p)' /\ CPend(p)' /\ CComp(p)'
    BY <1>1, <1>2 DEF Proc, Base, FinishSnapshotEffect, LWork, LEnd, LLatch, Where, CGate,
       CAudit, CPub, CUndo, CPend, CComp, CAfter, CMark, CRev, CBrev, CRef, CRarm, CClean,
       CEnd, CRace, CFix, Mine, InEnd, Fin, Latest, Fixing, Holds, Comp, State, Works, Fits,
       Waits, Keeps, Changing, Breaking, Latching, Compensating, LeaseStays, MarkStays,
       LedgerStays, Each, Shape, Runs, WorkerRole, ThreadRole
  <2>3. CAfter(p)' /\ CMark(p)' /\ CRev(p)' /\ CBrev(p)' /\ CRef(p)'
    BY <1>1, <1>2 DEF Proc, Base, FinishSnapshotEffect, LWork, LEnd, LLatch, Where, CGate,
       CAudit, CPub, CUndo, CPend, CComp, CAfter, CMark, CRev, CBrev, CRef, CRarm, CClean,
       CEnd, CRace, CFix, Mine, InEnd, Fin, Latest, Fixing, Holds, Comp, State, Works, Fits,
       Waits, Keeps, Changing, Breaking, Latching, Compensating, LeaseStays, MarkStays,
       LedgerStays, Each, Shape, Runs, WorkerRole, ThreadRole
  <2>4. CRarm(p)' /\ CClean(p)' /\ CEnd(p)' /\ CRace(p)' /\ CFix(p)'
    BY <1>1, <1>2 DEF Proc, Base, FinishSnapshotEffect, LWork, LEnd, LLatch, Where, CGate,
       CAudit, CPub, CUndo, CPend, CComp, CAfter, CMark, CRev, CBrev, CRef, CRarm, CClean,
       CEnd, CRace, CFix, Mine, InEnd, Fin, Latest, Fixing, Holds, Comp, State, Works, Fits,
       Waits, Keeps, Changing, Breaking, Latching, Compensating, LeaseStays, MarkStays,
       LedgerStays, Each, Shape, Runs, WorkerRole, ThreadRole
  <2> QED BY <2>1, <2>2, <2>3, <2>4 DEF Stands, Where
<1>4. ASSUME NEW q \in Proc \ {p} PROVE Apart(p, q)' /\ Apart(q, p)'
  <2>1. Near(p, q)
    BY <1>2
  <2>2. Apart(p, q)'
    <3>1. PGrant(p, q)' /\ POne(p, q)' /\ PWork(p, q)'
      BY <1>1, <1>2, <2>1 DEF Base, Near, FinishSnapshotEffect, Apart, PGrant, POne, PWork,
         PClean, PFix, PRace, Mine, Fin, Fixing, Latest, InGrant, GrantPc, Waits, Keeps,
         Changing, Breaking, Latching, NoWal, Compensating, MarkStays, Each, Where, CPub, Holds,
         Runs
    <3>2. PClean(p, q)' /\ PFix(p, q)' /\ PRace(p, q)'
      BY <1>1, <1>2, <2>1 DEF Base, Near, FinishSnapshotEffect, Apart, PGrant, POne, PWork,
         PClean, PFix, PRace, Mine, Fin, Fixing, Latest, InGrant, GrantPc, Waits, Keeps,
         Changing, Breaking, Latching, NoWal, Compensating, MarkStays, Each, Where, CPub, Holds,
         Runs
    <3> QED BY <3>1, <3>2 DEF Apart
  <2>3. Apart(q, p)'
    BY <1>1, <1>2, <2>1 DEF Base, Near, FinishSnapshotEffect, Apart, PGrant, POne, PWork,
       PClean, PFix, PRace, InEnd, Raced, Mine, Fin, Fixing, Latest, InGrant, Waits, Keeps,
       Changing, Breaking, Latching, Compensating, MarkStays, Runs
  <2> QED BY <2>2, <2>3
<1>5. Shared(p)
  BY <1>1, <1>2 DEF FinishSnapshotEffect, Shared
<1>6. Seals(p) /\ Grants(p)
  BY <1>1, <1>2 DEF FinishSnapshotEffect, Seals, Sealing, Grants, GrantPc, Latching,
     Compensating, Changing, Breaking, Keeps
<1> QED BY <1>1, <1>3, <1>4, <1>5, <1>6 DEF Acts

LEMMA FinishCompletedActs ==
  ASSUME TypeOK, Core, NEW p \in Proc, FinishCompleted(p)
  PROVE  Acts(p)
<1>1. p \in Proc /\ job[p].pc = "f_done" /\ Steps(p) /\ FinishCompletedEffect(p)
  BY FinishCompletedDoes DEF Proc
<1>2. Base(p) /\ \A q \in Proc \ {p} : Near(p, q)
  BY <1>1, BaseHolds
<1>3. Stands(p)'
  BY <1>1, <1>2 DEF Proc, Base, FinishCompletedEffect, Stands, LWork, LEnd, LLatch, Where,
     CGate, CAudit, CPub, CUndo, CPend, CComp, CAfter, CMark, CRev, CBrev, CRef, CRarm, CClean,
     CEnd, CRace, CFix, NoLease, Mine, InEnd, Fin, Latest, Fixing, Holds, Comp, State, Works,
     Fits, Alike, Moves, Keeps, Changing, Waits, Breaking, Latching, LeaseStays, MarkStays,
     LedgerStays, Compensating, Each, Shape, Runs, WorkerRole, ThreadRole
<1>4. ASSUME NEW q \in Proc \ {p} PROVE Apart(p, q)' /\ Apart(q, p)'
  <2>1. Near(p, q)
    BY <1>2
  <2>2. Apart(p, q)'
    BY <1>1, <1>2, <2>1 DEF Base, Near, FinishCompletedEffect, Apart, PGrant, POne, PWork,
       PClean, PFix, PRace, Fin, Fixing, Latest, InGrant, GrantPc, Moves, Keeps, Changing,
       Breaking, Latching, Compensating, Runs
  <2>3. Apart(q, p)'
    BY <1>1, <1>2, <2>1 DEF Base, Near, FinishCompletedEffect, Apart, PGrant, POne, PWork,
       PClean, PFix, PRace, InEnd, Raced, Mine, Fin, Fixing, Latest, InGrant, Moves, Keeps,
       Changing, Breaking, Latching, Compensating, Alike, Runs
  <2> QED BY <2>2, <2>3
<1>5. Shared(p)
  BY <1>1, <1>2 DEF FinishCompletedEffect, Shared, Turned
<1>6. Seals(p) /\ Grants(p)
  BY <1>1, <1>2 DEF FinishCompletedEffect, Seals, Sealing, Grants, GrantPc, Latching,
     Compensating, Changing, Breaking, Keeps
<1> QED BY <1>1, <1>3, <1>4, <1>5, <1>6 DEF Acts

LEMMA FinishClearActs ==
  ASSUME TypeOK, Core, NEW p \in Proc, FinishClear(p)
  PROVE  Acts(p)
<1>1. p \in Proc /\ job[p].pc = "f_clear" /\ Steps(p) /\ FinishClearEffect(p)
  BY FinishClearDoes DEF Proc
<1>2. Base(p) /\ \A q \in Proc \ {p} : Near(p, q)
  BY <1>1, BaseHolds
<1>3. Stands(p)'
  <2>1. LWork(p)' /\ LEnd(p)' /\ LLatch(p)'
    BY <1>1, <1>2 DEF Proc, Base, FinishClearEffect, LWork, LEnd, LLatch, Where, CUndo, CEnd,
       NoLease, Mine, InEnd, Fin, Latest, Fixing, Holds, GrantPc, Comp, Works, Fits, Alike,
       Clears, Stops, Keeps, Changing, Waits, LeaseStays, MarkStays, Compensating, Latching,
       Idle, Each, Shape, Runs, WorkerRole, ThreadRole
  <2>2. CGate(p)' /\ CAudit(p)' /\ CPub(p)' /\ CUndo(p)' /\ CPend(p)' /\ CComp(p)'
    BY <1>1, <1>2 DEF Base, FinishClearEffect, Where, CGate, CAudit, CPub, CUndo, CPend, CComp,
       Mine, Fin, Holds, Comp, State, Stops, Keeps, Changing, Waits, LeaseStays, MarkStays,
       Compensating, Latching, Idle, Each, Runs
  <2>3. CAfter(p)' /\ CMark(p)' /\ CRev(p)' /\ CBrev(p)' /\ CRef(p)'
    BY <1>1, <1>2 DEF Proc, Base, FinishClearEffect, Where, CPub, CAfter, CMark, CRev, CBrev,
       CRef, Mine, Fin, Holds, State, Clears, Stops, Keeps, Changing, Waits, MarkStays,
       Compensating, Latching, Idle, Each, Shape, Runs, WorkerRole, ThreadRole
  <2>4. CRarm(p)' /\ CClean(p)' /\ CEnd(p)' /\ CRace(p)' /\ CFix(p)'
    BY <1>1, <1>2 DEF Base, FinishClearEffect, Where, CPub, CRarm, CClean, CEnd, CRace, CFix,
       InEnd, Fin, Clears, Stops, Changing, Waits, LeaseStays, Compensating, Latching, Idle,
       Each
  <2> QED BY <2>1, <2>2, <2>3, <2>4 DEF Stands, Where
<1>4. ASSUME NEW q \in Proc \ {p} PROVE Apart(p, q)' /\ Apart(q, p)'
  <2>1. Near(p, q)
    BY <1>2
  <2>2. Apart(p, q)'
    <3>1. PGrant(p, q)'
      BY <1>1, <1>2, <2>1 DEF Proc, Base, Near, FinishClearEffect, Apart, PGrant, POne, PWork,
         PClean, PFix, PRace, InEnd, Fin, Fixing, Latest, InGrant, GrantPc, Stops, NoLease,
         Keeps, Changing, Compensating, Latching, Idle, Each, Shape, LWork, LEnd, Where, CPub,
         Works, ThreadRole
    <3>2. POne(p, q)'
      BY <1>1, <1>2, <2>1 DEF Proc, Base, Near, FinishClearEffect, Apart, PGrant, POne, PWork,
         PClean, PFix, PRace, InEnd, Fin, Fixing, Latest, InGrant, GrantPc, Stops, NoLease,
         Keeps, Changing, Compensating, Latching, Idle, Each, Shape, LWork, LEnd, Where, CPub,
         Works, ThreadRole
    <3>3. PWork(p, q)'
      BY <1>1, <1>2, <2>1 DEF Proc, Base, Near, FinishClearEffect, Apart, PGrant, POne, PWork,
         PClean, PFix, PRace, InEnd, Fin, Fixing, Latest, InGrant, GrantPc, Stops, NoLease,
         Keeps, Changing, Compensating, Latching, Idle, Each, Shape, LWork, LEnd, Where, CPub,
         Works, ThreadRole
    <3>4. PClean(p, q)'
      BY <1>1, <1>2, <2>1 DEF Proc, Base, Near, FinishClearEffect, Apart, PGrant, POne, PWork,
         PClean, PFix, PRace, InEnd, Fin, Fixing, Latest, InGrant, GrantPc, Stops, NoLease,
         Keeps, Changing, Compensating, Latching, Idle, Each, Shape, LWork, LEnd, Where, CPub,
         Works, ThreadRole
    <3>5. PFix(p, q)'
      BY <1>1, <1>2, <2>1 DEF Proc, Base, Near, FinishClearEffect, Apart, PGrant, POne, PWork,
         PClean, PFix, PRace, InEnd, Fin, Fixing, Latest, InGrant, GrantPc, Stops, NoLease,
         Keeps, Changing, Compensating, Latching, Idle, Each, Shape, LWork, LEnd, Where, CPub,
         Works, ThreadRole
    <3>6. PRace(p, q)'
      BY <1>1, <1>2, <2>1 DEF Proc, Base, Near, FinishClearEffect, Apart, PGrant, POne, PWork,
         PClean, PFix, PRace, InEnd, Fin, Fixing, Latest, InGrant, GrantPc, Stops, NoLease,
         Keeps, Changing, Compensating, Latching, Idle, Each, Shape, LWork, LEnd, Where, CPub,
         Works, ThreadRole
    <3> QED BY <3>1, <3>2, <3>3, <3>4, <3>5, <3>6 DEF Apart
  <2>3. Apart(q, p)'
    <3>1. PGrant(q, p)'
      BY <1>1, <1>2, <2>1 DEF Base, Near, FinishClearEffect, Apart, PGrant, POne, PWork, PClean,
         PFix, PRace, InEnd, Fin, Fixing, Latest, InGrant, Stops, NoLease, Keeps, Changing,
         Compensating, Latching, Idle, Each, LWork, Works
    <3>2. POne(q, p)'
      BY <1>1, <1>2, <2>1 DEF Base, Near, FinishClearEffect, Apart, PGrant, POne, PWork, PClean,
         PFix, PRace, InEnd, Fin, Fixing, Latest, InGrant, Stops, NoLease, Keeps, Changing,
         Compensating, Latching, Idle, Each, LWork, Works
    <3>3. PWork(q, p)'
      BY <1>1, <1>2, <2>1 DEF Base, Near, FinishClearEffect, Apart, PGrant, POne, PWork, PClean,
         PFix, PRace, InEnd, Fin, Fixing, Latest, InGrant, Stops, NoLease, Keeps, Changing,
         Compensating, Latching, Idle, Each, LWork, Works
    <3>4. PClean(q, p)'
      BY <1>1, <1>2, <2>1 DEF Base, Near, FinishClearEffect, Apart, PGrant, POne, PWork, PClean,
         PFix, PRace, InEnd, Fin, Fixing, Latest, InGrant, Stops, NoLease, Keeps, Changing,
         Compensating, Latching, Idle, Each, LWork, Works
    <3>5. PFix(q, p)'
      BY <1>1, <1>2, <2>1 DEF Base, Near, FinishClearEffect, Apart, PGrant, POne, PWork, PClean,
         PFix, PRace, InEnd, Fin, Fixing, Latest, InGrant, Stops, NoLease, Keeps, Changing,
         Compensating, Latching, Idle, Each, LWork, Works
    <3>6. PRace(q, p)'
      BY <1>1, <1>2, <2>1 DEF Base, Near, FinishClearEffect, Apart, PGrant, POne, PWork, PClean,
         PFix, PRace, InEnd, Fin, Fixing, Latest, InGrant, Stops, NoLease, Keeps, Changing,
         Compensating, Latching, Idle, Each, LWork, Works
    <3> QED BY <3>1, <3>2, <3>3, <3>4, <3>5, <3>6 DEF Apart
  <2> QED BY <2>2, <2>3
<1>5. Shared(p)
  BY <1>1, <1>2 DEF FinishClearEffect, Shared, Cleared
<1>6. Seals(p) /\ Grants(p)
  BY <1>1, <1>2 DEF FinishClearEffect, Seals, Sealing, Grants, GrantPc, Latching, Compensating,
     Changing, Stops, Idle
<1> QED BY <1>1, <1>3, <1>4, <1>5, <1>6 DEF Acts

LEMMA ClearPendingActs ==
  ASSUME TypeOK, Core, NEW p \in Proc, ClearPending(p)
  PROVE  Acts(p)
<1>1. p \in Proc /\ job[p].pc = "f_pending" /\ Steps(p) /\ ClearPendingEffect(p)
  BY ClearPendingDoes DEF Proc
<1>2. Base(p) /\ \A q \in Proc \ {p} : Near(p, q)
  BY <1>1, BaseHolds
<1>3. Stands(p)'
  BY <1>1, <1>2 DEF Proc, Base, ClearPendingEffect, Stands, LWork, LEnd, LLatch, Where, CGate,
     CAudit, CPub, CUndo, CPend, CComp, CAfter, CMark, CRev, CBrev, CRef, CRarm, CClean, CEnd,
     CRace, CFix, NoLease, InEnd, Fin, Latest, Holds, GrantPc, Comp, Works, Fits, Waits,
     Latching, Stops, Idle, Keeps, MarkStays, Each, Shape, Runs, WorkerRole
<1>4. ASSUME NEW q \in Proc \ {p} PROVE Apart(p, q)' /\ Apart(q, p)'
  <2>1. Near(p, q)
    BY <1>2
  <2> QED
    BY <1>1, <1>2, <2>1 DEF Base, Near, ClearPendingEffect, Apart, PGrant, POne, PWork, PClean,
       PFix, PRace, InEnd, Fixing, Latest, InGrant, GrantPc, Latching, Stops, Idle, NoLease,
       Keeps, Runs
<1>5. Shared(p)
  BY <1>1, <1>2 DEF ClearPendingEffect, Shared
<1>6. Seals(p) /\ Grants(p)
  BY <1>1, <1>2 DEF ClearPendingEffect, Seals, Sealing, Grants, GrantPc, Latching, Stops, Idle
<1> QED BY <1>1, <1>3, <1>4, <1>5, <1>6 DEF Acts

LEMMA LatchFaultActs ==
  ASSUME TypeOK, Core, NEW p \in Proc, LatchFault(p)
  PROVE  Acts(p)
<1>1. p \in Proc /\ job[p].pc = "latch" /\ Steps(p) /\ LatchFaultEffect(p)
  BY LatchFaultDoes DEF Proc
<1>2. Base(p) /\ \A q \in Proc \ {p} : Near(p, q)
  BY <1>1, BaseHolds
<1>3. Stands(p)'
  BY <1>1, <1>2 DEF Base, LatchFaultEffect, Stands, LWork, LEnd, LLatch, Where, CGate, CAudit,
     CPub, CUndo, CPend, CComp, CAfter, CMark, CRev, CBrev, CRef, CRarm, CClean, CEnd, CRace,
     CFix, InEnd, Fin, Latest, Fixing, GrantPc, Comp, Works, Keeps, Moves, Waits, LeaseStays,
     LedgerStays, Each, Runs
<1>4. ASSUME NEW q \in Proc \ {p} PROVE Apart(p, q)' /\ Apart(q, p)'
  <2>1. Near(p, q)
    BY <1>2
  <2> QED
    BY <1>1, <1>2, <2>1 DEF Base, Near, LatchFaultEffect, Apart, PGrant, POne, PWork, PClean,
       PFix, PRace, InEnd, Fin, Fixing, Latest, InGrant, GrantPc, Keeps, Runs
<1>5. Shared(p)
  BY <1>1, <1>2 DEF LatchFaultEffect, Shared, Turned
<1>6. Seals(p) /\ Grants(p)
  BY <1>1, <1>2 DEF LatchFaultEffect, Seals, Sealing, Grants, GrantPc
<1> QED BY <1>1, <1>3, <1>4, <1>5, <1>6 DEF Acts

LEMMA FaultSavedActs ==
  ASSUME TypeOK, Core, NEW p \in Proc, FaultSaved(p)
  PROVE  Acts(p)
<1>1. p \in Proc /\ job[p].pc = "l_save" /\ Steps(p) /\ FaultSavedEffect(p)
  BY FaultSavedDoes DEF Proc
<1>2. Base(p) /\ \A q \in Proc \ {p} : Near(p, q)
  BY <1>1, BaseHolds
<1>3. Stands(p)'
  BY <1>1, <1>2 DEF Base, FaultSavedEffect, Stands, LWork, LEnd, LLatch, Where, CGate, CAudit,
     CPub, CUndo, CPend, CComp, CAfter, CMark, CRev, CBrev, CRef, CRarm, CClean, CEnd, CRace,
     CFix, NoLease, InEnd, Fin, Latest, GrantPc, Comp, Works, Stops, Idle, Runs
<1>4. ASSUME NEW q \in Proc \ {p} PROVE Apart(p, q)' /\ Apart(q, p)'
  <2>1. Near(p, q)
    BY <1>2
  <2> QED
    BY <1>1, <1>2, <2>1 DEF FaultSavedEffect, Apart, PGrant, POne, PWork, PClean, PFix, PRace,
       InEnd, Fixing, Latest, GrantPc, Stops, NoLease, Idle
<1>5. Shared(p)
  BY <1>1, <1>2 DEF FaultSavedEffect, Shared, Dropped
<1>6. Seals(p) /\ Grants(p)
  BY <1>1, <1>2 DEF FaultSavedEffect, Seals, Sealing, Grants, GrantPc, Stops, Idle
<1> QED BY <1>1, <1>3, <1>4, <1>5, <1>6 DEF Acts

LEMMA TakeGateActs ==
  ASSUME TypeOK, Core, NEW p \in Thread, TakeGate(p)
  PROVE  Acts(p)
<1>1. p \in Proc /\ job[p].pc = "gate" /\ Steps(p) /\ TakeGateEffect(p)
  BY TakeGateDoes DEF Proc
<1>2. Base(p) /\ \A q \in Proc \ {p} : Near(p, q)
  BY <1>1, BaseHolds
<1>3. Stands(p)'
  BY <1>1, <1>2 DEF Base, TakeGateEffect, Stands, LWork, LEnd, LLatch, Where, CGate, CAudit,
     CPub, CUndo, CPend, CComp, CAfter, CMark, CRev, CBrev, CRef, CRarm, CClean, CEnd, CRace,
     CFix, NoLease, InEnd, Fin, Latest, Fixing, GrantPc, Comp, State, Works, Fits, Stops, Waits,
     Keeps, LeaseStays, MarkStays, LedgerStays, Idle, Each, Runs
<1>4. ASSUME NEW q \in Proc \ {p} PROVE Apart(p, q)' /\ Apart(q, p)'
  <2>1. Near(p, q)
    BY <1>2
  <2> QED
    BY <1>1, <1>2, <2>1 DEF Base, Near, TakeGateEffect, Apart, PGrant, POne, PWork, PClean,
       PFix, PRace, Fixing, Latest, GrantPc, Comp, Stops, Idle, Each, LWork, Works, Runs
<1>5. Shared(p)
  BY <1>1, <1>2 DEF TakeGateEffect, Shared, Dropped
<1>6. Seals(p) /\ Grants(p)
  BY <1>1, <1>2 DEF TakeGateEffect, Seals, Sealing, Grants, GrantPc, Keeps, Stops, Idle
<1> QED BY <1>1, <1>3, <1>4, <1>5, <1>6 DEF Acts

LEMMA ArmGrantActs ==
  ASSUME TypeOK, Core, NEW p \in Thread, ArmGrant(p)
  PROVE  Acts(p)
<1>1. p \in Proc /\ job[p].pc = "g_arm" /\ Steps(p) /\ ArmGrantEffect(p)
  BY ArmGrantDoes DEF Proc
<1>2. Base(p) /\ \A q \in Proc \ {p} : Near(p, q)
  BY <1>1, BaseHolds
<1>3. Stands(p)'
  BY <1>1, <1>2 DEF Base, ArmGrantEffect, Stands, LWork, LEnd, LLatch, Where, CGate, CAudit,
     CPub, CUndo, CPend, CComp, CAfter, CMark, CRev, CBrev, CRef, CRarm, CClean, CEnd, CRace,
     CFix, NoLease, Mine, InEnd, Fin, Latest, Fixing, Holds, GrantPc, Comp, Works, Fits, Alike,
     Arms, LeaseStays, Keeps, SnapStays, Stops, Idle, LedgerStays, Each, Runs
<1>4. ASSUME NEW q \in Proc \ {p} PROVE Apart(p, q)' /\ Apart(q, p)'
  <2>1. Near(p, q)
    BY <1>2
  <2> QED
    BY <1>1, <1>2, <2>1 DEF Base, Near, ArmGrantEffect, Apart, PGrant, POne, PWork, PClean,
       PFix, PRace, InEnd, Fin, Fixing, Latest, GrantPc, Keeps, Stops, Idle, NoLease, Runs
<1>5. Shared(p)
  BY <1>1, <1>2 DEF ArmGrantEffect, Shared, Dropped, ArmedBy
<1>6. Seals(p) /\ Grants(p)
  BY <1>1, <1>2 DEF ArmGrantEffect, Seals, Sealing, Grants, GrantPc, Keeps, Stops, Idle
<1> QED BY <1>1, <1>3, <1>4, <1>5, <1>6 DEF Acts

LEMMA AuditGrantActs ==
  ASSUME TypeOK, Core, NEW p \in Thread, AuditGrant(p)
  PROVE  Acts(p)
<1>1. p \in Proc /\ job[p].pc = "g_audit" /\ Steps(p) /\ AuditGrantEffect(p)
  BY AuditGrantDoes DEF Proc
<1>2. Base(p) /\ \A q \in Proc \ {p} : Near(p, q)
  BY <1>1, BaseHolds
<1>3. Stands(p)'
  BY <1>1, <1>2 DEF Base, AuditGrantEffect, Stands, LWork, LEnd, LLatch, Where, CGate, CAudit,
     CPub, CUndo, CPend, CComp, CAfter, CMark, CRev, CBrev, CRef, CRarm, CClean, CEnd, CRace,
     CFix, Mine, InEnd, Fin, Latest, Fixing, Holds, GrantPc, Comp, State, Works, Fits, Audits,
     LeaseStays, Keeps, Waits, Compensating, Drops, MarkStays, LedgerStays, Each, Shape, Runs,
     WorkerRole
<1>4. ASSUME NEW q \in Proc \ {p} PROVE Apart(p, q)' /\ Apart(q, p)'
  <2>1. Near(p, q)
    BY <1>2
  <2> QED
    BY <1>1, <1>2, <2>1 DEF Base, Near, AuditGrantEffect, Apart, PGrant, POne, PWork, PClean,
       PFix, PRace, InEnd, Fixing, Latest, GrantPc, Comp, Keeps, Compensating, Each, LWork,
       Works
<1>5. Shared(p)
  BY <1>1, <1>2 DEF AuditGrantEffect, Shared, Dropped, Audited
<1>6. Seals(p) /\ Grants(p)
  BY <1>1, <1>2 DEF AuditGrantEffect, Seals, Sealing, Grants, GrantPc, Compensating
<1> QED BY <1>1, <1>3, <1>4, <1>5, <1>6 DEF Acts

LEMMA ArmCompensationActs ==
  ASSUME TypeOK, Core, NEW p \in Proc, ArmCompensation(p)
  PROVE  Acts(p)
<1>1. p \in Proc /\ job[p].pc = "c_arm" /\ Steps(p) /\ ArmCompensationEffect(p)
  BY ArmCompensationDoes DEF Proc
<1>2. Base(p) /\ \A q \in Proc \ {p} : Near(p, q)
  BY <1>1, BaseHolds
<1>3. Stands(p)'
  BY <1>1, <1>2 DEF Base, ArmCompensationEffect, Stands, LWork, LEnd, LLatch, Where, CGate,
     CAudit, CPub, CUndo, CPend, CComp, CAfter, CMark, CRev, CBrev, CRef, CRarm, CClean, CEnd,
     CRace, CFix, Mine, InEnd, Fin, Latest, Fixing, Holds, Comp, Works, Fits, Alike, Arms,
     LeaseStays, Keeps, Waits, Unmarks, MarkStays, Each, Runs
<1>4. ASSUME NEW q \in Proc \ {p} PROVE Apart(p, q)' /\ Apart(q, p)'
  <2>1. Near(p, q)
    BY <1>2
  <2> QED
    BY <1>1, <1>2, <2>1 DEF Base, Near, ArmCompensationEffect, Apart, PGrant, POne, PWork,
       PClean, PFix, PRace, InEnd, Fin, Fixing, Latest, InGrant, GrantPc, Comp, Keeps, Unmarks,
       Runs
<1>5. Shared(p)
  BY <1>1, <1>2 DEF ArmCompensationEffect, Shared, ArmedBy
<1>6. Seals(p) /\ Grants(p)
  BY <1>1, <1>2 DEF ArmCompensationEffect, Seals, Sealing, Grants, GrantPc, Unmarks
<1> QED BY <1>1, <1>3, <1>4, <1>5, <1>6 DEF Acts

LEMMA MarkCompensationActs ==
  ASSUME TypeOK, Core, NEW p \in Proc, MarkCompensation(p)
  PROVE  Acts(p)
<1>1. p \in Proc /\ job[p].pc = "c_mark" /\ Steps(p) /\ MarkCompensationEffect(p)
  BY MarkCompensationDoes DEF Proc
<1>2. Base(p) /\ \A q \in Proc \ {p} : Near(p, q)
  BY <1>1, BaseHolds
<1>3. Stands(p)'
  BY <1>1, <1>2 DEF Base, MarkCompensationEffect, Stands, LWork, LEnd, LLatch, Where, CGate,
     CAudit, CPub, CUndo, CPend, CComp, CAfter, CMark, CRev, CBrev, CRef, CRarm, CClean, CEnd,
     CRace, CFix, Mine, InEnd, Fin, Latest, Fixing, Holds, Comp, Works, Fits, Alike, Moves,
     Keeps, Waits, Unmarks, LeaseStays, MarkStays, Each, Runs
<1>4. ASSUME NEW q \in Proc \ {p} PROVE Apart(p, q)' /\ Apart(q, p)'
  <2>1. Near(p, q)
    BY <1>2
  <2> QED
    BY <1>1, <1>2, <2>1 DEF Base, Near, MarkCompensationEffect, Apart, PGrant, POne, PWork,
       PClean, PFix, PRace, InEnd, Fin, Fixing, Latest, InGrant, GrantPc, Comp, Keeps, Unmarks,
       Runs
<1>5. Shared(p)
  BY <1>1, <1>2 DEF MarkCompensationEffect, Shared, Turned
<1>6. Seals(p) /\ Grants(p)
  BY <1>1, <1>2 DEF MarkCompensationEffect, Seals, Sealing, Grants, GrantPc, Unmarks
<1> QED BY <1>1, <1>3, <1>4, <1>5, <1>6 DEF Acts

LEMMA RevokeActs ==
  ASSUME TypeOK, Core, NEW p \in Thread, Revoke(p)
  PROVE  Acts(p)
<1>1. p \in Proc /\ job[p].pc = "c_revoke" /\ Steps(p) /\ RevokeEffect(p)
  BY RevokeDoes DEF Proc
<1>2. Base(p) /\ \A q \in Proc \ {p} : Near(p, q)
  BY <1>1, BaseHolds
<1>3. Stands(p)'
  BY <1>1, <1>2 DEF Base, RevokeEffect, Stands, LWork, LEnd, LLatch, Where, CGate, CAudit, CPub,
     CUndo, CPend, CComp, CAfter, CMark, CRev, CBrev, CRef, CRarm, CClean, CEnd, CRace, CFix,
     Mine, InEnd, NoWal, Fin, Latest, Fixing, Holds, Comp, State, Works, Fits, Alike, Revokes,
     Latching, Keeps, MarkStays, Whole, Each, Shape, Runs, WorkerRole, Sounds, Sound
<1>4. ASSUME NEW q \in Proc \ {p} PROVE Apart(p, q)' /\ Apart(q, p)'
  <2>1. Near(p, q)
    BY <1>2
  <2> QED
    BY <1>1, <1>2, <2>1 DEF Proc, Base, Near, RevokeEffect, Apart, PGrant, POne, PWork, PClean,
       PFix, PRace, Fin, Fixing, Latest, InGrant, GrantPc, Comp, Latching, Each, Shape, LWork,
       Works, WorkerRole, Runs
<1>5. Shared(p)
  BY <1>1, <1>2 DEF RevokeEffect, Shared, Revoked, Latching
<1>6. Seals(p) /\ Grants(p)
  BY <1>1, <1>2 DEF RevokeEffect, Seals, Sealing, Grants, GrantPc, Latching
<1> QED BY <1>1, <1>3, <1>4, <1>5, <1>6 DEF Acts

LEMMA RevokeBrokenActs ==
  ASSUME TypeOK, Core, NEW p \in Proc, RevokeBroken(p)
  PROVE  Acts(p)
<1>1. p \in Proc /\ job[p].pc = "b_revoke" /\ Steps(p) /\ RevokeBrokenEffect(p)
  BY RevokeBrokenDoes DEF Proc
<1>2. Base(p) /\ \A q \in Proc \ {p} : Near(p, q)
  BY <1>1, BaseHolds
<1>3. Stands(p)'
  BY <1>1, <1>2 DEF Base, RevokeBrokenEffect, Stands, LWork, LEnd, LLatch, Where, CGate, CAudit,
     CPub, CUndo, CPend, CComp, CAfter, CMark, CRev, CBrev, CRef, CRarm, CClean, CEnd, CRace,
     CFix, NoLease, InEnd, Fin, Latest, Holds, GrantPc, Comp, Works, Fits, Revokes, Latching,
     Keeps, MarkStays, Each, Runs
<1>4. ASSUME NEW q \in Proc \ {p} PROVE Apart(p, q)' /\ Apart(q, p)'
  <2>1. Near(p, q)
    BY <1>2
  <2> QED
    BY <1>1, <1>2, <2>1 DEF Base, Near, RevokeBrokenEffect, Apart, PGrant, POne, PWork, PClean,
       PFix, PRace, InEnd, Fin, Fixing, Latest, InGrant, GrantPc, Comp, Latching, Keeps, Runs
<1>5. Shared(p)
  BY <1>1, <1>2 DEF RevokeBrokenEffect, Shared, Revoked, Base, Each, Where, CBrev, Holds,
     MarkStays, Revokes, NoWal
<1>6. Seals(p) /\ Grants(p)
  BY <1>1, <1>2 DEF RevokeBrokenEffect, Seals, Sealing, Grants, GrantPc, Latching
<1> QED BY <1>1, <1>3, <1>4, <1>5, <1>6 DEF Acts

LEMMA ArmReleaseActs ==
  ASSUME TypeOK, Core, NEW p \in Thread, ArmRelease(p), amiss' = {}
  PROVE  Acts(p)
<1>1. p \in Proc /\ job[p].pc = "r_arm" /\ Steps(p) /\ ArmReleaseEffect(p)
  BY ArmReleaseDoes DEF Proc
<1>2. CASE Rests(p)
  BY <1>1, <1>2, RestsActs
<1>3. CASE ~Rests(p)
  <2>1. Base(p) /\ \A q \in Proc \ {p} : Near(p, q)
    BY <1>1, BaseHolds
  <2>2. /\ Arms(p, "release") /\ mem'.active = NoLease /\ mem'.releasing = issued
        /\ mem'.inflight = mem.inflight /\ mem.active = issued /\ issued # NoLease /\ Fits
        /\ job[p].lease = issued /\ job'[p].pc = "cleanup" /\ job'[p].lease = issued /\ issued' = issued
    BY <1>1, <1>3, <2>1 DEF ArmReleaseEffect, Latest, NoLease, Base, Runs
  <2>3. p \notin Worker
    BY LeaseAssumption
  <2>4. Fits' /\ Latest(p)'
    BY <2>2 DEF Fits, Latest, Fixing, NoLease, Arms, Alike
  <2>5. Stands(p)'
    <3>1. LWork(p)' /\ LEnd(p)' /\ LLatch(p)'
      BY <2>1, <2>2, <2>3, <2>4 DEF LWork, LEnd, LLatch, Base
    <3>2. Where(p)'
      BY <2>2 DEF Where, CGate, CAudit, CPub, CUndo, CPend, CComp, CAfter, CMark, CRev, CBrev,
         CRef, CRarm, CClean, CEnd, CRace, CFix, InEnd, Fin, GrantPc, Comp
    <3> QED BY <3>1, <3>2 DEF Stands
  <2>6. ASSUME NEW q \in Proc \ {p} PROVE Apart(p, q)' /\ Apart(q, p)'
    <3>1. Near(p, q)
      BY <2>1
    <3>2. job[q].pc # "cleanup"
      BY <2>1, <2>2, <3>1 DEF Near, Each, Where, CClean, Base, Whole, Retiring
    <3>3. job[q].pc \notin GrantPc
      BY <1>1, <2>2, <3>1 DEF Near, Apart, PGrant, Latest, Fixing, NoLease
    <3> QED
      BY <1>1, <2>2, <2>3, <3>1, <3>2, <3>3 DEF Near, Apart, PGrant, POne, PWork, PClean, PFix,
         PRace, InEnd, Fin, Fixing, InGrant, GrantPc, Comp
  <2>7. Shared(p)
    BY <1>1, <2>2 DEF Shared, ArmedBy, Latest, Fixing, NoLease
  <2>8. Seals(p) /\ Grants(p)
    BY <1>1, <2>1, <2>2 DEF Seals, Sealing, Grants, GrantPc, Base, NoLease
  <2> QED BY <1>1, <2>5, <2>6, <2>7, <2>8 DEF Acts
<1> QED BY <1>2, <1>3

LEMMA RepairSavedActs ==
  ASSUME TypeOK, Core, NEW p \in Thread, RepairSaved(p)
  PROVE  Acts(p)
<1>1. p \in Proc /\ job[p].pc = "fix_save" /\ Steps(p) /\ RepairSavedEffect(p)
  BY RepairSavedDoes DEF Proc
<1>2. CASE Rests(p)
  BY <1>1, <1>2, RestsActs
<1>3. CASE Still /\ Keeps(p) /\ job'[p].pc = "fix_clear" /\ job'[p].held = mem.wal
  <2>1. Base(p) /\ \A q \in Proc \ {p} : Near(p, q)
    BY <1>1, BaseHolds
  <2>2. Stands(p)'
    <3>1. LWork(p)'
      BY <1>1, <1>3, <2>1 DEF LWork, Fixing, Works, GrantPc, Comp, Fin
    <3>2. LEnd(p)'
      BY <1>1, <1>3, <2>1 DEF Base, LEnd, Shape, WorkerRole, Fin
    <3>3. LLatch(p)'
      BY <1>1, <1>3, <2>1 DEF LLatch
    <3>4. Where(p)'
      BY <1>1, <1>3, <2>1 DEF Still, Waits, MarkStays, Keeps, Base, Each, Where, CGate, CAudit,
         CPub, CUndo, CPend, CComp, CAfter, CMark, CRev, CBrev, CRef, CRarm, CClean, CEnd,
         CRace, CFix, InEnd, Fin, Comp, GrantPc
    <3> QED BY <3>1, <3>2, <3>3, <3>4 DEF Stands
  <2>3. ASSUME NEW q \in Proc \ {p} PROVE Apart(p, q)' /\ Apart(q, p)'
    <3>1. Near(p, q)
      BY <2>1
    <3>2. Apart(p, q)'
      BY <1>1, <2>1, <3>1 DEF Base, Near, RepairSavedEffect, Apart, PGrant, POne, PWork, PClean,
         PFix, PRace, Fin, Fixing, InGrant, GrantPc, Comp, Rests, Shape, WorkerRole, Each
    <3>3. Apart(q, p)'
      BY <1>1, <2>1, <3>1 DEF Base, Near, RepairSavedEffect, Apart, PGrant, POne, PWork, PClean,
         PFix, PRace, InEnd, Fin, Fixing, InGrant, GrantPc, Comp, Rests, NoWal, Shape,
         WorkerRole, Each, Where, CGate, CAudit, CFix
    <3> QED BY <3>2, <3>3
  <2>4. Shared(p) /\ Seals(p) /\ Grants(p)
    BY <1>3 DEF Still, Shared, Seals, Sealing, Grants, GrantPc
  <2> QED BY <1>1, <2>2, <2>3, <2>4 DEF Acts
<1> QED BY <1>1, <1>2, <1>3 DEF RepairSavedEffect

LEMMA RepairClearedActs ==
  ASSUME TypeOK, Core, NEW p \in Thread, RepairCleared(p)
  PROVE  Acts(p)
<1>1. p \in Proc /\ job[p].pc = "fix_clear" /\ Steps(p) /\ RepairClearedEffect(p)
  BY RepairClearedDoes DEF Proc
<1>2. Base(p) /\ \A q \in Proc \ {p} : Near(p, q)
  BY <1>1, BaseHolds
<1>3. Stands(p)'
  BY <1>1, <1>2 DEF Base, RepairClearedEffect, Stands, LWork, LEnd, LLatch, Where, CGate,
     CAudit, CPub, CUndo, CPend, CComp, CAfter, CMark, CRev, CBrev, CRef, CRarm, CClean, CEnd,
     CRace, CFix, NoLease, Mine, InEnd, Fin, Latest, Fixing, GrantPc, Comp, Works, Stops, Idle,
     Runs
<1>4. ASSUME NEW q \in Proc \ {p} PROVE Apart(p, q)' /\ Apart(q, p)'
  <2>1. Near(p, q)
    BY <1>2
  <2>2. Apart(p, q)'
    BY <1>1, <1>2, <2>1 DEF Base, Near, RepairClearedEffect, Apart, PGrant, POne, PWork, PClean,
       PFix, PRace, Fin, Fixing, InGrant, GrantPc, Comp, Stops, Idle, Each, Shape, WorkerRole
  <2>3. Apart(q, p)'
    BY <1>1, <1>2, <2>1 DEF Base, Near, RepairClearedEffect, Apart, PGrant, POne, PWork, PClean,
       PFix, PRace, InEnd, Fin, Fixing, Latest, InGrant, GrantPc, Comp, Clears, Stops, Idle,
       Each, Shape, Where, CGate, CAudit, WorkerRole
  <2> QED BY <2>2, <2>3
<1>5. Shared(p)
  BY <1>1, <1>2 DEF RepairClearedEffect, Shared, Cleared, LeaseStays
<1>6. Seals(p) /\ Grants(p)
  BY <1>1, <1>2 DEF RepairClearedEffect, Seals, Sealing, Grants, GrantPc, Stops, Idle
<1> QED BY <1>1, <1>3, <1>4, <1>5, <1>6 DEF Acts

LEMMA AuditReleaseActs ==
  ASSUME TypeOK, Core, NEW p \in Worker, AuditRelease(p)
  PROVE  Acts(p)
<1>1. p \in Proc /\ job[p].pc = "w_audit" /\ Steps(p) /\ AuditReleaseEffect(p)
  BY AuditReleaseDoes DEF Proc
<1>2. Base(p) /\ \A q \in Proc \ {p} : Near(p, q)
  BY <1>1, BaseHolds
<1>3. Stands(p)'
  BY <1>1, <1>2 DEF Proc, Base, AuditReleaseEffect, Stands, LWork, LEnd, LLatch, Where, CGate,
     CAudit, CPub, CUndo, CPend, CComp, CAfter, CMark, CRev, CBrev, CRef, CRarm, CClean, CEnd,
     CRace, CFix, Mine, InEnd, Fin, Latest, Fixing, Comp, Works, Fits, LeaseStays, MarkStays,
     Latching, Keeps, Each, Shape, Runs, WorkerRole, ThreadRole
<1>4. ASSUME NEW q \in Proc \ {p} PROVE Apart(p, q)' /\ Apart(q, p)'
  <2>1. Near(p, q)
    BY <1>2
  <2> QED
    BY <1>1, <1>2, <2>1 DEF Proc, Base, Near, AuditReleaseEffect, Apart, PGrant, POne, PWork,
       PClean, PFix, PRace, InEnd, Raced, Mine, Fin, Fixing, Latest, GrantPc, MarkStays, Each,
       Shape, LWork, Works, WorkerRole, ThreadRole, Runs
<1>5. Shared(p)
  BY <1>1, <1>2 DEF Shared, Ended
<1>6. Seals(p) /\ Grants(p)
  BY <1>1, <1>2 DEF Seals, Sealing, Grants, GrantPc, Fin, Shape, ThreadRole, WorkerRole, Base,
     Proc, Each
<1> QED BY <1>1, <1>3, <1>4, <1>5, <1>6 DEF Acts

LEMMA BeginReleaseActs ==
  ASSUME TypeOK, Core, NEW p \in Thread, BeginRelease(p)
  PROVE  Acts(p)
<1>1. p \in Proc /\ Steps(p) /\ BeginReleaseEffect(p)
  BY BeginReleaseDoes DEF Proc
<1>2. Base(p) /\ \A q \in Proc \ {p} : Near(p, q)
  BY <1>1, BaseHolds
<1>3. Stands(p)'
  BY <1>1, <1>2 DEF Base, BeginReleaseEffect, Stands, LWork, LEnd, LLatch, Where, CGate, CAudit,
     CPub, CUndo, CPend, CComp, CAfter, CMark, CRev, CBrev, CRef, CRarm, CClean, CEnd, CRace,
     CFix, NoLease, InEnd, Fin, Latest, Fixing, GrantPc, Comp, Fits, Alike, Still, Waits,
     LeaseStays, MarkStays, Whole, Shape, Runs, MemNamed, WorkerRole, Last, Twin
<1>4. ASSUME NEW q \in Proc \ {p} PROVE Apart(p, q)' /\ Apart(q, p)'
  <2>1. Near(p, q)
    BY <1>2
  <2> QED
    BY <1>1, <1>2, <2>1, LeaseAssumption DEF Near, BeginReleaseEffect, Apart, PGrant, POne,
       PWork, PClean, PFix, PRace, InEnd, Fin, Fixing, InGrant, GrantPc, Comp, Each, Where,
       CGate, CAudit
<1>5. Shared(p)
  BY <1>1, <1>2 DEF BeginReleaseEffect, Shared, Still
<1>6. Seals(p) /\ Grants(p)
  BY <1>1, <1>2 DEF BeginReleaseEffect, Seals, Sealing, Grants, GrantPc
<1> QED BY <1>1, <1>3, <1>4, <1>5, <1>6 DEF Acts

LEMMA BeginRepairActs ==
  ASSUME TypeOK, Core, NEW p \in Thread, BeginRepair(p), amiss' = {}
  PROVE  Acts(p)
<1>1. p \in Proc /\ job[p].pc = "idle" /\ Steps(p) /\ BeginRepairEffect(p)
  BY BeginRepairDoes DEF Proc
<1>2. Base(p) /\ \A q \in Proc \ {p} : Near(p, q)
  BY <1>1, BaseHolds
<1>3. Stands(p)'
  BY <1>1, <1>2 DEF BeginRepairEffect, Stands, LWork, LEnd, LLatch, Where, CGate, CAudit, CPub,
     CUndo, CPend, CComp, CAfter, CMark, CRev, CBrev, CRef, CRarm, CClean, CEnd, CRace, CFix,
     InEnd, Fin, Latest, Fixing, GrantPc, Comp, Works
<1>4. ASSUME NEW q \in Proc \ {p} PROVE Apart(p, q)' /\ Apart(q, p)'
  <2>1. Near(p, q)
    BY <1>2
  <2> QED
    BY <1>1, <1>2, <2>1 DEF Near, BeginRepairEffect, Apart, PGrant, POne, PWork, PClean, PFix,
       PRace, InEnd, Fin, Fixing, Latest, GrantPc
<1>5. Shared(p)
  BY <1>1, <1>2 DEF Shared
<1>6. Seals(p) /\ Grants(p)
  BY <1>1, <1>2 DEF BeginRepairEffect, Seals, Sealing, Grants, GrantPc
<1> QED BY <1>1, <1>3, <1>4, <1>5, <1>6 DEF Acts

-----------------------------------------------------------------------------
(* The snapshot, and what names the lease that stands in the ledger.       *)

(* A snapshot is older than the coordinator, or names the same leases.     *)
Agrees(s) == s.rev <= mem.rev /\ (s.rev = mem.rev => Named(s) = MemNamed)
GFresh == Up => Deaf \/ Agrees(disk.snap)
LFresh(p) == Up /\ job[p].pc \in Saving => Agrees(job[p].snap)
Fresher == GFresh /\ \A p \in Proc : LFresh(p)

(* The lease stands in the ledger, and nothing but a snapshot names it.    *)
Marked == (disk.wal # NoWal /\ disk.wal.lease = issued) \/ issued \in boot.named
Bare == issued \in ledger /\ ~Marked
(* Nothing is saved any more: the fault is one no snapshot may hold.       *)
Mute == MemNamed = {} /\ mem.fault = Unmarked /\ mem.wal = NoWal /\ disk.wal = NoWal
Alive == issued \in MemNamed \/ Mute \/ Deaf
Later(p) == job[p].pc \in Saving /\ job[p].snap.rev > disk.snap.rev
              => issued \in Named(job[p].snap) \/ job[p].snap.fault = Unmarked
Covered == issued \in Named(disk.snap) /\ \A p \in Proc : Later(p)
Safe == Bare => Covered /\ (Up => Alive)
Seal(p) ==
  /\ Sealing(p) => Covered
  /\ job[p].pc = "f_snap" /\ job[p].after = "publish" => job[p].snap.rev = job[p].view.rev
Durable == Fresher /\ Safe /\ \A p \in Proc : Seal(p)

(* Revisions are numbers, and no lease is number zero.                     *)
LEMMA SnapTypes ==
  ASSUME TypeOK
  PROVE  /\ mem.rev \in Nat /\ disk.snap.rev \in Nat /\ \A p \in Proc : job[p].snap.rev \in Nat
         /\ issued \in Nat /\ (issued \in ledger => issued # 0)
  BY LeaseAssumption DEF TypeOK, Memory, Snapshot, Job

(* The revision only grows, and a change of the names makes it grow.       *)
LEMMA FreshKept ==
  ASSUME TypeOK, TypeOK', Fresher, NEW p \in Proc, Steps(p)
  PROVE  Fresher'
<1>1. /\ Up /\ ~Deaf /\ Saves(p) /\ Captures(p) /\ \A q \in Proc \ {p} : job'[q] = job[q]
      /\ mem'.rev > mem.rev \/ (mem'.rev = mem.rev /\ MemNamed' = MemNamed)
  BY DEF Steps, Frame, Runs, Others
<1>2. /\ mem.rev \in Nat /\ mem'.rev \in Nat /\ disk.snap.rev \in Nat
      /\ \A q \in Proc : job[q].snap.rev \in Nat
  BY SnapTypes DEF TypeOK, Memory
<1>3. ASSUME NEW s, NEW t, s.rev \in Nat, Agrees(s), t = s
      PROVE  t.rev <= mem'.rev /\ (t.rev = mem'.rev => Named(t) = MemNamed')
  BY <1>1, <1>2, <1>3 DEF Agrees
<1>4. Agrees(disk.snap) /\ (job[p].pc \in Saving => Agrees(job[p].snap))
  BY <1>1 DEF Fresher, GFresh, LFresh
<1>5. disk'.snap.rev <= mem'.rev /\ (disk'.snap.rev = mem'.rev => Named(disk'.snap) = MemNamed')
  BY <1>1, <1>2, <1>3, <1>4 DEF Saves, SnapStays
<1>6. ASSUME NEW q \in Proc, job'[q].pc \in Saving
      PROVE  /\ job'[q].snap.rev <= mem'.rev
             /\ job'[q].snap.rev = mem'.rev => Named(job'[q].snap) = MemNamed'
  <2>1. CASE q = p
    BY <1>1, <1>2, <1>6, <2>1 DEF Captures
  <2>2. CASE q # p
    <3>1. job'[q] = job[q] /\ Agrees(job[q].snap)
      BY <1>1, <1>6, <2>2 DEF Fresher, LFresh
    <3> QED BY <1>2, <1>3, <3>1
  <2> QED BY <2>1, <2>2
<1> QED BY <1>5, <1>6 DEF Fresher, GFresh, LFresh, Agrees

(* A covered lease stays covered while the coordinator names it.           *)
LEMMA CoverKept ==
  ASSUME TypeOK, TypeOK', Fresher, Covered, NEW p \in Proc, Steps(p),
         Alive' \/ job'[p].pc \notin Saving
  PROVE  Covered'
<1>1. /\ Up /\ ~Deaf /\ mem'.rev # 0 /\ issued' = issued /\ Saves(p) /\ Captures(p)
      /\ \A q \in Proc \ {p} : job'[q] = job[q]
  BY DEF Steps, Frame, Runs, Others
<1>2. /\ disk.snap.rev \in Nat /\ disk'.snap.rev \in Nat
      /\ \A q \in Proc : job[q].snap.rev \in Nat /\ job'[q].snap.rev \in Nat
  BY SnapTypes DEF TypeOK, Memory, Snapshot, Job
<1>3. Later(p) /\ issued \in Named(disk.snap)
  BY DEF Covered
<1>4. issued \in Named(disk'.snap) /\ disk'.snap.rev >= disk.snap.rev
  BY <1>1, <1>2, <1>3 DEF Saves, SnapStays, Later
<1>5. ASSUME NEW q \in Proc
      PROVE  Later(q)'
  <2>1. CASE q # p
    BY <1>1, <1>2, <1>4, <2>1 DEF Covered, Later
  <2>2. CASE q = p /\ job'[q].pc \in Saving
    BY <1>1, <2>2 DEF Later, Captures, Alive, Mute, Deaf
  <2> QED BY <2>1, <2>2 DEF Later
<1> QED BY <1>1, <1>4, <1>5 DEF Covered

(* With a marker on disk the lease is still the coordinator's.             *)
LEMMA MarkedAlive ==
  ASSUME Core, Safe, Bare, Up, disk.wal # NoWal
  PROVE  issued \in MemNamed
  BY DEF Safe, Alive, Mute, Deaf

(* A lease that loses its marker was covered before, or left the ledger.   *)
LEMMA SafeKept ==
  ASSUME TypeOK, TypeOK', Core, Durable, NEW p \in Proc, Acts(p)
  PROVE  Safe'
<1>1. Steps(p) /\ Shared(p) /\ Each(p) /\ Whole /\ Safe /\ Fresher /\ Seal(p)
  BY DEF Acts, Core, Durable
<1>2. /\ Up /\ Up' /\ ~Deaf /\ mem'.rev # 0 /\ issued' = issued
      /\ boot'.named = {} /\ boot.named = {}
      /\ issued \in Nat /\ (issued \in ledger' => issued # 0)
  BY <1>1, SnapTypes, LeaseAssumption DEF Steps, Frame, Runs, Whole, Boots, Up, TypeOK
<1>3. SUFFICES ASSUME Bare'
               PROVE  Alive' /\ Covered
  BY <1>1, CoverKept DEF Safe
<1>4. issued # 0 /\ (Bare => Covered /\ Alive)
  BY <1>1, <1>2, <1>3 DEF Safe, Bare
<1>5. CASE Waits
  BY <1>2, <1>3, <1>4, <1>5
     DEF Waits, MarkStays, LedgerStays, FaultStays, LeaseStays, Bare, Marked, Alive, Mute, MemNamed
<1>6. CASE Turned(p)
  <2>1. Bare /\ disk.wal # NoWal
    BY <1>2, <1>3, <1>6 DEF Turned, Moves, Alike, Bare, Marked, LedgerStays
  <2> QED BY <1>1, <1>2, <1>4, <1>6, <2>1, MarkedAlive
          DEF Turned, Moves, LeaseStays, MemNamed, Alive
<1>7. CASE Cleared(p)
  <2>1. /\ issued \in ledger /\ disk.wal # NoWal /\ mem'.active = mem.active
        /\ mem'.releasing = mem.releasing
    BY <1>2, <1>3, <1>7 DEF Cleared, Clears, Bare, LedgerStays
  <2>2. CASE job[p].pc = "f_clear" /\ job[p].after = "publish"
    <3>1. Covered
      BY <1>1, <2>2 DEF Seal, Sealing
    <3>2. mem.active = issued
      BY <1>1, <2>2 DEF Each, Where, CPub, Fin
    <3> QED BY <1>2, <1>4, <2>1, <3>1, <3>2 DEF Alive, MemNamed, NoLease
  <2>3. CASE job[p].pc = "f_clear" /\ job[p].after # "publish"
    <3>1. job[p].after \in {"undo", "handoff"}
      BY <1>1, <2>3 DEF Each, Shape, WorkerRole, ThreadRole, Fin, Proc
    <3> QED BY <1>1, <2>1, <2>3, <3>1 DEF Each, Where, CUndo, CEnd, InEnd, Fin
  <2>4. CASE job[p].pc = "fix_clear"
    <3>1. disk.wal.lease \notin ledger
      BY <1>1, <1>7, <2>4 DEF Cleared, Clears, Whole, Closed, Each, Where, CFix
    <3>2. Bare
      BY <1>2, <2>1, <3>1 DEF Bare, Marked
    <3>3. issued \in MemNamed
      BY <1>1, <1>2, <2>1, <3>2, MarkedAlive
    <3> QED BY <1>2, <1>4, <1>7, <2>4, <3>2, <3>3 DEF Cleared, Clears, MemNamed, Alive
  <2> QED BY <1>7, <2>2, <2>3, <2>4 DEF Cleared
<1>8. CASE Dropped(p)
  <2>1. issued \in ledger /\ Bare
    BY <1>2, <1>3, <1>8 DEF Dropped, Drops, Bare, Marked, MarkStays, LedgerStays
  <2>2. job[p].lease # issued
    BY <1>1, <1>2, <1>4, <1>8, <2>1
       DEF Dropped, Each, Where, CGate, CAudit, CRef, Latest, LWork, Works, GrantPc, Fixing
  <2>3. mem'.inflight = mem.inflight
    BY <1>1, <1>8, <2>2 DEF Dropped, Drops, Whole, Last, MemNamed
  <2> QED BY <1>2, <1>4, <1>8, <2>1, <2>3
          DEF Dropped, Drops, MarkStays, Alive, Mute, MemNamed
<1>9. CASE ArmedBy(p)
  <2>1. job[p].lease = issued
    BY <1>1, <1>9 DEF ArmedBy, Each, LWork, Works, GrantPc, Comp, Latest
  <2> QED BY <1>2, <1>3, <1>9, <2>1 DEF ArmedBy, Arms, Bare, Marked
<1>10. CASE Audited(p)
  BY <1>1, <1>2, <1>3, <1>10
     DEF Audited, Audits, MarkStays, Bare, Marked, Each, Where, CAudit, Holds, Mine, NoWal
<1>11. CASE Revoked(p)
  <2>1. Bare /\ MarkStays
    BY <1>2, <1>3, <1>11 DEF Revoked, Revokes, MarkStays, Bare, Marked
  <2>2. issued \in MemNamed /\ job[p].lease = issued
    BY <1>1, <1>2, <1>11
       DEF Revoked, Each, LWork, Works, Latest, Where, CComp, Comp, MemNamed, NoLease
  <2>3. mem.wal = NoWal /\ disk.wal = NoWal
    BY <1>1, <2>1, <2>2
       DEF Bare, Marked, Whole, Owned, Fits, Sounds, Sound, Alike, NoWal
  <2>4. mem'.fault = Unmarked /\ mem'.wal = NoWal /\ disk'.wal = NoWal
    BY <1>11, <2>1, <2>3 DEF Revoked, MarkStays
  <2>5. mem'.active = NoLease /\ mem'.inflight = NoLease
    BY <1>1, <1>11, <2>2 DEF Revoked, Revokes, Whole, Last, MemNamed
  <2> QED BY <1>1, <1>2, <1>4, <1>11, <2>1, <2>4, <2>5
          DEF Revoked, Revokes, Alive, Mute, MemNamed, Whole, Last
<1>12. CASE Ended(p)
  BY <1>2, <1>3, <1>4, <1>12
     DEF Ended, AuditReleaseEffect, MarkStays, FaultStays, LeaseStays, Bare, Marked, Alive,
         Mute, MemNamed
<1>13. CASE p \in Thread /\ BeginRepairEffect(p)
  <2>1. Bare /\ disk.wal # NoWal
    BY <1>2, <1>3, <1>13 DEF BeginRepairEffect, Alike, Bare, Marked, NoWal
  <2> QED BY <1>1, <1>2, <1>4, <1>13, <2>1, MarkedAlive
          DEF BeginRepairEffect, LeaseStays, MemNamed, Alive
<1> QED BY <1>1, <1>5, <1>6, <1>7, <1>8, <1>9, <1>10, <1>11, <1>12, <1>13 DEF Shared

(* A publication that goes on to clear its marker has saved its snapshot:  *)
(* the revision it captured is still the coordinator's.                    *)
LEMMA SealKept ==
  ASSUME TypeOK, TypeOK', Core, Core', Durable, Fresher', NEW p \in Proc, Acts(p), NEW q \in Proc
  PROVE  Seal(q)'
<1>1. Steps(p) /\ Seals(p) /\ Each(q) /\ Each(q)' /\ Fresher /\ Seal(q)
  BY DEF Acts, Core, Durable
<1>2. /\ Up /\ ~Deaf /\ issued' = issued /\ \A r \in Proc \ {p} : job'[r] = job[r]
  BY <1>1 DEF Steps, Frame, Runs, Others
<1>3. ASSUME Sealing(q)'
      PROVE  issued' # 0 /\ mem'.active = issued'
  BY <1>1, <1>3 DEF Sealing, Each, Where, CPub, LWork, Works, Latest, Fin
<1>4. CASE q # p
  <2>1. job'[q] = job[q]
    BY <1>2, <1>4
  <2>2. Sealing(q)' => Covered'
    BY <1>1, <1>3, <2>1, CoverKept DEF Sealing, Seal, Alive, MemNamed, NoLease
  <2> QED BY <1>1, <2>1, <2>2 DEF Seal
<1>5. CASE q = p
  <2>1. Sealing(p)' => job'[p].pc \notin Saving
    BY DEF Sealing, Saving
  <2>2. CASE Sealing(p)
    BY <1>1, <1>5, <2>1, <2>2, CoverKept DEF Seal, Seals
  <2>3. CASE /\ Sealing(p)' /\ job[p].pc = "f_snap" /\ job[p].after = "publish"
             /\ mem.rev = job[p].view.rev
             /\ disk'.snap = Newer(disk.snap, job[p].snap)
    <3>1. job[p].snap.rev = mem.rev /\ mem.active = issued
      BY <1>1, <1>5, <2>3 DEF Seal, Each, Where, CPub, Fin
    <3>2. Agrees(job[p].snap) /\ Agrees(disk.snap)
      BY <1>1, <1>2, <1>5, <2>3 DEF Fresher, GFresh, LFresh, Saving
    <3>3. issued # 0
      BY <1>2, <1>3, <1>5, <2>3
    <3>4. disk'.snap.rev = mem.rev /\ issued \in Named(disk'.snap)
      BY <2>3, <3>1, <3>2, <3>3, SnapTypes DEF Newer, Agrees, MemNamed, NoLease
    <3>5. ASSUME NEW r \in Proc
          PROVE  Later(r)'
      <4>1. CASE r = p
        BY <2>1, <2>3, <4>1 DEF Later
      <4>2. CASE r # p
        <5>1. job'[r] = job[r] /\ (job[r].pc \in Saving => job[r].snap.rev <= mem.rev)
          BY <1>1, <1>2, <4>2 DEF Fresher, LFresh, Agrees
        <5> QED BY <3>4, <5>1, SnapTypes DEF Later
      <4> QED BY <4>1, <4>2
    <3>6. Covered'
      BY <1>2, <3>4, <3>5 DEF Covered
    <3> QED BY <1>1, <1>5, <3>6 DEF Seal, Seals
  <2> QED BY <1>1, <1>5, <2>2, <2>3 DEF Seal, Seals
<1> QED BY <1>4, <1>5

Inv == Core /\ Durable

(* Both halves are kept by a step of one job.                              *)
LEMMA ActsInv ==
  ASSUME TypeOK, TypeOK', Inv, NEW p \in Proc, Acts(p)
  PROVE  Inv'
<1>1. Core' /\ Fresher' /\ Safe'
  BY ActsKeep, FreshKept, SafeKept DEF Inv, Durable, Acts
<1> QED BY <1>1, SealKept DEF Inv, Durable

-----------------------------------------------------------------------------
(* The steps that start a grant, or end a cleanup, touch more than one job *)
(* or create a lease.                                                      *)

(* A grant begins only when no lease stands granted any more.              *)
LEMMA LedgerEmpty ==
  ASSUME TypeOK, Inv, Up, SlotIdle, mem.fault = NoMarker
  PROVE  /\ ledger = {} /\ MemNamed = {} /\ disk.wal = NoWal /\ issued \in Nat
         /\ \A p \in Proc : ~Works(p) /\ ~Sealing(p)
<1>1. /\ MemNamed = {} /\ disk.wal = NoWal /\ boot.named = {} /\ issued \in Nat
      /\ \A p \in Proc : Each(p)
  BY SnapTypes DEF SlotIdle, MemNamed, Inv, Core, Whole, Twin, Boots, Up
<1>2. issued \notin ledger
  BY <1>1 DEF Inv, Durable, Safe, Bare, Marked, Alive, Mute, Deaf, Unmarked, NoMarker, NoLease
<1>3. ledger = {}
  BY <1>2 DEF Inv, Core, Whole, Last
<1>4. ASSUME NEW p \in Proc, Works(p)
      PROVE  FALSE
  <2>1. issued # 0 /\ Shape(p) /\ Where(p)
    BY <1>1, <1>4 DEF Each, LWork, Latest
  <2> QED BY <1>1, <1>4, <2>1
          DEF Works, Shape, WorkerRole, ThreadRole, Where, CGate, CAudit, CPub, CUndo, CPend, CComp,
              CRarm, CClean, CEnd, InEnd, Holds, Mine, NoWal, NoLease, SlotIdle, GrantPc, Comp, Fin,
              Proc, MemNamed
<1> QED BY <1>1, <1>3, <1>4 DEF Works, Sealing, Fin

LEMMA BeginGrantKeeps ==
  ASSUME TypeOK, TypeOK', Inv, NEW t \in Thread, NEW fifo \in BOOLEAN, BeginGrant(t, fifo)
  PROVE  Inv'
<1>1. BeginGrantEffect(t) /\ t \in Proc
  BY BeginGrantDoes DEF Inv, Proc
<1>2. /\ Up /\ boot' = boot /\ issued' = issued + 1 /\ ledger' = ledger /\ disk' = disk
      /\ SlotIdle /\ mem.fault = NoMarker /\ mem'.rev > mem.rev
      /\ \A q \in Proc \ {t} : job'[q] = job[q]
      /\ job'[t].pc = "gate" /\ job'[t].lease = issued' /\ job'[t].after = "none" /\ Shape(t)'
  BY <1>1 DEF BeginGrantEffect, Others, LedgerStays
<1>3. /\ ledger = {} /\ MemNamed = {} /\ disk.wal = NoWal /\ issued \in Nat
      /\ mem.rev \in Nat /\ mem'.rev \in Nat /\ disk.snap.rev \in Nat
      /\ \A q \in Proc : ~Works(q) /\ ~Sealing(q) /\ Each(q) /\ job[q].lease \in Nat
                         /\ job[q].snap.rev \in Nat
  BY <1>2, LedgerEmpty, SnapTypes, LeaseAssumption
     DEF Inv, Core, TypeOK, Memory, Job, LeaseOrNone, NoLease, Lease
<1>4. /\ mem'.active = NoLease /\ mem'.releasing = NoLease /\ mem'.inflight = issued'
      /\ mem'.wal = NoWal /\ mem'.fault = NoMarker
  BY <1>1 DEF BeginGrantEffect
<1>5. Whole'
  BY <1>2, <1>3, <1>4
     DEF Inv, Core, Whole, Sounds, Sound, SoundFault, Boots, Up, Last, MemNamed, Twin, Owned, Fits,
         Alike, Closed, Retiring, Held, NoLease
<1>6. ASSUME NEW q \in Proc \ {t}
      PROVE  /\ Each(q)' /\ ~Latest(q)' /\ ~Works(q)' /\ job'[q] = job[q]
             /\ job[q].pc \notin GrantPc \cup {"cleanup", "c_arm"} /\ ~InEnd(q)'
  <2>1. job'[q] = job[q] /\ Each(q) /\ ~Works(q) /\ job[q].lease \in Nat
    BY <1>2, <1>3
  <2>2. ~Latest(q)' /\ ~Works(q)' /\ ~InEnd(q)'
    BY <1>2, <1>3, <2>1 DEF Latest, Works, InEnd, Each, LWork
  <2>3. job[q].pc \notin GrantPc \cup Comp \cup Fin \cup {"cleanup", "w_audit"}
    BY <2>1 DEF Works
  <2>4. Shape(q)' /\ LWork(q)' /\ LEnd(q)' /\ LLatch(q)'
    BY <1>2, <1>3, <2>1, <2>2
       DEF Each, Shape, WorkerRole, ThreadRole, Formed, LWork, LEnd, LLatch
  <2>5. Where(q)'
    BY <1>2, <1>3, <1>4, <2>1, <2>2, <2>3
       DEF Each, Where, CGate, CAudit, CPub, CUndo, CPend, CComp, CAfter, CMark, CRev, CBrev, CRef,
           CRarm, CClean, CEnd, CRace, CFix, GrantPc, Comp, Fin, Works
  <2> QED BY <2>1, <2>2, <2>3, <2>4, <2>5 DEF Each, Comp
<1>7. Each(t)'
  BY <1>2, <1>3, <1>4, LeaseAssumption
     DEF Each, LWork, LEnd, LLatch, Where, CGate, CAudit, CPub, CUndo, CPend, CComp, CAfter, CMark,
         CRev, CBrev, CRef, CRarm, CClean, CEnd, CRace, CFix, GrantPc, Comp, Fin, InEnd, Latest,
         Works, Fits, Alike, Fixing, NoLease, NoWal
<1>8. ASSUME NEW q \in Proc, NEW r \in Proc \ {q}
      PROVE  Apart(q, r)'
  <2>1. Apart(q, r)
    BY DEF Inv, Core
  <2>2. CASE q = t
    BY <1>2, <1>6, <2>2
       DEF Apart, PGrant, POne, PWork, PClean, PFix, PRace, Fixing
  <2>3. CASE q # t
    BY <1>2, <1>6, <2>1, <2>3
       DEF Apart, PGrant, POne, PWork, PClean, PFix, PRace, Fixing
  <2> QED BY <2>2, <2>3
<1>9. Core'
  BY <1>5, <1>6, <1>7, <1>8 DEF Core
<1>10. ~Deaf /\ mem'.rev # 0
  BY <1>2, <1>3 DEF Deaf
<1>11. Fresher'
  <2>1. Agrees(disk.snap) /\ \A q \in Proc : LFresh(q)
    BY <1>2, <1>10 DEF Inv, Durable, Fresher, GFresh
  <2>2. GFresh'
    BY <1>2, <1>3, <2>1 DEF GFresh, Agrees
  <2>3. ASSUME NEW q \in Proc
        PROVE  LFresh(q)'
    BY <1>2, <1>3, <2>1 DEF LFresh, Agrees, Saving
  <2> QED BY <2>2, <2>3 DEF Fresher
<1>12. Safe'
  BY <1>2, <1>3 DEF Safe, Bare
<1>13. ASSUME NEW q \in Proc
       PROVE  Seal(q)'
  BY <1>2, <1>3 DEF Inv, Durable, Seal, Sealing
<1> QED BY <1>9, <1>11, <1>12, <1>13 DEF Inv, Durable

(* The lease is being retired: no one grants, nothing is sealed, and the   *)
(* lease is marked or no longer stands in the ledger.                      *)
LEMMA WhileRetiring ==
  ASSUME TypeOK, Inv, mem.releasing # NoLease
  PROVE  /\ mem.releasing = issued /\ issued # 0 /\ mem.active = NoLease /\ Fits /\ ~Bare
         /\ mem.wal = NoWal \/ Mine(mem.wal, "release")
         /\ disk.wal = NoWal => issued \notin ledger
         /\ \A p \in Proc : job[p].pc \notin GrantPc /\ ~Sealing(p)
         /\ \A p \in Proc : p \in Worker => ~Latest(p)
<1>1. /\ mem.active = NoLease /\ mem.releasing = issued /\ issued # 0 /\ Fits
      /\ mem.wal = NoWal \/ Mine(mem.wal, "release")
      /\ disk.wal = NoWal => issued \notin ledger
  BY DEF Inv, Core, Whole, Retiring, Last, Owned, MemNamed, NoLease
<1>2. ~Bare
  BY <1>1 DEF Bare, Marked, Fits
<1>3. ASSUME NEW p \in Proc
      PROVE  /\ job[p].pc \notin GrantPc /\ ~Sealing(p)
             /\ p \in Worker => ~Latest(p)
  BY <1>1
     DEF Inv, Core, Each, Where, CGate, CAudit, CPub, LEnd, GrantPc, Sealing, Fin, NoLease
<1> QED BY <1>1, <1>2, <1>3

LEMMA HandOverKeeps ==
  ASSUME TypeOK, TypeOK', Inv, NEW gone \in SUBSET Thread, mem.releasing # NoLease,
         HandOverEffect(mem.releasing, gone),
         \A t \in Thread : job[t].pc = "cleanup" => t \in gone
  PROVE  Inv'
<1>1. /\ Up /\ boot' = boot /\ issued' = issued /\ ~Deaf /\ mem'.rev # 0 /\ mem'.rev > mem.rev
      /\ disk' = disk /\ ledger' = ledger
      /\ mem'.active = mem.active /\ mem'.inflight = mem.inflight /\ mem'.wal = mem.wal
      /\ mem'.fault = mem.fault /\ mem'.releasing = NoLease /\ mem'.handoff
  BY DEF HandOverEffect, Runs, LedgerStays
<1>2. /\ mem.releasing = issued /\ issued # 0 /\ mem.active = NoLease /\ Fits /\ ~Bare
      /\ mem.wal = NoWal \/ Mine(mem.wal, "release")
      /\ disk.wal = NoWal => issued \notin ledger
      /\ \A p \in Proc : job[p].pc \notin GrantPc /\ ~Sealing(p)
      /\ \A p \in Proc : p \in Worker => ~Latest(p)
  BY WhileRetiring
<1>3. /\ issued \in Nat /\ mem.rev \in Nat /\ mem'.rev \in Nat /\ disk.snap.rev \in Nat
      /\ \A p \in Proc : job[p].snap.rev \in Nat
  BY SnapTypes DEF TypeOK, Memory
<1>4. \A q \in Proc : Shape(q) /\ LWork(q) /\ LEnd(q) /\ LLatch(q) /\ Where(q)
  BY DEF Inv, Core, Each
<1>5. /\ Idle.pc = "idle" /\ Idle.lease = NoLease /\ Idle.after = "none"
      /\ Idle.snap.fault = NoMarker /\ Idle.view.fault = NoMarker
  BY DEF Idle, NoSnapshot, View, Fresh
<1> DEFINE New(q) == q \in Worker /\ job[q].pc = "idle" /\ Shape(q)'
                     /\ job'[q].pc = "w_audit" /\ job'[q].lease = issued
           Rest(q) == job'[q].pc # "cleanup" /\ (job'[q] = job[q] \/ job'[q] = Idle)
<1>6. /\ \A q \in Proc : New(q) \/ Rest(q)
      /\ \A q \in Proc : \A r \in Proc \ {q} : New(q) => Rest(r)
  <2>1. ASSUME NEW q \in Proc, Turns(gone, q)
        PROVE  Rest(q)
    BY <1>4, <1>5, <2>1 DEF Turns, Shape, WorkerRole, Fin, Proc
  <2>2. CASE \A q \in Proc : Turns(gone, q)
    BY <2>1, <2>2
  <2>3. CASE \E w \in Worker : Enters(w, mem.releasing) /\ \A q \in Proc \ {w} : Turns(gone, q)
    <3>1. PICK w \in Worker : Enters(w, issued) /\ \A q \in Proc \ {w} : Turns(gone, q)
      BY <1>2, <2>3
    <3>2. New(w) /\ \A q \in Proc \ {w} : Rest(q)
      BY <2>1, <3>1 DEF Enters
    <3>3. ASSUME NEW q \in Proc, Rest(q)
          PROVE  ~New(q)
      BY <1>5, <3>3
    <3> QED BY <3>2, <3>3
  <2> QED BY <2>2, <2>3 DEF HandOverEffect
<1> HIDE DEF Idle
<1>7. Whole'
  BY <1>1, <1>2
     DEF Inv, Core, Whole, Sounds, Boots, Up, Last, MemNamed, Twin, Owned, Fits, Closed,
         Retiring, Held, NoLease
<1>8. ASSUME NEW q \in Proc, New(q)
      PROVE  Each(q)'
  BY <1>1, <1>2, <1>3, <1>8
     DEF Each, LWork, LEnd, LLatch, Where, CGate, CAudit, CPub, CUndo, CPend, CComp, CAfter, CMark,
         CRev, CBrev, CRef, CRarm, CClean, CEnd, CRace, CFix, GrantPc, Comp, Fin, InEnd, Latest,
         Works, Fits, Fixing, Mine
<1>9. ASSUME NEW q \in Proc, Rest(q)
      PROVE  /\ Each(q)' /\ job'[q].pc \notin GrantPc /\ (q \in Worker => ~Latest(q)')
             /\ ~Sealing(q)' /\ Seal(q)'
  <2>1. CASE job'[q] = job[q]
    <3>1. Shape(q)' /\ LWork(q)' /\ LEnd(q)' /\ LLatch(q)'
      BY <1>1, <1>2, <1>4, <2>1
         DEF Shape, WorkerRole, ThreadRole, Formed, LWork, LEnd, LLatch, Works, Latest, Fits
    <3>2. Where(q)'
      BY <1>1, <1>2, <1>4, <1>9, <2>1
         DEF Where, CGate, CAudit, CPub, CUndo, CPend, CComp, CAfter, CMark, CRev, CBrev, CRef,
             CRarm, CClean, CEnd, CRace, CFix, InEnd, Latest, State, Holds, Mine, Sealing, Fin,
             GrantPc
    <3>3. Seal(q)
      BY DEF Inv, Durable
    <3> QED BY <1>1, <1>2, <2>1, <3>1, <3>2, <3>3 DEF Each, Latest, Sealing, Seal
  <2>2. CASE job'[q] = Idle
    BY <1>1, <1>2, <1>3, <1>5, <2>2
       DEF Each, Shape, WorkerRole, ThreadRole, Formed, SoundFault, LWork, LEnd, LLatch, Where,
           CGate, CAudit, CPub, CUndo, CPend, CComp, CAfter, CMark, CRev, CBrev, CRef, CRarm,
           CClean, CEnd, CRace, CFix, GrantPc, Comp, Fin, InEnd, Latest, Works, Fixing, NoLease,
           Sealing, Seal
  <2> QED BY <1>9, <2>1, <2>2
<1>10. ASSUME NEW q \in Proc, NEW r \in Proc \ {q}
       PROVE  Apart(q, r)'
  <2>1. Apart(q, r) /\ CRace(q)
    BY <1>4 DEF Inv, Core, Where
  <2>2. CASE New(q)
    BY <1>6, <1>9, <2>2, LeaseAssumption
       DEF Apart, PGrant, POne, PWork, PClean, PFix, PRace, GrantPc, Fixing
  <2>3. CASE Rest(q) /\ New(r)
    BY <1>1, <1>2, <1>5, <1>9, <2>1, <2>3, LeaseAssumption
       DEF Apart, PGrant, POne, PWork, PClean, PFix, PRace, Fixing, CRace, Raced, Mine
  <2>4. CASE Rest(q) /\ Rest(r)
    BY <1>1, <1>5, <1>9, <2>1, <2>4
       DEF Apart, PGrant, POne, PWork, PClean, PFix, PRace, Fixing, Raced, Mine, InEnd, InGrant,
           Latest, GrantPc, Comp, Fin
  <2> QED BY <1>6, <2>2, <2>3, <2>4
<1>11. Core'
  BY <1>6, <1>7, <1>8, <1>9, <1>10 DEF Core
<1>12. Fresher'
  <2>1. Agrees(disk.snap) /\ \A q \in Proc : LFresh(q)
    BY <1>1 DEF Inv, Durable, Fresher, GFresh
  <2>2. GFresh'
    BY <1>1, <1>3, <2>1 DEF GFresh, Agrees
  <2>3. ASSUME NEW q \in Proc
        PROVE  LFresh(q)'
    BY <1>1, <1>3, <1>5, <1>6, <2>1 DEF LFresh, Agrees, Saving
  <2> QED BY <2>2, <2>3 DEF Fresher
<1>13. Safe'
  BY <1>1, <1>2 DEF Safe, Bare, Marked
<1>14. ASSUME NEW q \in Proc
       PROVE  Seal(q)'
  BY <1>6, <1>9 DEF Seal, Sealing
<1> QED BY <1>11, <1>12, <1>13, <1>14 DEF Inv, Durable

-----------------------------------------------------------------------------
(* The calls that touch no job, and the repair of the ledger.              *)

LEMMA TouchesKeep ==
  ASSUME TypeOK, TypeOK', Inv, Touches
  PROVE  Inv'
<1>1. /\ Up /\ boot' = boot /\ issued' = issued /\ ~Deaf /\ mem'.rev # 0
      /\ mem'.rev > mem.rev \/ (mem'.rev = mem.rev /\ MemNamed' = MemNamed)
      /\ job' = job /\ disk' = disk /\ ledger' = ledger /\ mem'.wal = mem.wal
      /\ mem'.active = mem.active /\ mem'.releasing = mem.releasing
      /\ mem'.inflight = mem.inflight /\ mem'.fault = mem.fault /\ mem'.handoff = mem.handoff
  BY DEF Touches, Runs, Still, Waits, LeaseStays, MarkStays, LedgerStays
<1>2. /\ mem.rev \in Nat /\ mem'.rev \in Nat /\ disk.snap.rev \in Nat
      /\ \A p \in Proc : job[p].snap.rev \in Nat
  BY SnapTypes DEF TypeOK, Memory
<1>3. Whole'
  BY <1>1
     DEF Inv, Core, Whole, Sounds, Boots, Up, Last, MemNamed, Twin, Owned, Fits, Closed, Retiring,
         Held, Mine
<1>4. ASSUME NEW q \in Proc
      PROVE  Each(q)'
  <2>1. Each(q)
    BY DEF Inv, Core
  <2>2. Shape(q)' /\ LWork(q)' /\ LEnd(q)' /\ LLatch(q)'
    BY <1>1, <2>1
       DEF Each, Shape, WorkerRole, ThreadRole, Formed, LWork, LEnd, LLatch, Works, Latest, Fits
  <2>3. Where(q)'
    BY <1>1, <2>1
       DEF Each, Where, CGate, CAudit, CPub, CUndo, CPend, CComp, CAfter, CMark, CRev, CBrev, CRef,
           CRarm, CClean, CEnd, CRace, CFix, InEnd, Latest, State, Holds, Mine, Raced
  <2> QED BY <2>2, <2>3 DEF Each
<1>5. ASSUME NEW q \in Proc, NEW r \in Proc \ {q}
      PROVE  Apart(q, r)'
  <2>1. Apart(q, r)
    BY DEF Inv, Core
  <2> QED BY <1>1, <2>1
          DEF Apart, PGrant, POne, PWork, PClean, PFix, PRace, Latest, InGrant, InEnd, Raced, Mine
<1>6. Fresher'
  <2>1. Agrees(disk.snap) /\ \A q \in Proc : LFresh(q)
    BY <1>1 DEF Inv, Durable, Fresher, GFresh
  <2>2. ASSUME NEW s, s.rev \in Nat, Agrees(s)
        PROVE  s.rev <= mem'.rev /\ (s.rev = mem'.rev => Named(s) = MemNamed')
    BY <1>1, <1>2, <2>2 DEF Agrees
  <2>3. GFresh'
    BY <1>1, <1>2, <2>1, <2>2 DEF GFresh, Agrees
  <2>4. ASSUME NEW q \in Proc
        PROVE  LFresh(q)'
    BY <1>1, <1>2, <2>1, <2>2 DEF LFresh, Agrees
  <2> QED BY <2>3, <2>4 DEF Fresher
<1>7. Safe' /\ \A q \in Proc : Seal(q)'
  BY <1>1 DEF Inv, Durable, Safe, Bare, Marked, Covered, Later, Alive, Mute, MemNamed, Up, Seal,
              Sealing
<1> QED BY <1>3, <1>4, <1>5, <1>6, <1>7 DEF Inv, Core, Durable

LEMMA ReconcileKeeps ==
  ASSUME TypeOK, TypeOK', Inv, ReconcileEffect
  PROVE  Inv'
<1>1. /\ Up /\ boot' = boot /\ issued' = issued /\ mem' = mem /\ job' = job
      /\ disk'.snap = disk.snap /\ disk'.wal.state = "repairing" /\ Alike(disk'.wal, disk.wal)
      /\ ledger' \in {ledger, ledger \ {disk.wal.lease}}
      /\ disk.wal.state \in {"fault", "repairing"} /\ mem.fault = Marks(disk.wal)
  BY DEF ReconcileEffect, SnapStays
<1>2. disk.wal # NoWal /\ disk'.wal # NoWal /\ mem.fault # NoMarker
  BY <1>1 DEF NoWal, NoMarker, Marks, Inv, Core, Whole, Sounds, Sound
<1>3. Whole'
  BY <1>1, <1>2
     DEF Inv, Core, Whole, Sounds, Sound, Boots, Up, Last, MemNamed, Twin, Owned, Fits, Closed,
         Retiring, Held, Mine, Alike
<1>4. ASSUME NEW q \in Proc
      PROVE  Each(q)'
  <2>1. Each(q) /\ job[q].pc \notin Fixing /\ (q \in Worker => job[q].pc = "idle")
    BY DEF Inv, Core, ReconcileEffect
  <2>2. Shape(q)' /\ LWork(q)' /\ LEnd(q)' /\ LLatch(q)'
    BY <1>1, <1>2, <2>1
       DEF Each, Shape, WorkerRole, ThreadRole, Formed, LWork, LEnd, LLatch, Works, Latest, Fits,
           Alike
  <2>3. Where(q)'
    BY <1>1, <1>2, <2>1, LeaseAssumption
       DEF Each, Shape, WorkerRole, ThreadRole, Where, CGate, CAudit, CPub, CUndo, CPend, CComp,
           CAfter, CMark, CRev, CBrev, CRef, CRarm, CClean, CEnd, CRace, CFix, InEnd, Latest, State,
           Holds, Mine, Raced, Fixing, Proc, Fin
  <2> QED BY <2>2, <2>3 DEF Each
<1>5. ASSUME NEW q \in Proc, NEW r \in Proc \ {q}
      PROVE  Apart(q, r)'
  <2>1. Apart(q, r)
    BY DEF Inv, Core
  <2>2. Shape(r) /\ (r \in Worker => job[r].pc = "idle")
    BY DEF Inv, Core, ReconcileEffect, Each
  <2>3. ~InEnd(r)
    BY <2>2 DEF Shape, ThreadRole, InEnd, Proc, Fin
  <2> QED BY <1>1, <2>1, <2>3
          DEF Apart, PGrant, POne, PWork, PClean, PFix, PRace, Latest, InGrant, InEnd
<1>6. Fresher'
  BY <1>1, <1>2 DEF Inv, Durable, Fresher, GFresh, LFresh, Agrees, Deaf, Up, MemNamed
<1>7. Safe' /\ \A q \in Proc : Seal(q)'
  <2>1. \A q \in Proc : Seal(q)'
    BY <1>1 DEF Inv, Durable, Seal, Sealing, Covered, Later
  <2>2. Bare' => Bare /\ issued \in MemNamed
    BY <1>1, <1>2, MarkedAlive DEF Inv, Durable, Bare, Marked, Alike
  <2>3. Bare' => Covered' /\ issued' \in MemNamed'
    BY <1>1, <2>2 DEF Inv, Durable, Safe, Covered, Later, MemNamed
  <2> QED BY <2>1, <2>3 DEF Safe, Alive
<1> QED BY <1>3, <1>4, <1>5, <1>6, <1>7 DEF Inv, Core, Durable

-----------------------------------------------------------------------------
(* A crash, and the three steps of the restart after it.                   *)

LEMMA FreshDoes ==
  /\ Fresh.active = NoLease /\ Fresh.releasing = NoLease /\ Fresh.inflight = NoLease
  /\ Fresh.wal = NoWal /\ Fresh.fault = NoMarker /\ Fresh.rev = 0
  /\ Fresh = [Fresh EXCEPT !.fault = NoMarker]
<1>1. /\ Fresh.active = NoLease /\ Fresh.releasing = NoLease /\ Fresh.inflight = NoLease
      /\ Fresh.wal = NoWal /\ Fresh.fault = NoMarker /\ Fresh.rev = 0
  BY DEF Fresh
<1>2. Fresh \in Memory
  BY DEF Fresh, Memory, NoMarker, NoWal, Wal, Marker, LeaseOrNone
<1> HIDE DEF Fresh
<1> QED BY <1>1, <1>2 DEF Memory

(* What a startup that dies, or whose audit fails, leaves in the ledger    *)
(* had another name than the startup's own list.                           *)
LEMMA ForgetsBare ==
  ASSUME TypeOK, disk' = disk, issued' = issued, ledger' = ledger \ Unended, Bare',
         boot'.named = {}
  PROVE  Bare
<1>1. issued \in ledger /\ issued \notin Unended /\ issued # 0
  BY SnapTypes DEF Bare
<1>2. ~(disk.wal # NoWal /\ disk.wal.lease = issued)
  BY DEF Bare, Marked
<1>3. NoWal.lease = 0
  BY DEF NoWal, NoLease
<1> QED BY <1>1, <1>2, <1>3 DEF Bare, Marked, Unended

LEMMA CrashKeeps ==
  ASSUME TypeOK, TypeOK', Inv, Crash
  PROVE  Inv'
<1>1. /\ disk' = disk /\ ledger' = ledger \ Unended /\ issued' = issued /\ mem' = Fresh
      /\ boot'.at = "down" /\ boot'.named = {}
  BY DEF Crash, Forgets
<1>2. ASSUME NEW p \in Proc
      PROVE  job'[p] = Idle
  BY DEF Crash
<1>3. /\ Fresh.active = NoLease /\ Fresh.releasing = NoLease /\ Fresh.inflight = NoLease
      /\ Fresh.wal = NoWal /\ Fresh.fault = NoMarker /\ Fresh.rev = 0
      /\ Fresh = [Fresh EXCEPT !.fault = NoMarker]
  BY FreshDoes
<1>4. Idle.pc = "idle"
  BY DEF Idle
<1> HIDE DEF Fresh, Idle
<1>5. Whole'
  BY <1>1, <1>3
     DEF Inv, Core, Whole, Sounds, Sound, SoundFault, Boots, Up, Last, MemNamed, Twin, Owned, Fits,
         Closed, Retiring, Held, Mine
<1>6. Core'
  BY <1>2, <1>5, AllIdle
<1>7. Fresher'
  BY <1>1, <1>2, <1>4 DEF Fresher, GFresh, LFresh, Up, Saving
<1>8. ASSUME NEW p \in Proc
      PROVE  Later(p)' /\ Seal(p)'
  BY <1>2, <1>4 DEF Later, Seal, Sealing, Saving
<1>9. Safe'
  <2>1. Bare' => Bare
    BY <1>1, ForgetsBare
  <2> QED BY <1>1, <1>8, <2>1 DEF Inv, Durable, Safe, Covered, Up
<1> QED BY <1>6, <1>7, <1>8, <1>9 DEF Inv, Durable

(* What the restart leaves to be shown: nobody is busy meanwhile.          *)
LEMMA RestartKeeps ==
  ASSUME TypeOK, TypeOK', Inv, boot.at # "up", UNCHANGED <<job, issued>>, Whole', GFresh',
         Bare' => issued \in Named(disk'.snap) /\ (Up' => Alive')
  PROVE  Inv'
<1>1. \A p \in Proc : job'[p] = Idle
  BY NotStarted DEF Inv
<1>2. Idle.pc = "idle"
  BY DEF Idle
<1> HIDE DEF Idle
<1>3. Core'
  BY <1>1, AllIdle
<1>4. ASSUME NEW p \in Proc
      PROVE  Later(p)' /\ Seal(p)' /\ LFresh(p)'
  BY <1>1, <1>2 DEF Later, Seal, Sealing, LFresh, Saving
<1>5. Safe'
  BY <1>4 DEF Safe, Covered
<1> QED BY <1>3, <1>4, <1>5 DEF Inv, Durable, Fresher

RecoverEffect(fault, at) ==
  /\ boot.at = "down" /\ boot'.at = at /\ boot'.named = {} /\ mem'.fault = fault
  /\ mem' = [Fresh EXCEPT !.fault = fault]
  /\ UNCHANGED <<ledger, job, issued>> /\ SnapStays
  /\ at = "recovered" \/ (at = "up" /\ disk'.wal = NoWal /\ fault # NoMarker)
  /\ SoundFault(fault) /\ Sound(disk'.wal) /\ (disk'.wal # NoWal => fault # NoMarker)

LEMMA RecoveredKeeps ==
  ASSUME TypeOK, TypeOK', Inv, NEW fault, NEW at, RecoverEffect(fault, at), Closed',
         Bare' => issued \in Named(disk'.snap)
  PROVE  Inv'
<1>1. /\ boot.at = "down" /\ boot'.at = at /\ boot'.named = {} /\ mem'.fault = fault
      /\ UNCHANGED <<ledger, job, issued>> /\ disk'.snap = disk.snap
      /\ at = "recovered" \/ (at = "up" /\ disk'.wal = NoWal /\ fault # NoMarker)
      /\ SoundFault(fault) /\ Sound(disk'.wal) /\ (disk'.wal # NoWal => fault # NoMarker)
      /\ mem' = [Fresh EXCEPT !.fault = mem'.fault]
  BY DEF RecoverEffect, SnapStays
<1>2. LET m == [Fresh EXCEPT !.fault = fault]
      IN  /\ m.active = NoLease /\ m.releasing = NoLease /\ m.inflight = NoLease
          /\ m.wal = NoWal /\ m.rev = 0
  BY DEF Fresh
<1>3. /\ mem'.active = NoLease /\ mem'.releasing = NoLease /\ mem'.inflight = NoLease
      /\ mem'.wal = NoWal /\ mem'.rev = 0
  BY <1>1, <1>2
<1>4. Whole'
  BY <1>1, <1>3
     DEF Inv, Core, Whole, Sounds, Sound, SoundFault, Boots, Up, Last, MemNamed, Twin, Owned,
         Closed, Retiring, Held
<1>5. GFresh' /\ (Up' => Alive')
  BY <1>1, <1>3 DEF GFresh, Up, Deaf, Alive
<1> QED BY <1>1, <1>4, <1>5, RestartKeeps

LEMMA RecoverKeeps ==
  ASSUME TypeOK, TypeOK', Inv, Recover
  PROVE  Inv'
<1>1. /\ boot.at = "down" /\ boot.named = {} /\ UNCHANGED <<ledger, job, issued>>
      /\ Sound(disk.wal) /\ SoundFault(disk.snap.fault) /\ Closed
      /\ disk.wal \in Wal /\ disk.snap.fault \in Marker
      /\ disk = [wal |-> disk.wal, snap |-> disk.snap]
  BY DEF Recover, Inv, Core, Whole, Sounds, Boots, TypeOK, Snapshot
<1>2. Bare => issued \in Named(disk.snap)
  BY DEF Inv, Durable, Safe, Covered
<1>3. ASSUME NEW fault, NEW at, Recovered(fault, at)
      PROVE  /\ boot'.at = at /\ boot'.named = {} /\ mem'.fault = fault
             /\ mem' = [Fresh EXCEPT !.fault = fault]
  BY <1>1, <1>3 DEF Recovered, TypeOK, Fresh
<1>4. disk.wal.state = "none" <=> disk.wal = NoWal
  BY <1>1 DEF Sound, NoWal
<1>5. Marks(disk.wal) \in Marker /\ (disk.wal # NoWal => Marks(disk.wal) # NoMarker)
      /\ SoundFault(Marks(disk.wal))
  BY <1>1 DEF Marks, Sound, SoundFault, NoMarker, NoWal, Wal, Marker
<1>6. CASE disk.wal.state = "none" /\ disk' = disk /\ Recovered(NoMarker, "recovered")
  <2>1. RecoverEffect(NoMarker, "recovered")
    BY <1>1, <1>3, <1>4, <1>6 DEF RecoverEffect, SnapStays, SoundFault
  <2> QED BY <1>1, <1>2, <1>3, <1>6, <2>1, RecoveredKeeps DEF Closed, Bare, Marked
<1>7. CASE /\ disk.wal.state = "none" /\ disk.snap.fault # NoMarker
           /\ disk' = [disk EXCEPT !.wal = [state |-> "fault", op |-> disk.snap.fault.op,
                         lease |-> disk.snap.fault.lease, changed |-> FALSE, rev |-> 0]]
           /\ Recovered(disk.snap.fault, "recovered")
  <2>1. disk'.snap = disk.snap /\ disk'.wal.state = "fault" /\ disk'.wal.op = disk.snap.fault.op
    BY <1>1, <1>7
  <2>2. RecoverEffect(disk.snap.fault, "recovered")
    BY <1>1, <1>3, <1>7, <2>1 DEF RecoverEffect, SnapStays, SoundFault, Sound
  <2>3. Closed'
    BY <2>1 DEF Closed
  <2> QED BY <1>1, <1>2, <1>4, <1>7, <2>1, <2>2, <2>3, RecoveredKeeps DEF Bare, Marked
<1>8. CASE /\ disk.wal.state = "none" /\ disk.snap.fault # NoMarker /\ disk' = disk
           /\ Recovered(disk.snap.fault, "up")
  <2>1. RecoverEffect(disk.snap.fault, "up")
    BY <1>1, <1>3, <1>4, <1>8 DEF RecoverEffect, SnapStays
  <2> QED BY <1>1, <1>2, <1>3, <1>8, <2>1, RecoveredKeeps DEF Closed, Bare, Marked
<1>9. CASE /\ disk.wal.state # "none" /\ Matches(disk.wal, disk.snap)
           /\ disk' = [disk EXCEPT !.wal = NoWal] /\ Recovered(NoMarker, "recovered")
  <2>1. disk'.snap = disk.snap /\ disk'.wal = NoWal
    BY <1>1, <1>9
  <2>2. RecoverEffect(NoMarker, "recovered")
    BY <1>1, <1>3, <1>9, <2>1 DEF RecoverEffect, SnapStays, SoundFault, Sound
  <2>3. Closed'
    BY <2>1 DEF Closed
  <2>4. ASSUME Bare', disk.wal.lease = issued
        PROVE  issued \in Named(disk.snap)
    <3>1. disk.wal # NoWal /\ disk.wal.lease \in ledger /\ issued # 0
      BY <1>1, <1>4, <1>9, <2>4, SnapTypes DEF Bare
    <3>2. disk.snap.active = issued
      BY <1>1, <1>9, <2>4, <3>1 DEF Matches, Closed, Wal, Sound
    <3> QED BY <3>1, <3>2 DEF Named, NoLease
  <2> QED BY <1>1, <1>2, <1>9, <2>1, <2>2, <2>3, <2>4, RecoveredKeeps DEF Bare, Marked
<1>10. CASE /\ disk.wal.state # "none" /\ Recovered(Marks(disk.wal), "recovered")
            /\ \/ disk' = disk
               \/ disk' = [disk EXCEPT !.wal.state = "fault"]
  <2>1. /\ disk'.snap = disk.snap /\ disk'.wal.lease = disk.wal.lease
        /\ disk'.wal.op = disk.wal.op /\ disk'.wal.state \in {disk.wal.state, "fault"}
        /\ disk'.wal # NoWal /\ disk.wal # NoWal
        /\ disk'.wal.state # "fault" => disk'.wal = disk.wal
    BY <1>1, <1>10 DEF Wal, NoWal
  <2>2. RecoverEffect(Marks(disk.wal), "recovered")
    BY <1>1, <1>3, <1>4, <1>5, <1>10, <2>1 DEF RecoverEffect, SnapStays, Sound
  <2>3. Closed'
    BY <1>1, <2>1 DEF Closed
  <2> QED BY <1>1, <1>2, <1>10, <2>1, <2>2, <2>3, RecoveredKeeps DEF Bare, Marked
<1> QED BY <1>6, <1>7, <1>8, <1>9, <1>10 DEF Recover

LEMMA ConsumeKeeps ==
  ASSUME TypeOK, TypeOK', Inv, Consume
  PROVE  Inv'
<1>1. /\ boot.at = "recovered" /\ boot.named = {} /\ UNCHANGED <<mem, ledger, job, issued>>
      /\ disk'.wal = disk.wal /\ disk'.snap = NoSnapshot
      /\ boot'.at = "consumed" /\ boot'.named = Named(disk.snap)
  BY DEF Consume, Inv, Core, Whole, Boots, TypeOK
<1>2. NoSnapshot.fault = NoMarker
  BY DEF NoSnapshot
<1> HIDE DEF NoSnapshot
<1>3. Whole'
  BY <1>1, <1>2
     DEF Inv, Core, Whole, Sounds, SoundFault, Boots, Up, Last, MemNamed, Twin, Owned, Fits, Closed,
         Retiring, Held, Mine
<1>4. ~Bare'
  BY <1>1 DEF Inv, Durable, Safe, Covered, Bare, Marked
<1>5. GFresh'
  BY <1>1 DEF GFresh, Up
<1> QED BY <1>1, <1>3, <1>4, <1>5, RestartKeeps

LEMMA AttributeKeeps ==
  ASSUME TypeOK, TypeOK', Inv, Attribute
  PROVE  Inv'
<1>1. /\ boot.at = "consumed" /\ UNCHANGED <<mem, disk, job, issued>>
      /\ ledger' = ledger \ boot.named \/ ledger' = ledger \ Unended
      /\ boot'.at = "up" /\ boot'.named = {}
      /\ disk.snap = NoSnapshot
  BY DEF Attribute, Forgets, Inv, Core, Whole, Boots
<1>2. /\ mem.rev = 0 /\ MemNamed = {} /\ mem.active = NoLease /\ mem.wal = NoWal
      /\ mem.releasing = NoLease /\ mem.inflight = NoLease
  BY <1>1, NotStarted DEF Inv
<1>3. Whole'
  BY <1>1, <1>2
     DEF Unended, Inv, Core, Whole, Sounds, Boots, Up, Last, MemNamed, Twin, Owned, Closed, Retiring, Held
<1>4. Named(NoSnapshot) = {} /\ NoSnapshot.rev = 0
  BY DEF Named, NoSnapshot
<1> HIDE DEF NoSnapshot
<1>5. ~Bare'
  <2>1. CASE ledger' = ledger \ boot.named
    BY <1>1, <1>4, <2>1 DEF Inv, Durable, Safe, Covered, Bare, Marked
  <2>2. CASE ledger' = ledger \ Unended
    <3>1. Bare' => Bare
      BY <1>1, <2>2, ForgetsBare
    <3> QED BY <1>1, <1>4, <3>1 DEF Inv, Durable, Safe, Covered
  <2> QED BY <1>1, <2>1, <2>2
<1>6. GFresh'
  BY <1>1, <1>2, <1>4 DEF GFresh, Agrees, MemNamed
<1> QED BY <1>1, <1>3, <1>5, <1>6, RestartKeeps

LEMMA InitInv == Init => Inv
<1> SUFFICES ASSUME Init PROVE Inv
  OBVIOUS
<1>1. /\ mem = Fresh /\ disk.wal = NoWal /\ disk.snap = NoSnapshot /\ ledger = {} /\ issued = 0
      /\ boot.at = "up" /\ boot.named = {} /\ \A p \in Proc : job[p] = Idle
  BY DEF Init
<1>2. /\ Idle.pc = "idle" /\ Idle.lease = NoLease /\ Idle.after = "none"
      /\ Idle.snap.fault = NoMarker /\ Idle.view.fault = NoMarker
      /\ NoSnapshot.rev = 0 /\ NoSnapshot.fault = NoMarker /\ Named(NoSnapshot) = {}
  BY DEF Idle, NoSnapshot, View, Fresh, Named
<1> HIDE DEF Fresh, Idle, NoSnapshot
<1>3. Whole
  BY <1>1, <1>2, FreshDoes
     DEF Whole, Sounds, Sound, SoundFault, Boots, Up, Last, MemNamed, Twin, Owned, Fits, Closed,
         Retiring, Held, Mine, Alike, NoLease
<1>4. ASSUME NEW p \in Proc
      PROVE  ~Works(p) /\ ~Latest(p) /\ ~InEnd(p) /\ ~InGrant(p) /\ Shape(p)
  BY <1>1, <1>2
     DEF Works, Latest, InEnd, InGrant, GrantPc, Comp, Fin, Shape, WorkerRole, ThreadRole, Formed,
         SoundFault
<1>5. ASSUME NEW p \in Proc
      PROVE  Each(p)
  BY <1>1, <1>2, <1>4
     DEF Each, LWork, LEnd, LLatch, Where, CGate, CAudit, CPub, CUndo, CPend, CComp, CAfter,
         CMark, CRev, CBrev, CRef, CRarm, CClean, CEnd, CRace, CFix, GrantPc, Comp, Fin, NoLease
<1>6. ASSUME NEW p \in Proc, NEW q \in Proc \ {p}
      PROVE  Apart(p, q)
  BY <1>1, <1>2, <1>4 DEF Apart, PGrant, POne, PWork, PClean, PFix, PRace, GrantPc, Fixing
<1>7. Fresher
  BY <1>1, <1>2, FreshDoes DEF Fresher, GFresh, LFresh, Agrees, MemNamed, Saving
<1>8. Safe /\ \A p \in Proc : Seal(p)
  BY <1>1, <1>2 DEF Safe, Bare, Seal, Sealing
<1> QED BY <1>3, <1>5, <1>6, <1>7, <1>8 DEF Inv, Core, Durable

LEMMA StutterKeeps ==
  ASSUME Inv, UNCHANGED vars
  PROVE  Inv'
<1>1. /\ mem' = mem /\ disk' = disk /\ ledger' = ledger /\ job' = job /\ issued' = issued
      /\ boot' = boot
  BY DEF vars
<1>2. Whole'
  BY <1>1
     DEF Inv, Core, Whole, Sounds, Boots, Up, Last, MemNamed, Twin, Owned, Fits, Closed, Retiring,
         Held, Mine
<1>3. GFresh' /\ \A p \in Proc : LFresh(p)'
  BY <1>1 DEF Inv, Durable, Fresher, GFresh, LFresh, Agrees, Up, Deaf, MemNamed
<1>4. Safe'
  BY <1>1 DEF Inv, Durable, Safe, Bare, Marked, Covered, Later, Up, Alive, Mute, Deaf, MemNamed
<1>5. ASSUME NEW q \in Proc
      PROVE  Each(q)' /\ Seal(q)'
  <2>1. Each(q) /\ Seal(q)
    BY DEF Inv, Core, Durable
  <2> QED BY <1>1, <2>1
       DEF Each, Shape, WorkerRole, ThreadRole, Formed, LWork, LEnd, LLatch, Works, Latest, Fits,
           Where, CGate, CAudit, CPub, CUndo, CPend, CComp, CAfter, CMark, CRev, CBrev, CRef,
           CRarm, CClean, CEnd, CRace, CFix, InEnd, State, Holds, Mine, Raced, Seal, Sealing,
           Covered, Later
<1>6. ASSUME NEW q \in Proc, NEW r \in Proc \ {q}
      PROVE  Apart(q, r)'
  <2>1. Apart(q, r)
    BY DEF Inv, Core
  <2> QED BY <1>1, <2>1
          DEF Apart, PGrant, POne, PWork, PClean, PFix, PRace, Latest, InGrant, InEnd, Raced, Mine
<1> QED BY <1>2, <1>3, <1>4, <1>5, <1>6 DEF Fresher, Inv, Core, Durable

-----------------------------------------------------------------------------
(* Every step is one of these, and keeps the invariant.                    *)

HandsOver(gone) ==
  /\ mem.releasing # NoLease /\ HandOverEffect(mem.releasing, gone)
  /\ \A t \in Thread : job[t].pc = "cleanup" => t \in gone
Begins == \E t \in Thread : \E fifo \in BOOLEAN : BeginGrant(t, fifo)
Happens ==
  \/ \E p \in Proc : Acts(p)
  \/ Begins
  \/ \E gone \in SUBSET Thread : HandsOver(gone)
  \/ Touches \/ ReconcileEffect
  \/ Crash \/ Restart \/ UNCHANGED vars

LEMMA CleanUpHappens ==
  ASSUME TypeOK, Core, NEW t \in Thread, CleanUp(t)
  PROVE  Happens
<1>1. job[t].pc = "cleanup" /\ CleanUpEffect(t) /\ t \in Proc
  BY CleanUpDoes DEF Proc
<1>2. /\ job[t].lease = mem.releasing /\ mem.releasing # NoLease
      /\ \A p \in Thread : job[p].pc = "cleanup" => p = t
  BY <1>1 DEF Core, Each, Where, CClean, LWork, Works, Latest, Apart, PClean, Proc, NoLease
<1>3. CASE HandOverEffect(job[t].lease, {t})
  <2>1. HandsOver({t})
    BY <1>2, <1>3 DEF HandsOver
  <2> QED BY <2>1 DEF Happens
<1>4. CASE Rests(t)
  BY <1>1, <1>4, RestsActs DEF Happens
<1> QED BY <1>1, <1>3, <1>4 DEF CleanUpEffect

LEMMA FencedHappens ==
  ASSUME TypeOK, Core, FencedCleanUp \/ RepairLifecycle
  PROVE  Happens
<1>1. HandsOver({}) \/ Touches
  BY FencedDoes DEF HandsOver
<1> QED BY <1>1 DEF Happens

(* A thread's or a worker's step that touches its own job alone.           *)
LEMMA FinishStepActs ==
  ASSUME TypeOK, Core, NEW p \in Proc, FinishStep(p)
  PROVE  Acts(p)
BY FinishMarkActs, FinishSnapshotActs, FinishCompletedActs, FinishClearActs, ClearPendingActs,
   LatchFaultActs, FaultSavedActs
   DEF FinishStep

LEMMA GrantStepActs ==
  ASSUME TypeOK, Core, NEW t \in Thread, GrantStep(t)
  PROVE  Acts(t)
<1>1. t \in Proc
  BY DEF Proc
<1> QED BY <1>1, TakeGateActs, ArmGrantActs, AuditGrantActs, ArmCompensationActs,
           MarkCompensationActs, RevokeActs, RevokeBrokenActs
        DEF GrantStep

LEMMA ThreadStepHappens ==
  ASSUME TypeOK, Core, NEW t \in Thread, ThreadStep(t), amiss' = {}
  PROVE  Happens
<1>1. t \in Proc
  BY DEF Proc
<1>2. CASE CleanUp(t)
  BY <1>2, CleanUpHappens
<1>3. CASE ThreadStep(t) /\ ~CleanUp(t)
  <2>1. Acts(t)
    BY <1>1, <1>3, GrantStepActs, FinishStepActs, ArmReleaseActs, HeartbeatDoes, GiveUpDoes,
       PersistDoes, RepairSavedActs, RepairClearedActs, RestsActs
       DEF ThreadStep
  <2> QED BY <1>1, <2>1 DEF Happens
<1> QED BY <1>2, <1>3

LEMMA WorkerStepHappens ==
  ASSUME TypeOK, Core, NEW w \in Worker, WorkerStep(w)
  PROVE  Happens
<1>1. w \in Proc
  BY DEF Proc
<1>2. Acts(w)
  BY <1>1, FinishStepActs, AuditReleaseActs, ReleaseSavedDoes, RestsActs DEF WorkerStep
<1> QED BY <1>1, <1>2 DEF Happens

LEMMA RequestHappens ==
  ASSUME TypeOK, Core, TypeOK', NEW t \in Thread, Request(t), amiss' = {}
  PROVE  Happens
<1>1. t \in Proc
  BY DEF Proc
<1>2. CASE \E fifo \in BOOLEAN : BeginGrant(t, fifo)
  BY <1>2 DEF Happens, Begins
<1>3. CASE BeginRelease(t) \/ BeginHeartbeat(t) \/ BeginPersist(t) \/ BeginRepair(t)
  <2>1. Acts(t)
    BY <1>1, <1>3, BeginReleaseActs, BeginHeartbeatDoes, BeginPersistDoes, BeginRepairActs,
       RestsActs
  <2> QED BY <1>1, <2>1 DEF Happens
<1>4. CASE Enqueue(t) \/ CancelGrant(t) \/ CancelTicket(t)
  <2>1. Touches
    BY <1>4, EnqueueDoes, CancelGrantDoes, CancelTicketDoes
  <2> QED BY <2>1 DEF Happens
<1>5. CASE Reconcile(t)
  BY <1>5, ReconcileDoes DEF Happens
<1> QED BY <1>2, <1>3, <1>4, <1>5 DEF Request

(* Every step of the daemon is of a kind the invariant is kept by.         *)
LEMMA NextHappens ==
  ASSUME TypeOK, Core, TypeOK', [Next]_vars, amiss' = {}
  PROVE  Happens
<1>1. CASE \E t \in Thread : Request(t) \/ ThreadStep(t)
  BY <1>1, RequestHappens, ThreadStepHappens
<1>2. CASE \E w \in Worker : WorkerStep(w)
  BY <1>2, WorkerStepHappens
<1>3. CASE FencedCleanUp \/ RepairLifecycle
  BY <1>3, FencedHappens
<1>4. CASE Lapse
  BY <1>4, LapseDoes DEF Happens
<1>5. CASE Crash \/ Restart \/ UNCHANGED vars
  BY <1>5 DEF Happens
<1> QED BY <1>1, <1>2, <1>3, <1>4, <1>5 DEF Next

(* And is kept by all of them.                                             *)
LEMMA HappensInv ==
  ASSUME TypeOK, TypeOK', Inv, Happens
  PROVE  Inv'
<1>1. ASSUME NEW p \in Proc, Acts(p)
      PROVE  Inv'
  BY <1>1, ActsInv
<1>2. CASE Begins
  BY <1>2, BeginGrantKeeps DEF Begins
<1>3. ASSUME NEW gone \in SUBSET Thread, HandsOver(gone)
      PROVE  Inv'
  BY <1>3, HandOverKeeps DEF HandsOver
<1>4. CASE Touches \/ ReconcileEffect
  BY <1>4, TouchesKeep, ReconcileKeeps
<1>5. CASE Crash \/ Restart \/ UNCHANGED vars
  BY <1>5, CrashKeeps, RecoverKeeps, ConsumeKeeps, AttributeKeeps, StutterKeeps DEF Restart
<1> QED BY <1>1, <1>2, <1>3, <1>4, <1>5 DEF Happens

-----------------------------------------------------------------------------
(* The steps of the abstract lease.                                        *)

PhaseFormed ==
  /\ issued \in ledger => issued # 0 /\ ledger = {issued}
  /\ issued \notin ledger => ledger = {}
  /\ Phase = IF issued \in ledger
             THEN IF mem.active # issued THEN "ending"
                  ELSE IF mem.inflight = issued THEN "granted" ELSE "held"
             ELSE IF issued = 0 THEN "none"
                  ELSE IF Granting(issued) THEN "issued" ELSE "over"

LEMMA PhaseIs == TypeOK /\ Last => PhaseFormed
<1> SUFFICES ASSUME TypeOK, Last PROVE PhaseFormed
  OBVIOUS
<1>1. /\ issued \in ledger => issued # 0 /\ ledger = {issued}
      /\ issued \notin ledger => ledger = {}
  BY SnapTypes DEF Last
<1> HIDE DEF Granting
<1>2. CASE issued \in ledger
  BY <1>1, <1>2 DEF PhaseFormed, Phase
<1>3. CASE issued \notin ledger /\ issued = 0
  BY <1>1, <1>3 DEF PhaseFormed, Phase
<1>4. CASE issued \notin ledger /\ issued # 0
  BY <1>1, <1>4 DEF PhaseFormed, Phase
<1> QED BY <1>2, <1>3, <1>4

(* A lease that stands in the ledger is no longer on its way there.        *)
LEMMA GrantedOnce ==
  ASSUME TypeOK, Inv
  PROVE  /\ issued \in ledger => ~Granting(issued)
         /\ \A p \in Proc : job[p].pc \in GrantPc => job[p].lease = issued
<1>1. ASSUME NEW p \in Proc, job[p].pc \in GrantPc
      PROVE  job[p].lease = issued /\ issued \notin ledger
  <2>1. LWork(p) /\ CGate(p) /\ CAudit(p)
    BY DEF Inv, Core, Each, Where
  <2> QED BY <1>1, <2>1 DEF LWork, Works, Latest, CGate, CAudit, GrantPc
<1> QED BY <1>1 DEF Granting, GrantPc, Proc

(* Nothing of the latest lease comes back.                                 *)
Fades ==
  /\ issued' = issued /\ ledger' \subseteq ledger
  /\ mem'.active \in {mem.active, NoLease} /\ mem'.inflight \in {mem.inflight, NoLease}
  /\ Granting(issued)' => Granting(issued)
  /\ ledger' # ledger /\ mem.active = issued => mem.inflight = issued
  /\ lost' = lost

(* Or it is left standing in the ledger with nobody to end it.             *)
Strands ==
  /\ issued' = issued /\ issued \in ledger /\ ledger' = {} /\ lost' = lost \cup {issued}
  /\ mem.active = NoLease /\ ~Granting(issued)'

LeaseMoves == [Abstract!Next]_(Abstract!vars)

LEMMA FadesMoves ==
  ASSUME TypeOK, TypeOK', Inv, Inv', Fades
  PROVE  LeaseMoves
<1>1. Last /\ Last'
  BY DEF Inv, Core, Whole
<1>2. PhaseFormed /\ PhaseFormed'
  BY <1>1, PhaseIs, PTL
<1>3. issued \in ledger => ~Granting(issued)
  BY GrantedOnce
<1> HIDE DEF Phase, Granting
<1> QED BY <1>2, <1>3
        DEF PhaseFormed, Fades, LeaseMoves, Abstract!Next, Abstract!vars, Abstract!Publish,
            Abstract!Withdraw, Abstract!End, NoLease

LEMMA StrandsMoves ==
  ASSUME TypeOK, TypeOK', Inv, Inv', Strands
  PROVE  LeaseMoves
<1>1. Last /\ Last'
  BY DEF Inv, Core, Whole
<1>2. PhaseFormed /\ PhaseFormed'
  BY <1>1, PhaseIs, PTL
<1> HIDE DEF Phase, Granting
<1> QED BY <1>2
        DEF PhaseFormed, Strands, LeaseMoves, Abstract!Next, Abstract!vars, Abstract!Strand,
            NoLease

(* The job of p is the only one that can have started, and none grants     *)
(* that did not already.                                                   *)
LEMMA GrantingKept ==
  ASSUME TypeOK, Inv, NEW p \in Proc, Acts(p)
  PROVE  issued' = issued /\ (Granting(issued)' => Granting(issued))
<1>1. issued' = issued /\ Grants(p) /\ \A q \in Proc \ {p} : job'[q] = job[q]
  BY DEF Acts, Steps, Frame, Runs, Others
<1>2. ASSUME NEW t \in Thread, job'[t].pc \in GrantPc, job'[t].lease = issued
      PROVE  job[t].pc \in GrantPc /\ job[t].lease = issued
  BY <1>1, <1>2 DEF Grants, Proc
<1> QED BY <1>1, <1>2 DEF Granting, GrantPc

LEMMA AuditedMoves ==
  ASSUME TypeOK, TypeOK', Inv, Inv', NEW p \in Proc, Acts(p), Audited(p), lost' = lost
  PROVE  LeaseMoves
<1>1. /\ job[p].pc = "g_audit"
      /\ mem'.inflight = mem.inflight /\ ledger' = ledger \cup {job[p].lease}
  BY DEF Audited, Audits
<1>2. /\ job[p].lease = issued /\ issued # 0 /\ issued \notin ledger /\ mem.inflight = issued
      /\ p \in Thread
  BY <1>1
     DEF Inv, Core, Each, LWork, Works, Latest, Where, CAudit, GrantPc, Shape, WorkerRole, Proc, Fin
<1>3. Granting(issued) /\ issued' = issued
  BY <1>1, <1>2, GrantingKept DEF Granting
<1>4. PhaseFormed /\ PhaseFormed'
  <2>1. Last /\ Last'
    BY DEF Inv, Core, Whole
  <2> QED BY <2>1, PhaseIs, PTL
<1> HIDE DEF Phase, Granting
<1> QED BY <1>1, <1>2, <1>3, <1>4
        DEF PhaseFormed, LeaseMoves, Abstract!Next, Abstract!vars, Abstract!Grant

LEMMA ActsMoves ==
  ASSUME TypeOK, TypeOK', Inv, Inv', NEW p \in Proc, Acts(p), lost' = lost
  PROVE  LeaseMoves
<1>1. /\ Each(p) /\ Whole /\ Shared(p) /\ issued' = issued
      /\ Granting(issued)' => Granting(issued)
      /\ issued \in ledger => issued # 0
  BY GrantingKept, SnapTypes DEF Inv, Core, Acts
<1>2. CASE Audited(p)
  BY <1>2, AuditedMoves
<1>3. CASE Waits \/ Turned(p) \/ Cleared(p) \/ Dropped(p)
  <2>1. /\ ledger' = ledger /\ mem'.active = mem.active
        /\ mem'.inflight \in {mem.inflight, NoLease}
    BY <1>3
       DEF Waits, Turned, Moves, Cleared, Clears, Dropped, Drops, LeaseStays, LedgerStays
  <2> QED BY <1>1, <2>1, FadesMoves DEF Fades
<1>4. CASE ArmedBy(p)
  <2>1. /\ ledger' = ledger /\ mem'.inflight = mem.inflight
        /\ mem'.active \in {mem.active, NoLease}
    BY <1>4 DEF ArmedBy, Arms, LeaseStays, LedgerStays
  <2> QED BY <1>1, <2>1, FadesMoves DEF Fades
<1>5. CASE Revoked(p)
  <2>1. /\ mem'.active \in {mem.active, NoLease} /\ mem'.inflight \in {mem.inflight, NoLease}
        /\ ledger' \subseteq ledger /\ job[p].pc \in Comp
    BY <1>5 DEF Revoked, Revokes, Comp
  <2>2. mem.inflight = issued
    BY <1>1, <2>1 DEF Each, Where, CComp
  <2> QED BY <1>1, <2>1, <2>2, FadesMoves DEF Fades
<1>6. CASE Ended(p)
  <2>1. /\ mem'.active = mem.active /\ mem'.inflight = mem.inflight
        /\ ledger' \subseteq ledger /\ job[p].pc = "w_audit"
    BY <1>6 DEF Ended, AuditReleaseEffect, LeaseStays
  <2>2. mem.active = NoLease /\ issued # 0
    BY <1>1, <2>1 DEF Each, Shape, ThreadRole, LWork, Works, Latest, LEnd, Proc
  <2> QED BY <1>1, <2>1, <2>2, FadesMoves DEF Fades, NoLease
<1>7. CASE BeginRepairEffect(p)
  <2>1. /\ mem'.active = mem.active /\ mem'.inflight = mem.inflight
        /\ ledger' \subseteq ledger /\ disk.wal # NoWal
    BY <1>7 DEF BeginRepairEffect, LeaseStays, NoWal
  <2>2. mem.active = issued /\ issued # 0 => mem.inflight = issued
    BY <1>1, <2>1 DEF Whole, Held, NoLease
  <2>3. ledger' # ledger => issued # 0
    BY <1>1, <2>1 DEF Whole, Last
  <2> QED BY <1>1, <2>1, <2>2, <2>3, FadesMoves DEF Fades
<1> QED BY <1>1, <1>2, <1>3, <1>4, <1>5, <1>6, <1>7 DEF Shared

LEMMA BeginMoves ==
  ASSUME TypeOK, TypeOK', Inv, Inv', Begins, lost' = lost
  PROVE  LeaseMoves
<1>1. PICK t \in Thread : BeginGrantEffect(t)
  BY BeginGrantDoes DEF Begins, Inv
<1>2. /\ Up /\ issued' = issued + 1 /\ ledger' = ledger /\ SlotIdle /\ mem.fault = NoMarker
      /\ job'[t].pc = "gate" /\ job'[t].lease = issued'
  BY <1>1 DEF BeginGrantEffect, LedgerStays
<1>3. ledger = {} /\ issued \in Nat /\ \A p \in Proc : ~Works(p)
  BY <1>2, LedgerEmpty
<1>4. ~Granting(issued) /\ Granting(issued)'
  BY <1>2, <1>3 DEF Granting, Works, GrantPc, Proc
<1>5. PhaseFormed /\ PhaseFormed'
  <2>1. Last /\ Last'
    BY DEF Inv, Core, Whole
  <2> QED BY <2>1, PhaseIs, PTL
<1> HIDE DEF Phase, Granting
<1> QED BY <1>2, <1>3, <1>4, <1>5
        DEF PhaseFormed, LeaseMoves, Abstract!Next, Abstract!vars, Abstract!Issue

(* A startup that dies or whose audit fails ends the lease or strands it.  *)
LEMMA ForgetsMoves ==
  ASSUME TypeOK, Inv, issued' = issued, Forgets, mem.active = NoLease \/ Unended = {},
         mem'.active = NoLease, mem'.inflight = NoLease, ~Granting(issued)'
  PROVE  Fades \/ Strands
<1>1. Last /\ (issued \in ledger => issued # 0)
  BY SnapTypes DEF Inv, Core, Whole
<1>2. CASE Unended = {}
  <2>1. ledger' = ledger /\ lost' = lost
    BY <1>2 DEF Forgets
  <2> QED BY <2>1 DEF Fades
<1>3. CASE Unended # {} /\ mem.active = NoLease
  <2>1. Unended \subseteq ledger
    BY DEF Unended
  <2>2. Unended = {issued} /\ ledger = {issued}
    BY <1>1, <1>3, <2>1 DEF Last
  <2>3. issued \in ledger /\ ledger' = {} /\ lost' = lost \cup {issued}
    BY <2>2 DEF Forgets
  <2> QED BY <1>3, <2>3 DEF Strands
<1> QED BY <1>2, <1>3

LEMMA CrashMoves ==
  ASSUME TypeOK, Inv, Crash
  PROVE  Fades \/ Strands
<1>1. Idle.pc = "idle"
  BY DEF Idle
<1>2. Fresh.active = NoLease /\ Fresh.inflight = NoLease
  BY FreshDoes
<1> HIDE DEF Idle, Fresh
<1>3. /\ issued' = issued /\ Forgets /\ mem'.active = NoLease /\ mem'.inflight = NoLease
      /\ \A p \in Proc : job'[p] = Idle
  BY <1>2 DEF Crash
<1>4. ~Granting(issued)'
  BY <1>1, <1>3 DEF Granting, Proc
<1>5. mem.active = NoLease \/ Unended = {}
  <2>1. CASE boot.at = "up"
    BY <2>1 DEF Inv, Core, Whole, Boots, Unended
  <2>2. CASE boot.at # "up"
    BY <2>2, NotStarted DEF Inv
  <2> QED BY <2>1, <2>2
<1> QED BY <1>3, <1>4, <1>5, ForgetsMoves

LEMMA RestartMoves ==
  ASSUME TypeOK, Inv, Restart
  PROVE  Fades \/ Strands
<1>1. issued' = issued /\ job' = job /\ boot.at # "up"
  BY DEF Restart, Recover, Consume, Attribute
<1>2. /\ mem.active = NoLease /\ mem.inflight = NoLease
      /\ \A p \in Proc : job[p] = Idle
  BY <1>1, NotStarted DEF Inv
<1>3. Idle.pc = "idle"
  BY DEF Idle
<1>4. ~Granting(issued) /\ ~Granting(issued)'
  BY <1>1, <1>2, <1>3 DEF Granting, Proc
<1>5. CASE Recover \/ Consume
  <2>1. /\ ledger' = ledger /\ lost' = lost
        /\ mem' = mem \/ \E f : mem' = [Fresh EXCEPT !.fault = f]
    BY <1>5 DEF Recover, Recovered, Consume
  <2>2. mem'.active = NoLease /\ mem'.inflight = NoLease
    BY <1>2, <2>1 DEF Fresh
  <2> QED BY <1>1, <1>2, <1>4, <2>1, <2>2 DEF Fades
<1>6. CASE Attribute
  <2>1. mem' = mem /\ ((ledger' = ledger \ boot.named /\ lost' = lost) \/ Forgets)
    BY <1>6 DEF Attribute
  <2>2. CASE ledger' = ledger \ boot.named /\ lost' = lost
    <3>1. issued # 0 \/ ledger' = ledger
      BY <2>2, SnapTypes DEF Inv, Core, Whole, Last
    <3> QED BY <1>1, <1>2, <1>4, <2>1, <2>2, <3>1 DEF Fades, NoLease
  <2>3. CASE Forgets
    BY <1>1, <1>2, <1>4, <2>1, <2>3, ForgetsMoves
  <2> QED BY <2>1, <2>2, <2>3
<1> QED BY <1>5, <1>6 DEF Restart

(* The steps that leave every lease where it was.                          *)
LEMMA OtherMoves ==
  ASSUME TypeOK, TypeOK', Inv, Inv', lost' = lost,
         \/ \E gone \in SUBSET Thread : HandsOver(gone)
         \/ Touches \/ ReconcileEffect \/ UNCHANGED vars
  PROVE  LeaseMoves
<1> SUFFICES Fades
  BY FadesMoves
<1>1. /\ Last /\ Held /\ (issued \in ledger => issued # 0)
  BY SnapTypes DEF Inv, Core, Whole
<1>2. Idle.pc = "idle"
  BY DEF Idle
<1> HIDE DEF Idle
<1>4. ASSUME NEW gone \in SUBSET Thread, HandsOver(gone)
      PROVE  Fades
  <2>1. /\ issued' = issued /\ ledger' = ledger /\ mem'.active = mem.active
        /\ mem'.inflight = mem.inflight
    BY <1>4 DEF HandsOver, HandOverEffect, Runs, LedgerStays
  <2>2. ASSUME NEW t \in Thread, job'[t].pc \in GrantPc
        PROVE  job'[t] = job[t]
    BY <1>2, <1>4, <2>2, LeaseAssumption
       DEF HandsOver, HandOverEffect, Turns, Enters, GrantPc, Proc
  <2>3. Granting(issued)' => Granting(issued)
    BY <2>1, <2>2 DEF Granting, GrantPc
  <2> QED BY <2>1, <2>3 DEF Fades
<1>5. CASE Touches \/ UNCHANGED vars
  <2>1. /\ issued' = issued /\ ledger' = ledger /\ mem'.active = mem.active /\ job' = job
        /\ mem'.inflight = mem.inflight
    BY <1>5 DEF Touches, Runs, Still, Waits, LeaseStays, LedgerStays, vars
  <2>2. Granting(issued)' => Granting(issued)
    BY <2>1 DEF Granting
  <2> QED BY <2>1, <2>2 DEF Fades
<1>6. CASE ReconcileEffect
  <2>1. issued' = issued /\ ledger' \subseteq ledger /\ mem' = mem /\ job' = job /\ disk.wal # NoWal
    BY <1>6 DEF ReconcileEffect, NoWal
  <2>2. Granting(issued)' => Granting(issued)
    BY <2>1 DEF Granting
  <2> QED BY <1>1, <2>1, <2>2 DEF Fades, Held, Last, NoLease
<1> HIDE DEF Fades
<1> QED BY <1>4, <1>5, <1>6

(* What happened stays so, and only a startup loses a lease.               *)
LEMMA HistoryKept ==
  ASSUME [Next]_vars
  PROVE  amiss \subseteq amiss' /\ (lost' = lost \/ Crash \/ Restart)
<1>1. ASSUME NEW p, FinishStep(p)
      PROVE  lost' = lost /\ amiss' = amiss
  BY <1>1 DEF FinishStep, FinishMark, FinishSnapshot, FinishCompleted, FinishClear,
     ClearPending, LatchFault, FaultSaved, At
<1>2. ASSUME NEW t, GrantStep(t)
      PROVE  lost' = lost /\ amiss' = amiss
  BY <1>2 DEF GrantStep, TakeGate, ArmGrant, AuditGrant, ArmCompensation, MarkCompensation,
     Revoke, RevokeBroken, At
<1>3. ASSUME NEW t, ThreadStep(t)
      PROVE  lost' = lost /\ amiss \subseteq amiss'
  <2>1. CASE ArmRelease(t)
    BY <2>1 DEF ArmRelease, Overtaken
  <2>2. CASE ThreadStep(t) /\ ~ArmRelease(t)
    BY <1>1, <1>2, <2>2 DEF ThreadStep, CleanUp, Heartbeat, GiveUp, Persist, RepairSaved,
       RepairCleared, RepairFailed, At
  <2> QED BY <1>3, <2>1, <2>2
<1>4. ASSUME NEW w, WorkerStep(w)
      PROVE  lost' = lost /\ amiss' = amiss
  BY <1>1, <1>4 DEF WorkerStep, AuditRelease, ReleaseSaved, At
<1>5. ASSUME NEW t, Request(t)
      PROVE  lost' = lost /\ amiss \subseteq amiss'
  BY <1>5 DEF Request, BeginGrant, BeginRelease, BeginHeartbeat, BeginPersist, Reconcile,
     BeginRepair, Enqueue, CancelGrant, CancelTicket, Overlapped
<1>6. CASE FencedCleanUp \/ RepairLifecycle \/ Lapse
  BY <1>6 DEF FencedCleanUp, RepairLifecycle, Lapse
<1>7. CASE Crash \/ Restart
  BY <1>7 DEF Crash, Restart, Recover, Consume, Attribute
<1>8. CASE UNCHANGED vars
  BY <1>8 DEF vars
<1> QED BY <1>3, <1>4, <1>5, <1>6, <1>7, <1>8 DEF Next

(* A step taken while the daemon is up loses nothing.                      *)
LEMMA UpKeepsLost ==
  ASSUME [Next]_vars, Up, boot' = boot
  PROVE  lost' = lost
<1>1. ~Crash
  BY DEF Crash, Up
<1>2. ~Restart
  BY DEF Restart, Recover, Consume, Attribute, Up
<1> QED BY <1>1, <1>2, HistoryKept

(* Every kind of step is one of the abstract lease.                        *)
LEMMA HappensMoves ==
  ASSUME TypeOK, TypeOK', Inv, Inv', [Next]_vars, Happens
  PROVE  LeaseMoves
<1>1. ASSUME NEW p \in Proc, Acts(p)
      PROVE  LeaseMoves
  <2>1. lost' = lost
    BY <1>1, UpKeepsLost DEF Acts, Steps, Frame, Runs
  <2> QED BY <1>1, <2>1, ActsMoves
<1>2. CASE Begins
  <2>1. Up /\ boot' = boot
    BY <1>2 DEF Begins, BeginGrant, MayStart
  <2> QED BY <1>2, <2>1, UpKeepsLost, BeginMoves
<1>3. CASE \/ \E gone \in SUBSET Thread : HandsOver(gone)
           \/ Touches \/ ReconcileEffect
  <2>1. Up /\ boot' = boot
    BY <1>3 DEF HandsOver, HandOverEffect, Touches, ReconcileEffect, Runs
  <2> QED BY <1>3, <2>1, UpKeepsLost, OtherMoves
<1>4. CASE UNCHANGED vars
  <2>1. lost' = lost
    BY <1>4 DEF vars
  <2> QED BY <1>4, <2>1, OtherMoves
<1>5. CASE Crash \/ Restart
  <2>1. Fades \/ Strands
    BY <1>5, CrashMoves, RestartMoves
  <2> QED BY <2>1, FadesMoves, StrandsMoves
<1> QED BY <1>1, <1>2, <1>3, <1>4, <1>5 DEF Happens

-----------------------------------------------------------------------------
(* The theorems.                                                           *)

(* What every reachable state keeps: the invariant, while nothing is amiss. *)
Keep == IInv /\ (amiss = {} => Inv)

LEMMA InitHolds == Init => Keep
BY InitInvariant, InitInv DEF Keep

LEMMA NextHolds ==
  ASSUME Keep, [Next]_vars
  PROVE  Keep' /\ (amiss' = {} => LeaseMoves)
<1>1. TypeOK /\ TypeOK' /\ IInv'
  BY NextInvariant DEF Keep, IInv
<1>2. ASSUME amiss' = {}
      PROVE  Inv' /\ LeaseMoves
  <2>1. amiss = {}
    BY <1>2, HistoryKept
  <2>2. Inv /\ Happens
    BY <1>1, <1>2, <2>1, NextHappens DEF Keep, Inv
  <2> QED BY <1>1, <2>2, HappensInv, HappensMoves
<1> QED BY <1>1, <1>2 DEF Keep

(* The invariant implies the properties.                                   *)
LEMMA InvRecovers == TypeOK /\ Inv => ledger \subseteq Attributable
<1> SUFFICES ASSUME TypeOK, Inv, issued \in ledger
             PROVE  issued \in {disk.wal.lease} \cup Named(disk.snap) \cup boot.named
  BY DEF Inv, Core, Whole, Last, Attributable
<1>1. CASE Bare
  BY <1>1 DEF Inv, Durable, Safe, Covered
<1>2. CASE Marked
  BY <1>2 DEF Marked
<1> QED BY <1>1, <1>2 DEF Bare

LEMMA InvPublishes == TypeOK /\ Inv => PublishedIsDurable
<1> SUFFICES ASSUME TypeOK, Inv, mem.active # NoLease, mem.active # mem.inflight
             PROVE  mem.active \in ledger /\ mem.active \in Named(disk.snap)
  BY DEF PublishedIsDurable
<1>1. mem.active = issued /\ issued \in ledger /\ disk.wal = NoWal
  BY DEF Inv, Core, Whole, Last, Held, MemNamed
<1>2. boot.named = {}
  BY NotStarted DEF Inv, Core, Whole, Boots
<1> QED BY <1>1, <1>2 DEF Inv, Durable, Safe, Covered, Bare, Marked

LEMMA InitMoves == Init => Abstract!Init
<1>1. Init => Phase = "none"
  BY DEF Init, Phase
<1> QED BY <1>1 DEF Init, Abstract!Init

(* A lease that stands granted is named by the marker, by the snapshot or  *)
(* by the restart that is about to end it, wherever the daemon crashes and *)
(* whatever I/O fails, except those a startup lost; until a release is     *)
(* overtaken by another of its lease or a repair overlaps a release worker *)
(* (_release_active_locked, _finish_wal_after_publish_locked).             *)
THEOREM Recoverable == Spec => []GrantIsRecoverable
<1>1. Keep => GrantIsRecoverable
  BY InvRecovers DEF Keep, IInv, GrantIsRecoverable
<1>2. Keep /\ [Next]_vars => Keep'
  BY NextHolds
<1> QED BY <1>1, <1>2, InitHolds, PTL DEF Spec

(* Until then a token the coordinator accepts belongs to a lease that the  *)
(* ledger and the durable snapshot both name (_validate_token_locked).     *)
THEOREM Published == Spec => [](amiss = {} => PublishedIsDurable)
<1>1. Keep => (amiss = {} => PublishedIsDurable)
  BY InvPublishes DEF Keep, IInv
<1>2. Keep /\ [Next]_vars => Keep'
  BY NextHolds
<1> QED BY <1>1, <1>2, InitHolds, PTL DEF Spec

(* SessionLease implements WriteLease: each step of the daemon's threads,  *)
(* workers, crashes, startups and repairs is a step of the abstract lease, *)
(* or leaves it unchanged, until one of the two overlaps.                  *)
THEOREM Implements == Spec => ImplementsWriteLease
<1>1. Keep /\ [Next]_vars => Keep' /\ (amiss' = {} => [Abstract!Next]_(Abstract!vars))
  BY NextHolds DEF LeaseMoves
<1> QED BY <1>1, InitHolds, InitMoves, PTL DEF Spec, ImplementsWriteLease

=============================================================================
