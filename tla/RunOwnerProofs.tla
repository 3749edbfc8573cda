--------------------------- MODULE RunOwnerProofs ---------------------------
(***************************************************************************)
(* TLAPS proofs about RunOwner, for any sessions, lease ids and bounds:    *)
(* the types, OwnerIsBacked, NoAdoptionOverInput, LaunchIsTraced and       *)
(* UnconfirmedServesNothing.                                               *)
(*                                                                         *)
(* OwnerIsBacked is not inductive: a call writes its owner some steps      *)
(* after it was let in, and a failed launch writes back the owner it read. *)
(* What carries it is that whoever holds the operation lock is backed      *)
(* itself (CallBacked), because only a worker takes a backing away and a   *)
(* worker needs the lock, and that between its first look and its last     *)
(* write a call's row is its own (Owning, Launching, Written).             *)
(*                                                                         *)
(* A game without a row is always the one the present launch made, or one  *)
(* a launch gave up: a launch begins only over a box without one           *)
(* (BoxClear), and the intent is written before the game (IntentFirst).    *)
(*                                                                         *)
(* An owner that is not confirmed serves nobody because the run it was     *)
(* taken from was idle, and an idle run is fenced.  That holds until two   *)
(* things fail (Costs counts what each state cost), and without a bound    *)
(* game even until one does: a restart drops the fence with the binding.   *)
(***************************************************************************)
EXTENDS RunOwner, TLAPS

Calls == {"adopt", "stop", "ack", "start"}

LeaseNamed == lease.at # "free" => lease.of \in Holder
LockShape == /\ op.kind = "none" <=> op.at = "free"
             /\ op.kind = "boot" => op.at \in {"intent", "unacknowledged", "owners"}
CallBacked == op.kind \in Calls => op.for \in Holder /\ Backed(op.for)
Launching ==
  op.kind = "start" /\ op.at \in {"starting", "traced", "launched"}
    => run.state = "STARTING" /\ run.owner = op.for
Owning ==
  op.at \in {"open", "committed"}
    => (op.kind \in {"stop", "ack"} \/ (op.kind = "start" /\ ~op.fresh) => Owns(op.for))
FreshRoom == op.kind = "start" /\ op.fresh /\ op.at \in {"open", "committed"} => runs < MaxRuns
Written == At("adopt", "written") => Owns(op.for) /\ token # "none"
Doubted == token # "none" => /\ op.kind = "adopt"
                             /\ op.at \in {"open", "committed", "written"}
                             /\ doubt => token = "bad"
BootLeft == At("boot", "owners") /\ Unacknowledged(run) => run.owner = Nobody \/ armed # Nobody

Inv == /\ TypeOK /\ OwnerIsBacked
       /\ LeaseNamed /\ LockShape /\ CallBacked
       /\ Launching /\ Owning /\ FreshRoom /\ Written /\ Doubted /\ BootLeft
-----------------------------------------------------------------------------
(* The types, in parts.                                                    *)

OwnerOfState ==
  /\ run.state \in {"STARTING", "RUNNING", "STOPPING"} => run.owner # Nobody
  /\ run.state \in {"RUNNING_IDLE", "EXITED"} => run.owner = Nobody
MemTyped ==
  /\ stray \in BOOLEAN /\ intent \in BOOLEAN /\ by \in Session \cup {Nobody}
  /\ quiet \in BOOLEAN /\ fenced \in BOOLEAN /\ bound \in BOOLEAN
  /\ token \in {"none", "clean", "bad"} /\ revert \in BOOLEAN
CoordTyped ==
  /\ lease \in [at : {"free", "live", "ending"}, of : Holder \cup {Nobody}]
  /\ owed \subseteq [of : Holder, at : {"queued", "listed"}] /\ armed \in Row \cup {Nobody}
OpTyped ==
  op \in [kind : {"none", "boot", "adopt", "stop", "ack", "start"},
         at : {"free", "intent", "unacknowledged", "owners", "entered", "open",
               "committed", "written", "stopping", "starting", "traced", "launched"},
         for : Holder \cup {Nobody}, fresh : BOOLEAN]
BoundTyped ==
  /\ faults \in 0..MaxFaults /\ runs \in 0..MaxRuns
  /\ lost \subseteq Holder /\ doubt \in BOOLEAN

LEMMA TypeParts ==
  TypeOK <=> /\ run \in Row
             /\ OwnerOfState /\ MemTyped /\ CoordTyped /\ OpTyped /\ BoundTyped
BY DEF TypeOK, OwnerOfState, MemTyped, CoordTyped, OpTyped, BoundTyped

-----------------------------------------------------------------------------
(* What the helpers make of a row.                                         *)

LEMMA IdleRow ==
  ASSUME NEW r \in Row
  PROVE  Idle(r) \in Row /\ Idle(r).state = "RUNNING_IDLE" /\ Idle(r).owner = Nobody
BY DEF Idle, Row, Active

LEMMA QuarantinedRow ==
  ASSUME NEW r \in Row
  PROVE  Quarantined(r) \in Row /\ Quarantined(r).state = "UNRECONCILED"
         /\ Quarantined(r).owner = Nobody
BY DEF Quarantined, Row, Active

LEMMA ExitedRow ==
  ASSUME NEW r \in Row
  PROVE  Exited(r) \in Row /\ Exited(r).state = "EXITED" /\ Exited(r).owner = Nobody
BY DEF Exited, Row, Active

LEMMA DeadRow ==
  ASSUME NEW r \in Row, NEW p \in {"none", "alive", "dead"}
  PROVE  LET d == [r EXCEPT !.procs = p] IN
         /\ d \in Row /\ d.state = r.state /\ d.owner = r.owner /\ d.acked = r.acked
BY DEF Row, Active

\* The revert that is retried takes the owner away or leaves the row alone.
LEMMA Retried ==
  ASSUME Inv, Retry
  PROVE  /\ run' \in Row
         /\ run' = run \/ (run'.state = "RUNNING_IDLE" /\ run'.owner = Nobody)
         /\ faults' \in 0..MaxFaults /\ revert' \in BOOLEAN
<1>1. run \in Row /\ faults \in 0..MaxFaults /\ revert \in BOOLEAN
  BY DEF Inv, TypeOK
<1>2. run' = run \/ run' = Idle(run)
  BY DEF Retry, Fault
<1>3. faults' = faults \/ (faults < MaxFaults /\ faults' = faults + 1)
  BY DEF Retry, Fault
<1>4. faults' \in 0..MaxFaults
  BY <1>1, <1>3, BoundAssumption
<1>5. revert' \in BOOLEAN
  BY <1>1 DEF Retry, Fault
<1> QED BY <1>1, <1>2, <1>4, <1>5, IdleRow

\* A release takes the owner away, or it is not the owner's, or it is degraded.
LEMMA Released ==
  ASSUME Inv, NEW h \in Holder, ReleaseOwner(h)
  PROVE  /\ run' \in Row /\ fenced' \in BOOLEAN /\ quiet' \in BOOLEAN
         /\ \/ run' = run /\ (Owns(h) => h \in lost')
            \/ run'.state = "RUNNING_IDLE" /\ run'.owner = Nobody
         /\ lease' = lease \/ (lease' = NoLease /\ lease.of = h /\ lease.at = "ending")
         /\ lost \subseteq lost' /\ lost' \subseteq Holder /\ faults' \in 0..MaxFaults
<1>1. /\ run \in Row /\ faults \in 0..MaxFaults /\ lost \subseteq Holder
      /\ fenced \in BOOLEAN /\ quiet \in BOOLEAN
  BY DEF Inv, TypeOK
<1>2. /\ \/ run' = run /\ (Owns(h) => h \in lost')
         \/ run' = Idle(run)
      /\ fenced' \in BOOLEAN /\ quiet' \in BOOLEAN
      /\ lost' = lost \/ lost' = lost \cup {h}
  BY <1>1 DEF ReleaseOwner, Fault
<1>3. faults' = faults \/ (faults < MaxFaults /\ faults' = faults + 1)
  BY DEF ReleaseOwner, Fault
<1>4. faults' \in 0..MaxFaults
  BY <1>1, <1>3, BoundAssumption
<1>5. lease' = lease \/ (lease' = NoLease /\ lease.of = h /\ lease.at = "ending")
  BY DEF ReleaseOwner, ReleaseEnds
<1> QED BY <1>1, <1>2, <1>4, <1>5, IdleRow

\* The end of an unacknowledged launch: the row is retired, or a fault is armed,
\* or the cleanup is degraded (at startup that arms a fault too).
LEMMA Killed ==
  ASSUME Inv, NEW h \in Holder, run.owner = h, KillUnacknowledged(h)
  PROVE  /\ run' \in Row /\ OwnerOfState'
         /\ \/ run'.owner = Nobody
            \/ run'.owner = h /\ (armed' # Nobody \/ (op.kind # "boot" /\ h \in lost'))
         /\ armed' \in Row \cup {Nobody} /\ (armed # Nobody => armed' # Nobody)
         /\ lease' = lease \/ (lease' = NoLease /\ lease.of = h /\ lease.at = "ending")
         /\ lost \subseteq lost' /\ lost' \subseteq Holder /\ faults' \in 0..MaxFaults
<1> DEFINE dead == [run EXCEPT !.procs = IF @ = "none" THEN @ ELSE "dead"]
<1>1. /\ run \in Row /\ OwnerOfState /\ faults \in 0..MaxFaults
      /\ lost \subseteq Holder /\ armed \in Row \cup {Nobody}
  BY TypeParts DEF Inv, BoundTyped, CoordTyped
<1>2. dead \in Row /\ dead.state = run.state /\ dead.owner = run.owner
  BY <1>1 DEF Row, Active
<1> HIDE DEF dead
<1>3. CASE run' = Exited(run) /\ ReleaseEnds(h) /\ UNCHANGED <<armed, faults, lost>>
  <2>1. lease' = lease \/ (lease' = NoLease /\ lease.of = h /\ lease.at = "ending")
    BY <1>3 DEF ReleaseEnds
  <2> QED BY <1>1, <1>3, <2>1, ExitedRow DEF OwnerOfState
<1>4. CASE /\ Fault /\ run' = dead /\ lost' = lost \cup {h} /\ UNCHANGED lease
           /\ IF op.kind = "boot" THEN Arm(run) ELSE UNCHANGED armed
  <2>1. faults' \in 0..MaxFaults
    BY <1>1, <1>4, BoundAssumption DEF Fault
  <2>2. /\ armed' \in Row \cup {Nobody} /\ (armed # Nobody => armed' # Nobody)
        /\ op.kind = "boot" => armed' # Nobody
    BY <1>1, <1>4, NobodyAssumption DEF Arm
  <2> QED BY <1>1, <1>2, <1>4, <2>1, <2>2 DEF OwnerOfState
<1>5. CASE /\ \E r \in {Quarantined(run), run} :
                 /\ run' = r /\ Arm(r)
                 /\ faults' = faults + (IF run.procs = "alive" THEN 1 ELSE 0)
                                     + (IF r = run THEN 1 ELSE 0)
           /\ faults' <= MaxFaults /\ UNCHANGED <<lease, lost>>
  <2>1. Quarantined(run) \in Row /\ Quarantined(run).state = "UNRECONCILED"
        /\ Quarantined(run).owner = Nobody
    BY <1>1, QuarantinedRow
  <2>2. armed' \in Row \cup {Nobody} /\ armed' # Nobody
    BY <1>1, <1>5, <2>1, NobodyAssumption DEF Arm
  <2>3. faults' \in 0..MaxFaults
    BY <1>1, <1>5, BoundAssumption
  <2> QED BY <1>1, <1>5, <2>1, <2>2, <2>3 DEF OwnerOfState
<1> QED BY <1>3, <1>4, <1>5 DEF KillUnacknowledged, dead

-----------------------------------------------------------------------------
(* Every step keeps the invariant.                                         *)

LEMMA GrantStep ==
  ASSUME Inv, NEW s \in Session, Grant(s) PROVE Inv'
<1>1. TypeOK'
  BY NobodyAssumption, BoundAssumption DEF Inv, LeaseNamed, CallBacked,
     Owning, Owns, Launching, Written, At, Unacknowledged, Calls, TypeOK, Row,
     Active, Holder, Grant, Named, NoLease, rowvars, adoption, bridge, coord,
     bounds
<1>2. OwnerIsBacked'
  BY DEF OwnerIsBacked, Backed, Unacknowledged, Inv, Grant, rowvars, coord,
     bounds
<1>3. (LeaseNamed /\ LockShape /\ CallBacked)'
  BY NobodyAssumption DEF Inv, OwnerIsBacked, Backed, LeaseNamed, LockShape,
     CallBacked, Calls, Launching, Owning, Owns, FreshRoom, Written, At,
     Doubted, BootLeft, Unacknowledged, TypeOK, Row, Active, Holder, Grant,
     Named, NoLease, rowvars, adoption, bridge, coord, bounds
<1>4. (Launching /\ Owning /\ FreshRoom /\ Written)'
  BY DEF Launching, Owning, Owns, FreshRoom, Written, At, Inv, Grant, rowvars,
     adoption, bounds
<1>5. (Doubted /\ BootLeft)'
  BY DEF Doubted, BootLeft, Unacknowledged, At, Inv, Grant, rowvars, adoption,
     coord
<1> QED BY <1>1, <1>2, <1>3, <1>4, <1>5 DEF Inv

LEMMA EndLeaseStep ==
  ASSUME Inv, EndLease PROVE Inv'
<1>1. TypeOK'
  BY NobodyAssumption, BoundAssumption DEF Inv, TypeOK, LeaseNamed, At, Row,
     Active, EndLease, rowvars, adoption, bridge, coord, bounds
<1>2. OwnerIsBacked'
  BY DEF OwnerIsBacked, Backed, Unacknowledged, Inv, EndLease, rowvars, coord,
     bounds
<1>3. (LeaseNamed /\ LockShape /\ CallBacked)'
  BY DEF LeaseNamed, LockShape, CallBacked, Calls, Backed, Inv, EndLease,
     coord, bounds
<1>4. (Launching /\ Owning /\ FreshRoom /\ Written)'
  BY DEF Launching, Owning, Owns, FreshRoom, Written, At, Inv, EndLease,
     rowvars, adoption, bounds
<1>5. (Doubted /\ BootLeft)'
  BY DEF Doubted, BootLeft, Unacknowledged, At, Inv, EndLease, rowvars,
     adoption, coord
<1> QED BY <1>1, <1>2, <1>3, <1>4, <1>5 DEF Inv

LEMMA EndWithoutCleanupStep ==
  ASSUME Inv, EndWithoutCleanup PROVE Inv'
<1>1. TypeOK'
  BY NobodyAssumption, BoundAssumption DEF Inv, TypeOK, LeaseNamed, At, Row,
     Active, EndWithoutCleanup, Fault, NoLease, rowvars, adoption, bridge,
     coord, bounds
<1>2. OwnerIsBacked'
  BY DEF OwnerIsBacked, Backed, Unacknowledged, Inv, EndWithoutCleanup,
     rowvars, coord, bounds
<1>3. (LeaseNamed /\ LockShape /\ CallBacked)'
  BY DEF LeaseNamed, LockShape, CallBacked, Calls, Backed, Inv,
     EndWithoutCleanup, Fault, NoLease, coord, bounds
<1>4. (Launching /\ Owning /\ FreshRoom /\ Written)'
  BY DEF Launching, Owning, Owns, FreshRoom, Written, At, Inv,
     EndWithoutCleanup, rowvars, adoption, bounds
<1>5. (Doubted /\ BootLeft)'
  BY DEF Doubted, BootLeft, Unacknowledged, At, Inv, EndWithoutCleanup,
     rowvars, adoption, coord
<1> QED BY <1>1, <1>2, <1>3, <1>4, <1>5 DEF Inv

LEMMA CleanupTimesOutStep ==
  ASSUME Inv, CleanupTimesOut PROVE Inv'
<1>1. TypeOK'
  BY NobodyAssumption, BoundAssumption DEF Inv, TypeOK, CleanupTimesOut,
     NoLease, rowvars, adoption, bridge, coord, bounds
<1>2. OwnerIsBacked'
  BY DEF OwnerIsBacked, Backed, Unacknowledged, Inv, CleanupTimesOut, rowvars,
     coord, bounds
<1>3. (LeaseNamed /\ LockShape /\ CallBacked)'
  BY DEF LeaseNamed, LockShape, CallBacked, Calls, Backed, Inv,
     CleanupTimesOut, NoLease, coord, bounds
<1>4. (Launching /\ Owning /\ FreshRoom /\ Written)'
  BY DEF Launching, Owning, Owns, FreshRoom, Written, At, Inv,
     CleanupTimesOut, rowvars, adoption, bounds
<1>5. (Doubted /\ BootLeft)'
  BY DEF Doubted, BootLeft, Unacknowledged, At, Inv, CleanupTimesOut, rowvars,
     adoption, coord
<1> QED BY <1>1, <1>2, <1>3, <1>4, <1>5 DEF Inv

LEMMA BeginReleaseStep ==
  ASSUME Inv, NEW w \in owed, BeginRelease(w) PROVE Inv'
<1>1. /\ w.of \in Holder /\ op.at = "free" /\ op.kind = "none" /\ op' = op /\ armed' = armed
      /\ stray' = stray /\ intent' = intent /\ by' = by /\ bound' = bound
      /\ token' = token /\ revert' = revert /\ runs' = runs /\ doubt' = doubt
  BY DEF Inv, TypeOK, LockShape, BeginRelease, Free, adoption
<1>2. CASE Unacknowledged(run) /\ run.owner = w.of
  <2>1. /\ owed' = (owed \ {w}) \cup {[w EXCEPT !.at = "listed"]}
        /\ UNCHANGED <<run, quiet, fenced, lease, faults, lost>>
    BY <1>2 DEF BeginRelease
  <2>2. owed' \subseteq [of : Holder, at : {"queued", "listed"}]
    BY <2>1 DEF Inv, TypeOK
  <2>3. \A h \in Holder : Backed(h) => Backed(h)'
    <3>1. [w EXCEPT !.at = "listed"].of = w.of
      BY DEF Inv, TypeOK
    <3> QED BY <2>1, <3>1 DEF Backed
  <2>4. TypeOK'
    BY <1>1, <2>1, <2>2 DEF Inv, TypeOK
  <2>5. OwnerIsBacked'
    BY <1>1, <2>1, <2>3 DEF Inv, TypeOK, Row, OwnerIsBacked, Unacknowledged
  <2> QED BY <1>1, <2>1, <2>4, <2>5 DEF Inv, LeaseNamed, LockShape, CallBacked, Calls, Launching,
       Owning, Owns, FreshRoom, Written, At, Doubted, BootLeft, Unacknowledged
<1>3. CASE ~(Unacknowledged(run) /\ run.owner = w.of)
  <2>1. ReleaseOwner(w.of) /\ owed' = owed \ {w}
    BY <1>3 DEF BeginRelease
  <2>2. /\ run' \in Row /\ fenced' \in BOOLEAN /\ quiet' \in BOOLEAN
        /\ \/ run' = run /\ (Owns(w.of) => w.of \in lost')
           \/ run'.state = "RUNNING_IDLE" /\ run'.owner = Nobody
        /\ lease' = lease \/ (lease' = NoLease /\ lease.of = w.of /\ lease.at = "ending")
        /\ lost \subseteq lost' /\ lost' \subseteq Holder /\ faults' \in 0..MaxFaults
    BY <1>1, <2>1, Released
  <2>3. TypeOK'
    <3>1. OwnerOfState'
      BY <2>2 DEF Inv, TypeOK, OwnerOfState
    <3>2. CoordTyped'
      BY <1>1, <2>1, <2>2 DEF Inv, TypeOK, CoordTyped, NoLease
    <3> QED BY <1>1, <2>2, <3>1, <3>2 DEF Inv, TypeOK, OwnerOfState, CoordTyped
  <2>4. \A h : h # w.of /\ Backed(h) => Backed(h)'
    BY <2>1, <2>2 DEF Backed
  <2>5. OwnerIsBacked'
    BY <1>1, <1>3, <2>2, <2>4 DEF Inv, OwnerIsBacked, Backed, Owns, Unacknowledged
  <2>6. LeaseNamed'
    BY <2>2 DEF Inv, LeaseNamed, NoLease
  <2> QED BY <1>1, <2>3, <2>5, <2>6 DEF Inv, LockShape, CallBacked, Calls, Launching,
       Owning, FreshRoom, Written, At, Doubted, BootLeft
<1> QED BY <1>2, <1>3

LEMMA FinishReleaseStep ==
  ASSUME Inv, NEW w \in owed, FinishRelease(w) PROVE Inv'
<1>1. /\ w.of \in Holder /\ op.at = "free" /\ op.kind = "none" /\ op' = op
      /\ owed' = owed \ {w}
      /\ stray' = stray /\ intent' = intent /\ by' = by /\ quiet' = quiet /\ fenced' = fenced
      /\ token' = token /\ revert' = revert /\ runs' = runs /\ doubt' = doubt
  BY DEF Inv, TypeOK, LockShape, FinishRelease, Free, adoption
<1>2. CASE run.owner = w.of /\ ~run.acked
  <2>1. KillUnacknowledged(w.of) /\ bound' = FALSE
    BY <1>2 DEF FinishRelease
  <2>2. /\ run' \in Row /\ OwnerOfState'
        /\ run'.owner = Nobody \/ (run'.owner = w.of /\ (armed' # Nobody \/ w.of \in lost'))
        /\ armed' \in Row \cup {Nobody}
        /\ lease' = lease \/ (lease' = NoLease /\ lease.of = w.of /\ lease.at = "ending")
        /\ lost' \subseteq Holder /\ faults' \in 0..MaxFaults
    BY <1>1, <1>2, <2>1, Killed
  <2>3. CoordTyped' /\ LeaseNamed'
    BY <1>1, <2>2 DEF Inv, TypeOK, CoordTyped, LeaseNamed, NoLease
  <2>4. TypeOK'
    BY <1>1, <2>1, <2>2, <2>3, ZenonT(40) DEF Inv, TypeOK, OwnerOfState, CoordTyped
  <2>5. OwnerIsBacked'
    BY <2>2 DEF OwnerIsBacked, Backed
  <2> QED BY <1>1, <2>3, <2>4, <2>5 DEF Inv, LockShape, CallBacked, Calls, Launching,
       Owning, FreshRoom, Written, At, Doubted, BootLeft
<1>3. CASE ~(run.owner = w.of /\ ~run.acked)
  <2>1. Arm(run) /\ UNCHANGED <<run, bound, lease, faults, lost>>
    BY <1>3 DEF FinishRelease
  <2>2. armed' \in Row /\ armed' # Nobody
    BY <2>1, NobodyAssumption DEF Arm, Inv, TypeOK
  <2>3. TypeOK'
    BY <1>1, <2>1, <2>2 DEF Inv, TypeOK
  <2> QED BY <1>1, <2>1, <2>2, <2>3 DEF Inv, OwnerIsBacked, LeaseNamed, LockShape, CallBacked,
       Calls, Launching, Owning, FreshRoom, Written, At, Doubted, BootLeft
<1> QED BY <1>2, <1>3

LEMMA RepairStep ==
  ASSUME Inv, Repair PROVE Inv'
<1>1. TypeOK'
  <2>1. run' \in Row
    BY NobodyAssumption DEF Inv, TypeOK, At, CallBacked, Calls, Row, Active,
       Repair, NoLease, Exited, Free, rowvars
  <2>2. OwnerOfState'
    BY NobodyAssumption DEF OwnerOfState, Inv, TypeOK, Repair, NoLease,
       Exited, Free, rowvars
  <2>3. MemTyped'
    BY DEF MemTyped, Inv, TypeOK, Repair, rowvars, adoption, bridge
  <2>4. CoordTyped'
    BY DEF CoordTyped, Inv, TypeOK, Repair, NoLease, Exited, Free, coord
  <2>5. OpTyped'
    BY DEF OpTyped, Inv, TypeOK, Repair
  <2>6. BoundTyped'
    BY BoundAssumption DEF BoundTyped, Inv, TypeOK, Repair, bounds
  <2> QED BY <2>1, <2>2, <2>3, <2>4, <2>5, <2>6
    DEF TypeOK, OwnerOfState, MemTyped, CoordTyped, OpTyped, BoundTyped
<1>2. OwnerIsBacked'
  BY NobodyAssumption DEF OwnerIsBacked, Backed, Unacknowledged, Inv, Repair,
     NoLease, Exited, Free, rowvars, coord, bounds
<1>3. (LeaseNamed /\ LockShape /\ CallBacked)'
  BY DEF LeaseNamed, LockShape, CallBacked, Calls, Backed, Inv, Repair,
     NoLease, Exited, Free, coord, bounds
<1>4. (Launching /\ Owning /\ FreshRoom /\ Written)'
  BY DEF Launching, Owning, Owns, FreshRoom, Written, At, Inv, Repair,
     NoLease, Exited, Free, rowvars, adoption, bounds
<1>5. (Doubted /\ BootLeft)'
  BY DEF Doubted, BootLeft, Unacknowledged, At, Inv, Repair, NoLease, Exited,
     Free, rowvars, adoption, coord
<1> QED BY <1>1, <1>2, <1>3, <1>4, <1>5 DEF Inv

LEMMA EnterStep ==
  ASSUME Inv, NEW s \in Session, NEW k \in Calls, Enter(s, k) PROVE Inv'
<1>1. PICK h \in Holder : /\ Live(h)
                          /\ op' = [kind |-> k, at |-> "entered", for |-> h,
                                    fresh |-> k = "start" /\ run.state = "EXITED"]
  BY DEF Enter
<1>2. /\ op.at = "free" /\ op.kind = "none" /\ lease' = lease /\ owed' = owed /\ armed' = armed
      /\ stray' = stray /\ intent' = intent /\ by' = by /\ fenced' = fenced /\ bound' = bound
      /\ token' = token /\ runs' = runs /\ lost' = lost /\ doubt' = doubt /\ quiet' \in BOOLEAN
  BY DEF Inv, TypeOK, LockShape, Enter, Free, bridge, coord, Launcher
<1>3. /\ run' \in Row
      /\ run' = run \/ (run'.state = "RUNNING_IDLE" /\ run'.owner = Nobody)
      /\ faults' \in 0..MaxFaults /\ revert' \in BOOLEAN
  BY Retried DEF Enter, Inv, TypeOK
<1>4. OwnerOfState'
  BY <1>3 DEF Inv, TypeOK, OwnerOfState
<1>5. OpTyped'
  BY <1>1 DEF OpTyped, Calls
<1>6. TypeOK'
  BY <1>2, <1>3, <1>4, <1>5 DEF Inv, TypeOK, OwnerOfState, OpTyped
<1>7. Backed(h)' /\ \A o : Backed(o) => Backed(o)'
  BY <1>1, <1>2 DEF Backed, Live
<1>8. OwnerIsBacked'
  BY <1>1, <1>2, <1>3, <1>7 DEF Inv, OwnerIsBacked, Unacknowledged
<1>9. LockShape' /\ CallBacked'
  BY <1>1, <1>7 DEF LockShape, CallBacked, Calls
<1> QED BY <1>1, <1>2, <1>6, <1>8, <1>9
     DEF Inv, LeaseNamed, Launching, Owning, FreshRoom, Written, At, Doubted,
     BootLeft

LEMMA RefuseStep ==
  ASSUME Inv, Refuse PROVE Inv'
<1>1. TypeOK'
  BY NobodyAssumption, BoundAssumption DEF Inv, TypeOK, Refuse, Unlock,
     Unlocked, rowvars, adoption, bridge, coord, bounds
<1>2. OwnerIsBacked'
  BY NobodyAssumption DEF OwnerIsBacked, Backed, Unacknowledged, Inv, At,
     CallBacked, Calls, Launching, Owning, Owns, Written, BootLeft, LockShape,
     TypeOK, Row, Refuse, Unlock, Unlocked, rowvars, coord, bounds
<1>3. (LeaseNamed /\ LockShape /\ CallBacked)'
  BY DEF LeaseNamed, LockShape, CallBacked, Calls, Backed, Inv, Refuse,
     Unlock, Unlocked, coord, bounds
<1>4. (Launching /\ Owning /\ FreshRoom /\ Written)'
  BY DEF Launching, Owning, Owns, FreshRoom, Written, At, Inv, Refuse, Unlock,
     Unlocked, rowvars, adoption, bounds
<1>5. (Doubted /\ BootLeft)'
  BY DEF Doubted, BootLeft, Unacknowledged, At, Inv, Refuse, Unlock, Unlocked,
     rowvars, adoption, coord
<1> QED BY <1>1, <1>2, <1>3, <1>4, <1>5 DEF Inv

LEMMA JudgeAdoptStep ==
  ASSUME Inv, JudgeAdopt PROVE Inv'
<1>1. TypeOK'
  <2>1. run' \in Row
    BY DEF Inv, TypeOK, JudgeAdopt, rowvars
  <2>2. OwnerOfState'
    BY DEF OwnerOfState, Inv, TypeOK, JudgeAdopt, rowvars
  <2>3. MemTyped'
    BY DEF MemTyped, Inv, TypeOK, JudgeAdopt, rowvars, adoption, bridge
  <2>4. CoordTyped'
    BY DEF CoordTyped, Inv, TypeOK, JudgeAdopt, coord
  <2>5. OpTyped'
    BY DEF OpTyped, Inv, TypeOK, JudgeAdopt, Step
  <2>6. BoundTyped'
    BY BoundAssumption DEF BoundTyped, Inv, TypeOK, JudgeAdopt, bounds
  <2> QED BY <2>1, <2>2, <2>3, <2>4, <2>5, <2>6
    DEF TypeOK, OwnerOfState, MemTyped, CoordTyped, OpTyped, BoundTyped
<1>2. OwnerIsBacked'
  BY DEF OwnerIsBacked, Backed, Unacknowledged, Inv, JudgeAdopt, rowvars,
     coord, bounds
<1>3. (LeaseNamed /\ LockShape /\ CallBacked)'
  BY NobodyAssumption DEF LeaseNamed, LockShape, CallBacked, Calls, Backed,
     Inv, At, TypeOK, JudgeAdopt, Step, coord, bounds
<1>4. (Launching /\ Owning /\ FreshRoom /\ Written)'
  BY DEF Launching, Owning, Owns, FreshRoom, Written, At, Inv, JudgeAdopt,
     Step, rowvars, adoption, bounds
<1>5. (Doubted /\ BootLeft)'
  BY DEF Doubted, BootLeft, Unacknowledged, At, Inv, JudgeAdopt, Step,
     rowvars, adoption, coord
<1> QED BY <1>1, <1>2, <1>3, <1>4, <1>5 DEF Inv

LEMMA JudgeOwnerStep ==
  ASSUME Inv, JudgeOwner PROVE Inv'
<1>1. TypeOK'
  BY NobodyAssumption, BoundAssumption DEF Inv, TypeOK, JudgeOwner, Step,
     rowvars, adoption, bridge, coord, bounds
<1>2. OwnerIsBacked'
  BY DEF OwnerIsBacked, Backed, Unacknowledged, Inv, JudgeOwner, rowvars,
     coord, bounds
<1>3. (LeaseNamed /\ LockShape /\ CallBacked)'
  BY DEF LeaseNamed, LockShape, CallBacked, Calls, Backed, Inv, JudgeOwner,
     Step, coord, bounds
<1>4. (Launching /\ Owning /\ FreshRoom /\ Written)'
  BY DEF Launching, Owning, Owns, FreshRoom, Written, At, Inv, JudgeOwner,
     Step, rowvars, adoption, bounds
<1>5. (Doubted /\ BootLeft)'
  BY DEF Doubted, BootLeft, Unacknowledged, At, Inv, JudgeOwner, Step,
     rowvars, adoption, coord
<1> QED BY <1>1, <1>2, <1>3, <1>4, <1>5 DEF Inv

LEMMA JudgeStartStep ==
  ASSUME Inv, JudgeStart PROVE Inv'
<1>1. TypeOK'
  BY NobodyAssumption, BoundAssumption DEF Inv, TypeOK, JudgeStart, Step,
     rowvars, adoption, bridge, coord, bounds
<1>2. OwnerIsBacked'
  BY NobodyAssumption DEF OwnerIsBacked, Backed, Unacknowledged, Inv,
     JudgeStart, Step, rowvars, coord, bounds
<1>3. (LeaseNamed /\ LockShape /\ CallBacked)'
  BY NobodyAssumption DEF LeaseNamed, LockShape, CallBacked, Calls, Backed,
     Inv, At, TypeOK, JudgeStart, Step, coord, bounds
<1>4. (Launching /\ Owning /\ FreshRoom /\ Written)'
  BY DEF Launching, Owning, Owns, FreshRoom, Written, At, Inv, JudgeStart,
     Step, rowvars, adoption, bounds
<1>5. (Doubted /\ BootLeft)'
  BY DEF Doubted, BootLeft, Unacknowledged, At, Inv, JudgeStart, Step,
     rowvars, adoption, coord
<1> QED BY <1>1, <1>2, <1>3, <1>4, <1>5 DEF Inv

LEMMA StopMeetsUnknownStep ==
  ASSUME Inv, StopMeetsUnknown PROVE Inv'
<1>1. TypeOK'
  <2>1. run' \in Row
    BY QuarantinedRow DEF StopMeetsUnknown, Inv, TypeOK
  <2>2. OwnerOfState'
    BY NobodyAssumption, ZenonT(40) DEF OwnerOfState, Inv, TypeOK, At, Owning, Owns,
       CallBacked, Calls, Launching, Row, Active, StopMeetsUnknown, Fault,
       Quarantined, Unlock, Unlocked, rowvars
  <2>3. MemTyped'
    BY DEF MemTyped, Inv, TypeOK, StopMeetsUnknown, rowvars, adoption, bridge
  <2>4. CoordTyped'
    BY DEF CoordTyped, Inv, TypeOK, StopMeetsUnknown, coord
  <2>5. OpTyped'
    BY DEF OpTyped, Inv, TypeOK, StopMeetsUnknown, Fault, Quarantined, Unlock,
       Unlocked
  <2>6. BoundTyped'
    BY BoundAssumption DEF BoundTyped, Inv, TypeOK, StopMeetsUnknown, Fault,
       Quarantined, Unlock, Unlocked, bounds
  <2> QED BY <2>1, <2>2, <2>3, <2>4, <2>5, <2>6
    DEF TypeOK, OwnerOfState, MemTyped, CoordTyped, OpTyped, BoundTyped
<1>2. OwnerIsBacked'
  BY NobodyAssumption DEF OwnerIsBacked, Backed, Unacknowledged, Inv, At,
     CallBacked, Calls, Launching, Owning, Owns, Written, BootLeft, LockShape,
     TypeOK, Row, StopMeetsUnknown, Fault, Quarantined, Unlock, Unlocked,
     rowvars, coord, bounds
<1>3. (LeaseNamed /\ LockShape /\ CallBacked)'
  BY DEF LeaseNamed, LockShape, CallBacked, Calls, Backed, Inv,
     StopMeetsUnknown, Fault, Quarantined, Unlock, Unlocked, coord, bounds
<1>4. (Launching /\ Owning /\ FreshRoom /\ Written)'
  BY DEF Launching, Owning, Owns, FreshRoom, Written, At, Inv,
     StopMeetsUnknown, Fault, Quarantined, Unlock, Unlocked, rowvars,
     adoption, bounds
<1>5. (Doubted /\ BootLeft)'
  BY DEF Doubted, BootLeft, Unacknowledged, At, Inv, StopMeetsUnknown, Fault,
     Quarantined, Unlock, Unlocked, rowvars, adoption, coord
<1> QED BY <1>1, <1>2, <1>3, <1>4, <1>5 DEF Inv

LEMMA CommitStep ==
  ASSUME Inv, Commit PROVE Inv'
<1>1. TypeOK'
  BY NobodyAssumption, BoundAssumption DEF Inv, TypeOK, Commit, Step, rowvars,
     adoption, bridge, coord, bounds
<1>2. OwnerIsBacked'
  BY NobodyAssumption DEF OwnerIsBacked, Backed, Unacknowledged, Inv, Commit,
     Step, rowvars, coord, bounds
<1>3. (LeaseNamed /\ LockShape /\ CallBacked)'
  BY DEF LeaseNamed, LockShape, CallBacked, Calls, Backed, Inv, Commit, Step,
     coord, bounds
<1>4. (Launching /\ Owning /\ FreshRoom /\ Written)'
  BY DEF Launching, Owning, Owns, FreshRoom, Written, At, Inv, Commit, Step,
     rowvars, adoption, bounds
<1>5. (Doubted /\ BootLeft)'
  BY DEF Doubted, BootLeft, Unacknowledged, At, Inv, Commit, Step, rowvars,
     adoption, coord
<1> QED BY <1>1, <1>2, <1>3, <1>4, <1>5 DEF Inv

LEMMA CommitRefusedStep ==
  ASSUME Inv, CommitRefused PROVE Inv'
<1>1. TypeOK'
  BY NobodyAssumption, BoundAssumption DEF Inv, TypeOK, CommitRefused, Unlock,
     Unlocked, rowvars, adoption, bridge, coord, bounds
<1>2. OwnerIsBacked'
  BY NobodyAssumption DEF OwnerIsBacked, Backed, Unacknowledged, Inv, At,
     CallBacked, Calls, Launching, Owning, Owns, Written, BootLeft, LockShape,
     TypeOK, Row, CommitRefused, Unlock, Unlocked, rowvars, coord, bounds
<1>3. (LeaseNamed /\ LockShape /\ CallBacked)'
  BY DEF LeaseNamed, LockShape, CallBacked, Calls, Backed, Inv, CommitRefused,
     Unlock, Unlocked, coord, bounds
<1>4. (Launching /\ Owning /\ FreshRoom /\ Written)'
  BY DEF Launching, Owning, Owns, FreshRoom, Written, At, Inv, CommitRefused,
     Unlock, Unlocked, rowvars, adoption, bounds
<1>5. (Doubted /\ BootLeft)'
  BY DEF Doubted, BootLeft, Unacknowledged, At, Inv, CommitRefused, Unlock,
     Unlocked, rowvars, adoption, coord
<1> QED BY <1>1, <1>2, <1>3, <1>4, <1>5 DEF Inv

LEMMA WriteAdoptStep ==
  ASSUME Inv, WriteAdopt PROVE Inv'
<1> DEFINE owned == [run EXCEPT !.state = "RUNNING", !.owner = op.for]
<1>1. /\ op.kind = "adopt" /\ op.at = "committed" /\ op.for \in Holder /\ Backed(op.for)
      /\ op.for # Nobody /\ run \in Row
  BY NobodyAssumption DEF WriteAdopt, At, Inv, TypeOK, CallBacked, Calls
<1>2. /\ lease' = lease /\ owed' = owed /\ armed' = armed /\ stray' = stray /\ intent' = intent
      /\ by' = by /\ quiet' = quiet /\ bound' = bound /\ revert' = revert /\ runs' = runs
      /\ lost' = lost /\ doubt' = doubt
  BY DEF WriteAdopt, coord
<1>3. owned \in Row /\ owned.state = "RUNNING" /\ owned.owner = op.for
  BY <1>1 DEF Row, Active
<1> HIDE DEF owned
<1>4. \A o : Backed(o) => Backed(o)'
  BY <1>2 DEF Backed
<1>5. CASE run' = owned /\ token = "none" /\ Unlock
            /\ UNCHANGED <<token, faults>> /\ fenced' = FALSE
  <2>1. op' = Unlocked
    BY <1>5 DEF Unlock
  <2>2. TypeOK'
    BY <1>1, <1>2, <1>3, <1>5, <2>1, ZenonT(40) DEF Inv, TypeOK, Unlocked
  <2> QED BY <1>1, <1>2, <1>3, <1>4, <1>5, <2>1, <2>2 DEF Inv, OwnerIsBacked, LeaseNamed, LockShape,
       CallBacked, Calls, Launching, Owning, FreshRoom, Written, At, Doubted, BootLeft, Unlocked
<1>6. CASE run' = owned /\ token # "none" /\ Step("written") /\ UNCHANGED <<token, faults, fenced>>
  <2>1. op'.kind = "adopt" /\ op'.at = "written" /\ op'.for = op.for /\ OpTyped'
    BY <1>1, <1>6 DEF Step, Inv, TypeOK, OpTyped
  <2>2. TypeOK'
    BY <1>1, <1>2, <1>3, <1>6, <2>1 DEF Inv, TypeOK, OpTyped
  <2> QED BY <1>1, <1>2, <1>3, <1>4, <1>6, <2>1, <2>2 DEF Inv, OwnerIsBacked, LeaseNamed, LockShape,
       CallBacked, Calls, Launching, Owning, Owns, FreshRoom, Written, At, Doubted, BootLeft
<1>7. CASE Fault /\ Unlock /\ token' = "none" /\ UNCHANGED <<run, fenced>>
  <2>1. op' = Unlocked /\ faults' \in 0..MaxFaults
    BY <1>7, BoundAssumption DEF Unlock, Fault, Inv, TypeOK
  <2>2. TypeOK'
    BY <1>2, <1>7, <2>1 DEF Inv, TypeOK, Unlocked
  <2> QED BY <1>1, <1>2, <1>4, <1>7, <2>1, <2>2 DEF Inv, OwnerIsBacked, LeaseNamed, LockShape,
       CallBacked, Calls, Launching, Owning, FreshRoom, Written, At, Doubted,
       BootLeft, Unlocked, Unacknowledged
<1> QED BY <1>5, <1>6, <1>7 DEF WriteAdopt, Lifts, owned

LEMMA ConfirmAdoptStep ==
  ASSUME Inv, ConfirmAdopt PROVE Inv'
<1>1. TypeOK'
  <2>1. run' \in Row
    BY DEF Inv, TypeOK, ConfirmAdopt, rowvars
  <2>2. OwnerOfState'
    BY DEF OwnerOfState, Inv, TypeOK, ConfirmAdopt, rowvars
  <2>3. MemTyped'
    BY DEF MemTyped, Inv, TypeOK, ConfirmAdopt, rowvars, adoption, bridge
  <2>4. CoordTyped'
    BY DEF CoordTyped, Inv, TypeOK, ConfirmAdopt, coord
  <2>5. OpTyped'
    BY DEF OpTyped, Inv, TypeOK, ConfirmAdopt, Unlock, Unlocked
  <2>6. BoundTyped'
    BY BoundAssumption DEF BoundTyped, Inv, TypeOK, ConfirmAdopt, bounds
  <2> QED BY <2>1, <2>2, <2>3, <2>4, <2>5, <2>6
    DEF TypeOK, OwnerOfState, MemTyped, CoordTyped, OpTyped, BoundTyped
<1>2. OwnerIsBacked'
  BY NobodyAssumption DEF OwnerIsBacked, Backed, Unacknowledged, Inv, At,
     CallBacked, Calls, Launching, Owning, Owns, Written, BootLeft, LockShape,
     TypeOK, Row, ConfirmAdopt, Unlock, Unlocked, rowvars, coord, bounds
<1>3. (LeaseNamed /\ LockShape /\ CallBacked)'
  BY DEF LeaseNamed, LockShape, CallBacked, Calls, Backed, Inv, ConfirmAdopt,
     Unlock, Unlocked, coord, bounds
<1>4. (Launching /\ Owning /\ FreshRoom /\ Written)'
  BY DEF Launching, Owning, Owns, FreshRoom, Written, At, Inv, ConfirmAdopt,
     Unlock, Unlocked, rowvars, adoption, bounds
<1>5. (Doubted /\ BootLeft)'
  BY DEF Doubted, BootLeft, Unacknowledged, At, Inv, ConfirmAdopt, Unlock,
     Unlocked, rowvars, adoption, coord
<1> QED BY <1>1, <1>2, <1>3, <1>4, <1>5 DEF Inv

LEMMA UndoAdoptStep ==
  ASSUME Inv, UndoAdopt PROVE Inv'
<1>1. TypeOK'
  <2>1. run' \in Row
    BY IdleRow DEF UndoAdopt, Inv, TypeOK
  <2>2. OwnerOfState'
    BY NobodyAssumption DEF OwnerOfState, Inv, TypeOK, At, Owning, Owns,
       CallBacked, Calls, Launching, Row, Active, UndoAdopt, Unlock, Unlocked,
       Idle, rowvars
  <2>3. MemTyped'
    BY DEF MemTyped, Inv, TypeOK, UndoAdopt, rowvars, adoption, bridge
  <2>4. CoordTyped'
    BY DEF CoordTyped, Inv, TypeOK, UndoAdopt, coord
  <2>5. OpTyped'
    BY DEF OpTyped, Inv, TypeOK, UndoAdopt, Unlock, Unlocked, Idle
  <2>6. BoundTyped'
    BY DEF BoundTyped, Inv, TypeOK, UndoAdopt
  <2> QED BY <2>1, <2>2, <2>3, <2>4, <2>5, <2>6
    DEF TypeOK, OwnerOfState, MemTyped, CoordTyped, OpTyped, BoundTyped
<1>2. OwnerIsBacked'
  BY NobodyAssumption DEF OwnerIsBacked, Backed, Unacknowledged, Inv, At,
     CallBacked, Calls, Launching, Owning, Owns, Written, BootLeft, LockShape,
     TypeOK, Row, UndoAdopt, Unlock, Unlocked, Idle, rowvars, coord, bounds
<1>3. (LeaseNamed /\ LockShape /\ CallBacked)'
  BY DEF LeaseNamed, LockShape, CallBacked, Calls, Backed, Inv, UndoAdopt,
     Unlock, Unlocked, Idle, coord, bounds
<1>4. (Launching /\ Owning /\ FreshRoom /\ Written)'
  BY DEF Launching, Owning, Owns, FreshRoom, Written, At, Inv, UndoAdopt,
     Unlock, Unlocked, Idle, rowvars, adoption, bounds
<1>5. (Doubted /\ BootLeft)'
  BY DEF Doubted, BootLeft, Unacknowledged, At, Inv, UndoAdopt, Unlock,
     Unlocked, Idle, rowvars, adoption, coord
<1> QED BY <1>1, <1>2, <1>3, <1>4, <1>5 DEF Inv

LEMMA WriteAckStep ==
  ASSUME Inv, WriteAck PROVE Inv'
<1>1. TypeOK'
  <2>1. run' \in Row
    <3>1. [run EXCEPT !.acked = TRUE] \in Row
      BY DEF Inv, TypeOK, Row
    <3> QED BY <3>1 DEF WriteAck, Replace, Inv, TypeOK
  <2>2. OwnerOfState'
    BY NobodyAssumption DEF OwnerOfState, Inv, TypeOK, At, Owning, Owns,
       CallBacked, Calls, Launching, Row, Active, WriteAck, Unlock, Unlocked,
       Replace, Fault, rowvars
  <2>3. MemTyped'
    BY DEF MemTyped, Inv, TypeOK, WriteAck, rowvars, adoption, bridge
  <2>4. CoordTyped'
    BY DEF CoordTyped, Inv, TypeOK, WriteAck, coord
  <2>5. OpTyped'
    BY DEF OpTyped, Inv, TypeOK, WriteAck, Unlock, Unlocked, Replace, Fault
  <2>6. BoundTyped'
    BY BoundAssumption DEF BoundTyped, Inv, TypeOK, WriteAck, Unlock,
       Unlocked, Replace, Fault, bounds
  <2> QED BY <2>1, <2>2, <2>3, <2>4, <2>5, <2>6
    DEF TypeOK, OwnerOfState, MemTyped, CoordTyped, OpTyped, BoundTyped
<1>2. OwnerIsBacked'
  BY NobodyAssumption DEF OwnerIsBacked, Backed, Unacknowledged, Inv, At,
     CallBacked, Calls, Launching, Owning, Owns, Written, BootLeft, LockShape,
     TypeOK, Row, WriteAck, Unlock, Unlocked, Replace, Fault, rowvars, coord,
     bounds
<1>3. (LeaseNamed /\ LockShape /\ CallBacked)'
  BY DEF LeaseNamed, LockShape, CallBacked, Calls, Backed, Inv, WriteAck,
     Unlock, Unlocked, Replace, Fault, coord, bounds
<1>4. (Launching /\ Owning /\ FreshRoom /\ Written)'
  BY DEF Launching, Owning, Owns, FreshRoom, Written, At, Inv, WriteAck,
     Unlock, Unlocked, Replace, Fault, rowvars, adoption, bounds
<1>5. (Doubted /\ BootLeft)'
  BY DEF Doubted, BootLeft, Unacknowledged, At, Inv, WriteAck, Unlock,
     Unlocked, Replace, Fault, rowvars, adoption, coord
<1> QED BY <1>1, <1>2, <1>3, <1>4, <1>5 DEF Inv

LEMMA WriteStoppingStep ==
  ASSUME Inv, WriteStopping PROVE Inv'
<1>1. TypeOK'
  <2>1. run' \in Row
    BY NobodyAssumption DEF Inv, TypeOK, At, CallBacked, Calls, Row, Active,
       WriteStopping, Unlock, Unlocked, Step, Fault, rowvars
  <2>2. OwnerOfState'
    BY NobodyAssumption DEF OwnerOfState, Inv, TypeOK, At, Owning, Owns,
       CallBacked, Calls, Launching, Row, Active, WriteStopping, Unlock,
       Unlocked, Step, Fault, rowvars
  <2>3. MemTyped'
    BY DEF MemTyped, Inv, TypeOK, WriteStopping, rowvars, adoption, bridge
  <2>4. CoordTyped'
    BY DEF CoordTyped, Inv, TypeOK, WriteStopping, coord
  <2>5. OpTyped'
    <3>1. op' = Unlocked \/ op' = [op EXCEPT !.at = "stopping"]
      BY DEF WriteStopping, Step, Unlock
    <3>2. OpTyped
      BY TypeParts DEF Inv
    <3>3. CASE op' = Unlocked
      BY <3>3 DEF OpTyped, Unlocked
    <3> QED BY <3>1, <3>2, <3>3 DEF OpTyped
  <2>6. BoundTyped'
    BY BoundAssumption DEF BoundTyped, Inv, TypeOK, WriteStopping, Unlock,
       Unlocked, Step, Fault, bounds
  <2> QED BY <2>1, <2>2, <2>3, <2>4, <2>5, <2>6
    DEF TypeOK, OwnerOfState, MemTyped, CoordTyped, OpTyped, BoundTyped
<1>2. OwnerIsBacked'
  BY NobodyAssumption DEF OwnerIsBacked, Backed, Unacknowledged, Inv, At,
     CallBacked, Calls, Launching, Owning, Owns, Written, BootLeft, LockShape,
     TypeOK, Row, WriteStopping, Unlock, Unlocked, Step, Fault, rowvars,
     coord, bounds
<1>3. (LeaseNamed /\ LockShape /\ CallBacked)'
  BY NobodyAssumption DEF LeaseNamed, LockShape, CallBacked, Calls, Backed,
     Inv, At, TypeOK, WriteStopping, Unlock, Unlocked, Step, Fault, coord,
     bounds
<1>4. (Launching /\ Owning /\ FreshRoom /\ Written)'
  BY NobodyAssumption DEF Launching, Owning, Owns, FreshRoom, Written, At,
     Inv, TypeOK, Row, WriteStopping, Unlock, Unlocked, Step, Fault, rowvars,
     adoption, bounds
<1>5. (Doubted /\ BootLeft)'
  BY NobodyAssumption DEF Doubted, BootLeft, Unacknowledged, At, Inv, TypeOK,
     LockShape, Row, WriteStopping, Unlock, Unlocked, Step, Fault, rowvars,
     adoption, coord
<1> QED BY <1>1, <1>2, <1>3, <1>4, <1>5 DEF Inv

LEMMA StopEndsStep ==
  ASSUME Inv, StopEnds PROVE Inv'
<1>1. TypeOK'
  <2>1. run' \in Row
    BY ExitedRow, QuarantinedRow, DeadRow, ZenonT(40) DEF StopEnds, Inv, TypeOK
  <2>2. OwnerOfState'
    <3>1. run \in Row /\ OwnerOfState
      BY TypeParts DEF Inv
    <3>2. CASE run' = [run EXCEPT !.procs = "dead"]
      BY <3>1, <3>2 DEF OwnerOfState, Row
    <3>3. CASE run' = run
      BY <3>1, <3>3 DEF OwnerOfState
    <3> QED BY <3>1, <3>2, <3>3, ExitedRow, QuarantinedRow DEF StopEnds, OwnerOfState
  <2>3. MemTyped'
    BY DEF MemTyped, Inv, TypeOK, StopEnds, rowvars, adoption, bridge
  <2>4. CoordTyped'
    BY DEF CoordTyped, Inv, TypeOK, StopEnds, coord
  <2>5. OpTyped'
    BY DEF OpTyped, Inv, TypeOK, StopEnds, Unlock, Unlocked, Fault, Exited,
       Quarantined
  <2>6. BoundTyped'
    BY BoundAssumption DEF BoundTyped, Inv, TypeOK, StopEnds, Unlock,
       Unlocked, Fault, Exited, Quarantined, bounds
  <2> QED BY <2>1, <2>2, <2>3, <2>4, <2>5, <2>6
    DEF TypeOK, OwnerOfState, MemTyped, CoordTyped, OpTyped, BoundTyped
<1>2. OwnerIsBacked'
  BY NobodyAssumption, ZenonT(40) DEF OwnerIsBacked, Backed, Unacknowledged, Inv, At,
     CallBacked, Calls, Launching, Owning, Owns, Written, BootLeft, LockShape,
     TypeOK, Row, StopEnds, Unlock, Unlocked, Fault, Exited, Quarantined,
     rowvars, coord, bounds
<1>3. (LeaseNamed /\ LockShape /\ CallBacked)'
  BY DEF LeaseNamed, LockShape, CallBacked, Calls, Backed, Inv, StopEnds,
     Unlock, Unlocked, Fault, Exited, Quarantined, coord, bounds
<1>4. (Launching /\ Owning /\ FreshRoom /\ Written)'
  BY DEF Launching, Owning, Owns, FreshRoom, Written, At, Inv, StopEnds,
     Unlock, Unlocked, Fault, Exited, Quarantined, rowvars, adoption, bounds
<1>5. (Doubted /\ BootLeft)'
  BY DEF Doubted, BootLeft, Unacknowledged, At, Inv, StopEnds, Unlock,
     Unlocked, Fault, Exited, Quarantined, rowvars, adoption, coord
<1> QED BY <1>1, <1>2, <1>3, <1>4, <1>5 DEF Inv

LEMMA WriteStartingStep ==
  ASSUME Inv, WriteStarting PROVE Inv'
<1>1. TypeOK'
  <2>1. run' \in Row
    BY NobodyAssumption DEF Inv, TypeOK, At, CallBacked, Calls, Row, Active,
       WriteStarting, Step, Unlock, Unlocked, Fault, rowvars
  <2>2. OwnerOfState'
    BY NobodyAssumption DEF OwnerOfState, Inv, TypeOK, At, Owning, Owns,
       CallBacked, Calls, Launching, Row, Active, WriteStarting, Step, Unlock,
       Unlocked, Fault, rowvars
  <2>3. MemTyped'
    BY DEF MemTyped, Inv, TypeOK, WriteStarting, rowvars, adoption, bridge
  <2>4. CoordTyped'
    BY DEF CoordTyped, Inv, TypeOK, WriteStarting, coord
  <2>5. OpTyped'
    <3>1. op' = Unlocked \/ op' = [op EXCEPT !.at = "starting"]
      BY DEF WriteStarting, Step, Unlock
    <3>2. OpTyped
      BY TypeParts DEF Inv
    <3>3. CASE op' = Unlocked
      BY <3>3 DEF OpTyped, Unlocked
    <3> QED BY <3>1, <3>2, <3>3 DEF OpTyped
  <2>6. BoundTyped'
    <3>1. /\ runs' = runs \/ (op.fresh /\ runs' = runs + 1)
          /\ faults' = faults \/ (faults < MaxFaults /\ faults' = faults + 1)
          /\ lost' = lost /\ doubt' = doubt
      BY DEF WriteStarting, Fault, Unlock, Step
    <3>2. /\ lost' \subseteq Holder /\ doubt' \in BOOLEAN
          /\ faults \in 0..MaxFaults /\ runs \in 0..MaxRuns
      BY <3>1 DEF Inv, TypeOK
    <3>3. op.fresh => runs < MaxRuns
      BY DEF WriteStarting, At, Inv, FreshRoom
    <3> QED BY <3>1, <3>2, <3>3, BoundAssumption DEF BoundTyped
  <2> QED BY <2>1, <2>2, <2>3, <2>4, <2>5, <2>6
    DEF TypeOK, OwnerOfState, MemTyped, CoordTyped, OpTyped, BoundTyped
<1>2. OwnerIsBacked'
  BY NobodyAssumption DEF OwnerIsBacked, Backed, Unacknowledged, Inv, At,
     CallBacked, Calls, Launching, Owning, Owns, Written, BootLeft, LockShape,
     TypeOK, Row, WriteStarting, Step, Unlock, Unlocked, Fault, rowvars,
     coord, bounds
<1>3. (LeaseNamed /\ LockShape /\ CallBacked)'
  BY NobodyAssumption DEF LeaseNamed, LockShape, CallBacked, Calls, Backed,
     Inv, At, TypeOK, WriteStarting, Step, Unlock, Unlocked, Fault, coord,
     bounds
<1>4. (Launching /\ Owning /\ FreshRoom /\ Written)'
  BY NobodyAssumption DEF Launching, Owning, Owns, FreshRoom, Written, At,
     Inv, TypeOK, Row, WriteStarting, Step, Unlock, Unlocked, Fault, rowvars,
     adoption, bounds
<1>5. (Doubted /\ BootLeft)'
  BY NobodyAssumption DEF Doubted, BootLeft, Unacknowledged, At, Inv, TypeOK,
     LockShape, Row, WriteStarting, Step, Unlock, Unlocked, Fault, rowvars,
     adoption, coord
<1> QED BY <1>1, <1>2, <1>3, <1>4, <1>5 DEF Inv

LEMMA WriteIntentStep ==
  ASSUME Inv, WriteIntent PROVE Inv'
<1>1. TypeOK'
  BY NobodyAssumption, BoundAssumption DEF Inv, TypeOK, WriteIntent, Step,
     rowvars, adoption, bridge, coord, bounds
<1>2. OwnerIsBacked'
  BY NobodyAssumption DEF OwnerIsBacked, Backed, Unacknowledged, Inv,
     WriteIntent, Step, rowvars, coord, bounds
<1>3. (LeaseNamed /\ LockShape /\ CallBacked)'
  BY NobodyAssumption DEF LeaseNamed, LockShape, CallBacked, Calls, Backed,
     Inv, At, TypeOK, WriteIntent, Step, coord, bounds
<1>4. (Launching /\ Owning /\ FreshRoom /\ Written)'
  BY DEF Launching, Owning, Owns, FreshRoom, Written, At, Inv, WriteIntent,
     Step, rowvars, adoption, bounds
<1>5. (Doubted /\ BootLeft)'
  BY DEF Doubted, BootLeft, Unacknowledged, At, Inv, WriteIntent, Step,
     rowvars, adoption, coord
<1> QED BY <1>1, <1>2, <1>3, <1>4, <1>5 DEF Inv

LEMMA PopenStep ==
  ASSUME Inv, Popen PROVE Inv'
<1>1. TypeOK'
  BY NobodyAssumption, BoundAssumption DEF Inv, TypeOK, Popen, Step, rowvars,
     adoption, bridge, coord, bounds
<1>2. OwnerIsBacked'
  BY NobodyAssumption DEF OwnerIsBacked, Backed, Unacknowledged, Inv, Popen,
     Step, rowvars, coord, bounds
<1>3. (LeaseNamed /\ LockShape /\ CallBacked)'
  BY NobodyAssumption DEF LeaseNamed, LockShape, CallBacked, Calls, Backed,
     Inv, At, TypeOK, Popen, Step, coord, bounds
<1>4. (Launching /\ Owning /\ FreshRoom /\ Written)'
  BY DEF Launching, Owning, Owns, FreshRoom, Written, At, Inv, Popen, Step,
     rowvars, adoption, bounds
<1>5. (Doubted /\ BootLeft)'
  BY DEF Doubted, BootLeft, Unacknowledged, At, Inv, Popen, Step, rowvars,
     adoption, coord
<1> QED BY <1>1, <1>2, <1>3, <1>4, <1>5 DEF Inv

LEMMA RegisterStep ==
  ASSUME Inv, Register PROVE Inv'
<1>1. TypeOK'
  <2>1. run' \in Row
    BY NobodyAssumption DEF Inv, TypeOK, At, CallBacked, Calls, Row, Active,
       Register, Unlock, Unlocked, rowvars
  <2>2. OwnerOfState'
    BY NobodyAssumption DEF OwnerOfState, Inv, TypeOK, At, Owning, Owns,
       CallBacked, Calls, Launching, Row, Active, Register, Unlock, Unlocked,
       rowvars
  <2>3. MemTyped'
    BY NobodyAssumption DEF MemTyped, Inv, Owning, Owns, Written, At, Calls,
       CallBacked, TypeOK, Row, Active, Holder, Register, Unlock, Unlocked,
       rowvars, adoption, bridge, coord, bounds
  <2>4. CoordTyped'
    BY DEF CoordTyped, Inv, TypeOK, Register, coord
  <2>5. OpTyped'
    BY DEF OpTyped, Inv, TypeOK, Register, Unlock, Unlocked
  <2>6. BoundTyped'
    BY BoundAssumption DEF BoundTyped, Inv, TypeOK, Register, bounds
  <2> QED BY <2>1, <2>2, <2>3, <2>4, <2>5, <2>6
    DEF TypeOK, OwnerOfState, MemTyped, CoordTyped, OpTyped, BoundTyped
<1>2. OwnerIsBacked'
  BY NobodyAssumption DEF OwnerIsBacked, Backed, Unacknowledged, Inv, At,
     CallBacked, Calls, Launching, Owning, Owns, Written, BootLeft, LockShape,
     TypeOK, Row, Register, Unlock, Unlocked, rowvars, coord, bounds
<1>3. (LeaseNamed /\ LockShape /\ CallBacked)'
  BY DEF LeaseNamed, LockShape, CallBacked, Calls, Backed, Inv, Register,
     Unlock, Unlocked, coord, bounds
<1>4. (Launching /\ Owning /\ FreshRoom /\ Written)'
  BY DEF Launching, Owning, Owns, FreshRoom, Written, At, Inv, Register,
     Unlock, Unlocked, rowvars, adoption, bounds
<1>5. (Doubted /\ BootLeft)'
  BY DEF Doubted, BootLeft, Unacknowledged, At, Inv, Register, Unlock,
     Unlocked, rowvars, adoption, coord
<1> QED BY <1>1, <1>2, <1>3, <1>4, <1>5 DEF Inv

LEMMA StartFailsStep ==
  ASSUME Inv, StartFails PROVE Inv'
<1> DEFINE old == IF op.fresh THEN Exited(run) ELSE [run EXCEPT !.state = "RUNNING"]
           left == [run EXCEPT !.state = "UNRECONCILED"]
           kept == [left EXCEPT !.procs = "alive"]
<1>1. /\ run \in Row /\ run.state = "STARTING" /\ run.owner = op.for /\ op.for \in Holder
      /\ Backed(op.for) /\ op.for # Nobody
  BY NobodyAssumption DEF Inv, TypeOK, StartFails, Launching, CallBacked, Calls
<1>2. /\ op'.at = "free" /\ op'.kind = "none" /\ OpTyped' /\ lease' = lease /\ owed' = owed
      /\ armed' = armed /\ by' = by /\ quiet' = quiet /\ fenced' = fenced /\ bound' = bound
      /\ token' = token /\ revert' = revert /\ runs' = runs /\ lost' = lost /\ doubt' = doubt
  BY DEF StartFails, Unlock, Unlocked, OpTyped, coord, bridge, adoption
<1>3. /\ run' \in {run, old, left, kept} /\ stray' \in BOOLEAN /\ intent' \in BOOLEAN
      /\ \/ faults' = faults \/ faults' = faults + 1 \/ faults' = faults + 2
      /\ faults' <= MaxFaults
  BY DEF StartFails, Fault, StillTraced, Inv, TypeOK
<1>4. /\ old \in Row /\ old.owner \in {op.for, Nobody}
      /\ \/ old.state = "EXITED" /\ old.owner = Nobody
         \/ old.state = "RUNNING" /\ old.owner = op.for
  <2>1. CASE op.fresh
    <3>1. old = Exited(run)
      BY <2>1
    <3> HIDE DEF old
    <3> QED BY <1>1, <3>1, ExitedRow
  <2>2. CASE ~op.fresh
    BY <1>1, <2>2 DEF Row, Active
  <2> QED BY <2>1, <2>2
<1>5. /\ left \in Row /\ left.owner = op.for /\ left.state = "UNRECONCILED"
      /\ kept \in Row /\ kept.owner = op.for /\ kept.state = "UNRECONCILED"
  BY <1>1 DEF Row, Active
<1> HIDE DEF old, left, kept
<1>6. run' \in Row /\ OwnerOfState' /\ run'.owner \in {op.for, Nobody}
  BY <1>1, <1>3, <1>4, <1>5 DEF OwnerOfState
<1>7. faults' \in 0..MaxFaults
  BY <1>3, BoundAssumption DEF Inv, TypeOK
<1>8. token = "none"
  BY DEF StartFails, Inv, TypeOK, Doubted
<1>9. TypeOK'
  BY <1>2, <1>3, <1>6, <1>7 DEF Inv, TypeOK, OwnerOfState, OpTyped
<1>10. OwnerIsBacked'
  BY <1>1, <1>2, <1>6 DEF OwnerIsBacked, Backed
<1> QED BY <1>2, <1>8, <1>9, <1>10
     DEF Inv, LeaseNamed, LockShape, CallBacked, Calls, Launching, Owning,
     FreshRoom, Written, At, Doubted, BootLeft

LEMMA InputStep ==
  ASSUME Inv, Input PROVE Inv'
<1>1. TypeOK'
  <2>1. run' \in Row
    BY DEF Inv, TypeOK, Input, rowvars
  <2>2. OwnerOfState'
    BY DEF OwnerOfState, Inv, TypeOK, Input, rowvars
  <2>3. MemTyped'
    BY DEF MemTyped, Inv, TypeOK, Input, Spoilt, rowvars, adoption, bridge
  <2>4. CoordTyped'
    BY DEF CoordTyped, Inv, TypeOK, Input, coord
  <2>5. OpTyped'
    BY DEF OpTyped, Inv, TypeOK, Input
  <2>6. BoundTyped'
    BY BoundAssumption DEF BoundTyped, Inv, TypeOK, Input, bounds
  <2> QED BY <2>1, <2>2, <2>3, <2>4, <2>5, <2>6
    DEF TypeOK, OwnerOfState, MemTyped, CoordTyped, OpTyped, BoundTyped
<1>2. OwnerIsBacked'
  BY DEF OwnerIsBacked, Backed, Unacknowledged, Inv, Input, rowvars, coord,
     bounds
<1>3. (LeaseNamed /\ LockShape /\ CallBacked)'
  BY DEF LeaseNamed, LockShape, CallBacked, Calls, Backed, Inv, Input, coord,
     bounds
<1>4. (Launching /\ Owning /\ FreshRoom /\ Written)'
  BY DEF Launching, Owning, Owns, FreshRoom, Written, At, Inv, Input, Spoilt,
     rowvars, adoption, bounds
<1>5. (Doubted /\ BootLeft)'
  BY NobodyAssumption DEF Doubted, BootLeft, Unacknowledged, At, Inv, TypeOK,
     LockShape, Row, Input, Spoilt, rowvars, adoption, coord
<1> QED BY <1>1, <1>2, <1>3, <1>4, <1>5 DEF Inv

LEMMA LauncherAsksStep ==
  ASSUME Inv, LauncherAsks PROVE Inv'
<1>1. TypeOK'
  <2>1. run' \in Row
    BY DEF Inv, TypeOK, LauncherAsks, rowvars
  <2>2. OwnerOfState'
    BY DEF OwnerOfState, Inv, TypeOK, LauncherAsks, rowvars
  <2>3. MemTyped'
    BY DEF MemTyped, Inv, TypeOK, LauncherAsks, rowvars, adoption, bridge
  <2>4. CoordTyped'
    BY DEF CoordTyped, Inv, TypeOK, LauncherAsks, coord
  <2>5. OpTyped'
    BY DEF OpTyped, Inv, TypeOK, LauncherAsks
  <2>6. BoundTyped'
    BY BoundAssumption DEF BoundTyped, Inv, TypeOK, LauncherAsks, bounds
  <2> QED BY <2>1, <2>2, <2>3, <2>4, <2>5, <2>6
    DEF TypeOK, OwnerOfState, MemTyped, CoordTyped, OpTyped, BoundTyped
<1>2. OwnerIsBacked'
  BY DEF OwnerIsBacked, Backed, Unacknowledged, Inv, LauncherAsks, rowvars,
     coord, bounds
<1>3. (LeaseNamed /\ LockShape /\ CallBacked)'
  BY DEF LeaseNamed, LockShape, CallBacked, Calls, Backed, Inv, LauncherAsks,
     coord, bounds
<1>4. (Launching /\ Owning /\ FreshRoom /\ Written)'
  BY DEF Launching, Owning, Owns, FreshRoom, Written, At, Inv, LauncherAsks,
     rowvars, adoption, bounds
<1>5. (Doubted /\ BootLeft)'
  BY DEF Doubted, BootLeft, Unacknowledged, At, Inv, LauncherAsks, rowvars,
     adoption, coord
<1> QED BY <1>1, <1>2, <1>3, <1>4, <1>5 DEF Inv

LEMMA GoesQuietStep ==
  ASSUME Inv, GoesQuiet PROVE Inv'
<1>1. TypeOK'
  BY NobodyAssumption, BoundAssumption DEF Inv, TypeOK, GoesQuiet, rowvars,
     adoption, bridge, coord, bounds
<1>2. OwnerIsBacked'
  BY DEF OwnerIsBacked, Backed, Unacknowledged, Inv, GoesQuiet, rowvars,
     coord, bounds
<1>3. (LeaseNamed /\ LockShape /\ CallBacked)'
  BY DEF LeaseNamed, LockShape, CallBacked, Calls, Backed, Inv, GoesQuiet,
     coord, bounds
<1>4. (Launching /\ Owning /\ FreshRoom /\ Written)'
  BY DEF Launching, Owning, Owns, FreshRoom, Written, At, Inv, GoesQuiet,
     rowvars, adoption, bounds
<1>5. (Doubted /\ BootLeft)'
  BY DEF Doubted, BootLeft, Unacknowledged, At, Inv, GoesQuiet, rowvars,
     adoption, coord
<1> QED BY <1>1, <1>2, <1>3, <1>4, <1>5 DEF Inv

LEMMA ProcessDiesStep ==
  ASSUME Inv, ProcessDies PROVE Inv'
<1>1. TypeOK'
  <2>1. run' \in Row
    BY NobodyAssumption DEF Inv, TypeOK, At, CallBacked, Calls, Row, Active,
       ProcessDies, rowvars
  <2>2. OwnerOfState'
    BY NobodyAssumption DEF OwnerOfState, Inv, TypeOK, At, Owning, Owns,
       CallBacked, Calls, Launching, Row, Active, ProcessDies, rowvars
  <2>3. MemTyped'
    BY DEF MemTyped, Inv, TypeOK, ProcessDies, rowvars, adoption, bridge
  <2>4. CoordTyped'
    BY DEF CoordTyped, Inv, TypeOK, ProcessDies, coord
  <2>5. OpTyped'
    BY DEF OpTyped, Inv, TypeOK, ProcessDies
  <2>6. BoundTyped'
    BY BoundAssumption DEF BoundTyped, Inv, TypeOK, ProcessDies, bounds
  <2> QED BY <2>1, <2>2, <2>3, <2>4, <2>5, <2>6
    DEF TypeOK, OwnerOfState, MemTyped, CoordTyped, OpTyped, BoundTyped
<1>2. OwnerIsBacked'
  BY NobodyAssumption DEF OwnerIsBacked, Backed, Unacknowledged, Inv, At,
     CallBacked, Calls, Launching, Owning, Owns, Written, BootLeft, LockShape,
     TypeOK, Row, ProcessDies, rowvars, coord, bounds
<1>3. (LeaseNamed /\ LockShape /\ CallBacked)'
  BY DEF LeaseNamed, LockShape, CallBacked, Calls, Backed, Inv, ProcessDies,
     coord, bounds
<1>4. (Launching /\ Owning /\ FreshRoom /\ Written)'
  BY NobodyAssumption DEF Launching, Owning, Owns, FreshRoom, Written, At,
     Inv, TypeOK, Row, ProcessDies, rowvars, adoption, bounds
<1>5. (Doubted /\ BootLeft)'
  BY NobodyAssumption DEF Doubted, BootLeft, Unacknowledged, At, Inv, TypeOK,
     LockShape, Row, ProcessDies, rowvars, adoption, coord
<1> QED BY <1>1, <1>2, <1>3, <1>4, <1>5 DEF Inv

LEMMA ReapStep ==
  ASSUME Inv, Reap PROVE Inv'
<1> DEFINE gone == run.state \in Reapable /\ run.procs # "alive" /\ ~stray
<1>1. /\ op.at = "free" /\ op.kind = "none" /\ op' = op
      /\ lease' = lease /\ owed' = owed /\ armed' = armed
      /\ stray' = stray /\ intent' = intent /\ by' = by /\ quiet' = quiet /\ fenced' = fenced
      /\ token' = token /\ runs' = runs /\ lost' = lost /\ doubt' = doubt /\ bound' \in BOOLEAN
  BY DEF Inv, TypeOK, LockShape, Reap, Free, coord
<1>2. /\ run' \in Row
      /\ run' = run \/ (run'.state \in {"EXITED", "RUNNING_IDLE"} /\ run'.owner = Nobody)
      /\ faults' \in 0..MaxFaults /\ revert' \in BOOLEAN
  <2>1. CASE gone
    BY <2>1, ExitedRow DEF Reap, Inv, TypeOK
  <2>2. CASE ~gone
    BY <2>2, Retried DEF Reap
  <2> QED BY <2>1, <2>2
<1>3. OwnerOfState'
  BY <1>2 DEF Inv, TypeOK, OwnerOfState
<1>4. TypeOK'
  BY <1>1, <1>2, <1>3 DEF Inv, TypeOK, OwnerOfState
<1>5. OwnerIsBacked'
  BY <1>1, <1>2 DEF Inv, OwnerIsBacked, Unacknowledged, Backed
<1> QED BY <1>1, <1>4, <1>5 DEF Inv, LeaseNamed, LockShape, CallBacked, Calls, Launching, Owning,
     FreshRoom, Written, At, Doubted, BootLeft

LEMMA CrashStep ==
  ASSUME Inv, Crash PROVE Inv'
<1>1. TypeOK'
  <2>1. run' \in Row
    BY NobodyAssumption DEF Inv, TypeOK, At, CallBacked, Calls, Row, Active,
       Crash, Fault, Idle, NoLease, Unlocked, rowvars
  <2>2. OwnerOfState'
    BY NobodyAssumption DEF OwnerOfState, Inv, TypeOK, Crash, Fault, Idle,
       NoLease, Unlocked, rowvars
  <2>3. MemTyped'
    BY DEF MemTyped, Inv, TypeOK, Crash
  <2>4. CoordTyped'
    BY DEF CoordTyped, Inv, TypeOK, Crash, Fault, Idle, NoLease, Unlocked,
       coord
  <2>5. OpTyped'
    BY DEF OpTyped, Inv, TypeOK, Crash, Fault, Idle, NoLease, Unlocked
  <2>6. BoundTyped'
    <3>1. faults < MaxFaults /\ faults' = faults + 1 /\ runs' = runs /\ lost' = {} /\ doubt' = FALSE
      BY DEF Crash, Fault
    <3>2. lost' \subseteq Holder /\ doubt' \in BOOLEAN
      BY <3>1, Zenon
    <3>3. faults \in 0..MaxFaults /\ runs \in 0..MaxRuns
      BY DEF Inv, TypeOK
    <3> QED BY <3>1, <3>2, <3>3, BoundAssumption DEF BoundTyped
  <2> QED BY <2>1, <2>2, <2>3, <2>4, <2>5, <2>6
    DEF TypeOK, OwnerOfState, MemTyped, CoordTyped, OpTyped, BoundTyped
<1>2. OwnerIsBacked'
  BY DEF OwnerIsBacked, Backed, Unacknowledged, Inv, Crash
<1>3. (LeaseNamed /\ LockShape /\ CallBacked)'
  BY DEF LeaseNamed, LockShape, CallBacked, Calls, Backed, Inv, Crash, Fault,
     Idle, NoLease, Unlocked, coord, bounds
<1>4. (Launching /\ Owning /\ FreshRoom /\ Written)'
  BY DEF Launching, Owning, Owns, FreshRoom, Written, At, Inv, Crash, Fault,
     Idle, NoLease, Unlocked, rowvars, adoption, bounds
<1>5. (Doubted /\ BootLeft)'
  BY DEF Doubted, BootLeft, Unacknowledged, At, Inv, Crash
<1> QED BY <1>1, <1>2, <1>3, <1>4, <1>5 DEF Inv

LEMMA RecoverIntentStep ==
  ASSUME Inv, RecoverIntent PROVE Inv'
<1>1. TypeOK'
  <2>1. run' \in Row
    <3>1. [run EXCEPT !.state = "RUNNING", !.procs = "alive"] \in Row /\ run \in Row
      BY DEF Inv, TypeOK, Row, Active
    <3> QED BY <3>1 DEF RecoverIntent
  <2>2. OwnerOfState'
    BY NobodyAssumption, ZenonT(40) DEF OwnerOfState, Inv, TypeOK, At, Owning, Owns,
       CallBacked, Calls, Launching, Row, Active, RecoverIntent, Step, Fault,
       rowvars
  <2>3. MemTyped'
    BY DEF MemTyped, Inv, TypeOK, RecoverIntent, rowvars, adoption, bridge
  <2>4. CoordTyped'
    BY DEF CoordTyped, Inv, TypeOK, RecoverIntent, coord
  <2>5. OpTyped'
    BY DEF OpTyped, Inv, TypeOK, RecoverIntent, Step, Fault
  <2>6. BoundTyped'
    BY BoundAssumption DEF BoundTyped, Inv, TypeOK, RecoverIntent, Step,
       Fault, bounds
  <2> QED BY <2>1, <2>2, <2>3, <2>4, <2>5, <2>6
    DEF TypeOK, OwnerOfState, MemTyped, CoordTyped, OpTyped, BoundTyped
<1>2. OwnerIsBacked'
  BY NobodyAssumption DEF OwnerIsBacked, Backed, Unacknowledged, Inv, At,
     CallBacked, Calls, Launching, Owning, Owns, Written, BootLeft, LockShape,
     TypeOK, Row, RecoverIntent, Step, Fault, rowvars, coord, bounds
<1>3. (LeaseNamed /\ LockShape /\ CallBacked)'
  BY NobodyAssumption DEF LeaseNamed, LockShape, CallBacked, Calls, Backed,
     Inv, At, TypeOK, RecoverIntent, Step, Fault, coord, bounds
<1>4. (Launching /\ Owning /\ FreshRoom /\ Written)'
  BY DEF Launching, Owning, Owns, FreshRoom, Written, At, Inv, RecoverIntent,
     Step, Fault, rowvars, adoption, bounds
<1>5. (Doubted /\ BootLeft)'
  BY DEF Doubted, BootLeft, Unacknowledged, At, Inv, RecoverIntent, Step,
     Fault, rowvars, adoption, coord
<1> QED BY <1>1, <1>2, <1>3, <1>4, <1>5 DEF Inv

LEMMA RecoverUnacknowledgedStep ==
  ASSUME Inv, RecoverUnacknowledged PROVE Inv'
<1>1. /\ op.kind = "boot" /\ op'.kind = "boot" /\ op'.at = "owners" /\ OpTyped'
      /\ owed' = owed /\ stray' = stray /\ intent' = intent /\ by' = by /\ quiet' = quiet
      /\ fenced' = fenced /\ bound' = bound /\ token' = token /\ revert' = revert
      /\ runs' = runs /\ doubt' = doubt
  BY DEF RecoverUnacknowledged, At, Step, OpTyped, Inv, TypeOK, bridge, adoption
<1>2. /\ run' \in Row /\ OwnerOfState' /\ armed' \in Row \cup {Nobody}
      /\ Unacknowledged(run') => run'.owner = Nobody \/ armed' # Nobody
      /\ lease' = lease \/ lease' = NoLease
      /\ lost' \subseteq Holder /\ faults' \in 0..MaxFaults
  <2>1. CASE ~Unacknowledged(run)
    BY <2>1, TypeParts DEF RecoverUnacknowledged, Inv, CoordTyped, BoundTyped, OwnerOfState
  <2>2. CASE Unacknowledged(run) /\ run.owner = Nobody
    BY <2>2, TypeParts DEF RecoverUnacknowledged, Arm, Inv, CoordTyped, BoundTyped, OwnerOfState
  <2>3. CASE Unacknowledged(run) /\ run.owner # Nobody
    <3>1. KillUnacknowledged(run.owner) /\ run.owner \in Holder
      BY <2>3 DEF RecoverUnacknowledged, Inv, TypeOK, Row
    <3> QED BY <1>1, <3>1, Killed
  <2> QED BY <2>1, <2>2, <2>3
<1>3. CoordTyped' /\ LeaseNamed'
  BY <1>1, <1>2 DEF Inv, TypeOK, CoordTyped, LeaseNamed, NoLease
<1>4. TypeOK'
  BY <1>1, <1>2, <1>3 DEF Inv, TypeOK, OwnerOfState, OpTyped, CoordTyped
<1>5. token = "none"
  BY <1>1 DEF Inv, TypeOK, Doubted
<1> QED BY <1>1, <1>2, <1>3, <1>4, <1>5
     DEF Inv, OwnerIsBacked, LockShape, CallBacked, Calls, Launching,
     Owning, FreshRoom, Written, At, Doubted, BootLeft

LEMMA RecoverOwnersStep ==
  ASSUME Inv, RecoverOwners PROVE Inv'
<1>1. TypeOK'
  <2>1. run' \in Row
    BY NobodyAssumption DEF Inv, TypeOK, At, CallBacked, Calls, Row, Active,
       RecoverOwners, Unlock, Unlocked, Idle, Quarantined, rowvars
  <2>2. OwnerOfState'
    BY NobodyAssumption DEF OwnerOfState, Inv, TypeOK, RecoverOwners, Unlock,
       Unlocked, Idle, Quarantined, rowvars
  <2>3. MemTyped'
    BY DEF MemTyped, Inv, TypeOK, RecoverOwners, rowvars, adoption, bridge
  <2>4. CoordTyped'
    BY DEF CoordTyped, Inv, TypeOK, RecoverOwners, coord
  <2>5. OpTyped'
    BY DEF OpTyped, Inv, TypeOK, RecoverOwners, Unlock, Unlocked, Idle,
       Quarantined
  <2>6. BoundTyped'
    BY DEF BoundTyped, Inv, TypeOK, RecoverOwners
  <2> QED BY <2>1, <2>2, <2>3, <2>4, <2>5, <2>6
    DEF TypeOK, OwnerOfState, MemTyped, CoordTyped, OpTyped, BoundTyped
<1>2. OwnerIsBacked'
  BY NobodyAssumption DEF OwnerIsBacked, Backed, Unacknowledged, Inv, At,
     CallBacked, Calls, Launching, Owning, Owns, Written, BootLeft, LockShape,
     TypeOK, Row, RecoverOwners, Unlock, Unlocked, Idle, Quarantined, rowvars,
     coord, bounds
<1>3. (LeaseNamed /\ LockShape /\ CallBacked)'
  BY DEF LeaseNamed, LockShape, CallBacked, Calls, Backed, Inv, RecoverOwners,
     Unlock, Unlocked, Idle, Quarantined, coord, bounds
<1>4. (Launching /\ Owning /\ FreshRoom /\ Written)'
  BY DEF Launching, Owning, Owns, FreshRoom, Written, At, Inv, RecoverOwners,
     Unlock, Unlocked, Idle, Quarantined, rowvars, adoption, bounds
<1>5. (Doubted /\ BootLeft)'
  BY DEF Doubted, BootLeft, Unacknowledged, At, Inv, RecoverOwners, Unlock,
     Unlocked, Idle, Quarantined, rowvars, adoption, coord
<1> QED BY <1>1, <1>2, <1>3, <1>4, <1>5 DEF Inv

-----------------------------------------------------------------------------
LEMMA InitInv == ASSUME Init PROVE Inv
<1>1. TypeOK
  <2>1. run \in Row /\ OwnerOfState
    BY DEF Init, Row, Active, OwnerOfState
  <2>2. MemTyped /\ CoordTyped /\ OpTyped
    BY DEF Init, MemTyped, CoordTyped, OpTyped, NoLease, Unlocked
  <2>3. BoundTyped
    <3>1. faults \in 0..MaxFaults /\ runs \in 0..MaxRuns
      BY BoundAssumption DEF Init
    <3>2. lost \subseteq Holder /\ doubt \in BOOLEAN
      BY Zenon DEF Init
    <3> QED BY <3>1, <3>2 DEF BoundTyped
  <2> QED BY <2>1, <2>2, <2>3, TypeParts
<1> QED BY <1>1 DEF Init, Inv, OwnerIsBacked, LeaseNamed, LockShape, CallBacked, Calls, Launching,
     Owning, FreshRoom, Written, At, Doubted, BootLeft, NoLease, Unlocked

LEMMA StutterInv == ASSUME Inv, UNCHANGED vars PROVE Inv'
<1>1. /\ UNCHANGED <<run, stray, intent, by, quiet, fenced, bound, token, revert>>
      /\ UNCHANGED <<lease, owed, armed, op, faults, runs, lost, doubt>>
  BY DEF vars, rowvars, bridge, adoption, coord, bounds
<1> QED BY <1>1
     DEF Inv, TypeOK, OwnerIsBacked, Backed, LeaseNamed, LockShape, CallBacked, Launching,
     Owning, Owns, FreshRoom, Written, At, Doubted, BootLeft, Unacknowledged

LEMMA NextInv == ASSUME Inv, [Next]_vars PROVE Inv'
<1>1. CASE \E s \in Session : Grant(s) \/ \E k \in {"adopt", "stop", "ack", "start"} : Enter(s, k)
  BY <1>1, GrantStep, EnterStep DEF Calls
<1>2. CASE EndLease \/ EndWithoutCleanup \/ CleanupTimesOut \/ Repair
  BY <1>2, EndLeaseStep, EndWithoutCleanupStep, CleanupTimesOutStep, RepairStep
<1>3. CASE \E w \in owed : BeginRelease(w) \/ FinishRelease(w)
  BY <1>3, BeginReleaseStep, FinishReleaseStep
<1>4. CASE Call
  BY <1>4, RefuseStep, JudgeAdoptStep, JudgeOwnerStep, JudgeStartStep, StopMeetsUnknownStep,
     CommitStep, CommitRefusedStep, WriteAdoptStep, ConfirmAdoptStep, UndoAdoptStep,
     WriteAckStep, WriteStoppingStep, StopEndsStep, WriteStartingStep, WriteIntentStep,
     PopenStep, RegisterStep, StartFailsStep DEF Call
<1>5. CASE Recover \/ Crash
  BY <1>5, RecoverIntentStep, RecoverUnacknowledgedStep, RecoverOwnersStep, CrashStep DEF Recover
<1>6. CASE Input \/ LauncherAsks \/ GoesQuiet \/ ProcessDies \/ Reap
  BY <1>6, InputStep, LauncherAsksStep, GoesQuietStep, ProcessDiesStep, ReapStep
<1>7. CASE UNCHANGED vars
  BY <1>7, StutterInv
<1> QED BY <1>1, <1>2, <1>3, <1>4, <1>5, <1>6, <1>7 DEF Next

LEMMA InvHolds == Spec => []Inv
BY InitInv, NextInv, PTL DEF Spec

\* Every variable keeps its type, and the state of the row says whether it has
\* an owner: a run that starts, runs or stops has one, an idle or an exited run
\* none, through every failed write, cleanup and restart (RunRecord).
THEOREM RunTypeOK == Spec => []TypeOK
<1>1. Inv => TypeOK
  BY DEF Inv
<1> QED BY <1>1, InvHolds, PTL

\* A run that serves an owner, and a launch nobody acknowledged, always belong
\* to a lease that lives or is ending, to a cleanup still to run or reported
\* degraded, or to a fault or a recovery (begin_release_owner and the calls
\* that meet it at the operation lock).
THEOREM OwnerBacked == Spec => []OwnerIsBacked
<1>1. Inv => OwnerIsBacked
  BY DEF Inv
<1> QED BY <1>1, InvHolds, PTL

\* An adoption by a stranger is confirmed only if no input reached the run since
\* it was found abandoned: any step that ends the adoption and leaves the run to
\* the stranger follows no input, or leaves the revert pending.
THEOREM AdoptionConfirmed == Spec => NoAdoptionOverInput
<1>1. ASSUME Inv, [Next]_vars,
             At("adopt", "written"), op'.at = "free", run'.owner = op.for
      PROVE  ~doubt \/ revert'
  <2>1. /\ op.at = "written" /\ op.kind = "adopt" /\ op.at # "free"
        /\ Owns(op.for) /\ token # "none" /\ (doubt => token = "bad")
        /\ op.for # Nobody /\ run \in Row
    BY <1>1, NobodyAssumption DEF At, Inv, TypeOK, Written, Doubted, CallBacked, Calls
  <2>2. ~UNCHANGED op
    BY <1>1, <2>1
  <2>3. CASE Call
    <3>1. ConfirmAdopt \/ UndoAdopt
      BY <2>1, <2>3 DEF Call, Refuse, JudgeAdopt, JudgeOwner, JudgeStart, StopMeetsUnknown, Commit,
           CommitRefused, WriteAdopt, WriteAck, WriteStopping, StopEnds, WriteStarting,
           WriteIntent, Popen, Register, StartFails, At
    <3>2. CASE ConfirmAdopt
      BY <2>1, <3>2 DEF ConfirmAdopt
    <3>3. CASE UndoAdopt
      BY <1>1, <2>1, <3>3, IdleRow DEF UndoAdopt
    <3> QED BY <3>1, <3>2, <3>3
  <2>4. CASE Crash
    <3>1. run' = Idle(run)
      BY <2>1, <2>4 DEF Crash, At, Owns
    <3> QED BY <1>1, <2>1, <3>1, IdleRow
  <2>5. ~Recover /\ \A s \in Session, k \in {"adopt", "stop", "ack", "start"} : ~Enter(s, k)
    BY <2>1 DEF Recover, RecoverIntent, RecoverUnacknowledged, RecoverOwners, At, Enter, Free
  <2> QED BY <1>1, <2>2, <2>3, <2>4, <2>5 DEF Next, vars, coord, Grant, EndLease, EndWithoutCleanup,
       CleanupTimesOut, BeginRelease, FinishRelease, Repair, Input, LauncherAsks, GoesQuiet,
       ProcessDies, Reap
<1> QED BY <1>1, InvHolds, PTL DEF Spec, NoAdoptionOverInput

-----------------------------------------------------------------------------
\* What the steps below need of the types, and of what the lock says.
Shape == /\ run \in Row /\ faults \in 0..MaxFaults
         /\ stray \in BOOLEAN /\ intent \in BOOLEAN /\ fenced \in BOOLEAN
         /\ bound \in BOOLEAN /\ revert \in BOOLEAN
         /\ token \in {"none", "clean", "bad"}
         /\ OpTyped /\ LockShape /\ Doubted

LEMMA ShapeOfInv == Inv => Shape
BY DEF Inv, TypeOK, Shape, OpTyped

-----------------------------------------------------------------------------
(* The launch.                                                             *)

BoxClear == op.kind = "start" /\ op.at \in {"open", "committed", "starting"} => ~stray
IntentFirst == op.kind = "start" /\ op.at \in {"traced", "launched"} => intent
Traced == LaunchIsTraced /\ BoxClear /\ IntentFirst

\* No step leaves a starting row whose game nothing names.
LEMMA TracedStep == Inv /\ Traced /\ [Next]_vars => Traced'
<1> SUFFICES ASSUME Inv, Traced, [Next]_vars PROVE Traced'
    OBVIOUS
<1>1. Inv /\ Traced /\ Shape
    BY ShapeOfInv
<1>2. ASSUME NEW s \in Session, Grant(s) PROVE Traced'
    BY <1>1, <1>2, IdleRow, QuarantinedRow, ExitedRow, NobodyAssumption DEF Traced,
      LaunchIsTraced, BoxClear, IntentFirst, Shape, OpTyped, LockShape, Row, Active, Grant,
      rowvars, bridge, adoption, coord, bounds
<1>3. ASSUME NEW s \in Session, NEW k \in Calls, Enter(s, k) PROVE Traced'
    BY <1>1, <1>3, IdleRow, QuarantinedRow, ExitedRow, NobodyAssumption DEF Traced,
      LaunchIsTraced, BoxClear, IntentFirst, Shape, OpTyped, LockShape, Row, Active, Enter,
      Free, Retry, Fault, Calls, rowvars, bridge, adoption, coord, bounds
<1>4. ASSUME NEW w \in owed, BeginRelease(w) PROVE Traced'
    BY <1>1, <1>4, IdleRow, QuarantinedRow, ExitedRow, NobodyAssumption DEF Traced,
      LaunchIsTraced, BoxClear, IntentFirst, Shape, OpTyped, LockShape, Row, Active,
      BeginRelease, Free, ReleaseOwner, Fault, Owns, rowvars, bridge, adoption, coord, bounds
<1>5. ASSUME NEW w \in owed, FinishRelease(w) PROVE Traced'
    BY <1>1, <1>5, IdleRow, QuarantinedRow, ExitedRow, NobodyAssumption DEF Traced,
      LaunchIsTraced, BoxClear, IntentFirst, Shape, OpTyped, LockShape, Row, Active,
      FinishRelease, Free, KillUnacknowledged, Arm, Fault, rowvars, bridge, adoption, coord,
      bounds
<1>6. CASE EndLease
    BY <1>1, <1>6, IdleRow, QuarantinedRow, ExitedRow, NobodyAssumption DEF Traced,
      LaunchIsTraced, BoxClear, IntentFirst, Shape, OpTyped, LockShape, Row, Active, EndLease,
      rowvars, bridge, adoption, coord, bounds
<1>7. CASE EndWithoutCleanup
    BY <1>1, <1>7, IdleRow, QuarantinedRow, ExitedRow, NobodyAssumption DEF Traced,
      LaunchIsTraced, BoxClear, IntentFirst, Shape, OpTyped, LockShape, Row, Active,
      EndWithoutCleanup, Fault, rowvars, bridge, adoption, coord, bounds
<1>8. CASE CleanupTimesOut
    BY <1>1, <1>8, IdleRow, QuarantinedRow, ExitedRow, NobodyAssumption DEF Traced,
      LaunchIsTraced, BoxClear, IntentFirst, Shape, OpTyped, LockShape, Row, Active,
      CleanupTimesOut, rowvars, bridge, adoption, coord, bounds
<1>9. CASE Repair
    BY <1>1, <1>9, IdleRow, QuarantinedRow, ExitedRow, NobodyAssumption DEF Traced,
      LaunchIsTraced, BoxClear, IntentFirst, Shape, OpTyped, LockShape, Row, Active, Repair,
      Free, rowvars, bridge, adoption, coord, bounds
<1>10. CASE Refuse
    BY <1>1, <1>10, IdleRow, QuarantinedRow, ExitedRow, NobodyAssumption DEF Traced,
      LaunchIsTraced, BoxClear, IntentFirst, Shape, OpTyped, LockShape, Row, Active, Refuse,
      Unlock, Unlocked, rowvars, bridge, adoption, coord, bounds
<1>11. CASE JudgeAdopt
    BY <1>1, <1>11, IdleRow, QuarantinedRow, ExitedRow, NobodyAssumption DEF Traced,
      LaunchIsTraced, BoxClear, IntentFirst, Shape, OpTyped, LockShape, Row, Active,
      JudgeAdopt, At, Step, rowvars, bridge, adoption, coord, bounds
<1>12. CASE JudgeOwner
    BY <1>1, <1>12, IdleRow, QuarantinedRow, ExitedRow, NobodyAssumption DEF Traced,
      LaunchIsTraced, BoxClear, IntentFirst, Shape, OpTyped, LockShape, Row, Active,
      JudgeOwner, At, Step, rowvars, bridge, adoption, coord, bounds
<1>13. CASE JudgeStart
    BY <1>1, <1>13, IdleRow, QuarantinedRow, ExitedRow, NobodyAssumption DEF Traced,
      LaunchIsTraced, BoxClear, IntentFirst, Shape, OpTyped, LockShape, Row, Active,
      JudgeStart, At, Step, rowvars, bridge, adoption, coord, bounds
<1>14. CASE StopMeetsUnknown
    BY <1>1, <1>14, IdleRow, QuarantinedRow, ExitedRow, NobodyAssumption DEF Traced,
      LaunchIsTraced, BoxClear, IntentFirst, Shape, OpTyped, LockShape, Row, Active,
      StopMeetsUnknown, At, Fault, Unlock, Unlocked, rowvars, bridge, adoption, coord, bounds
<1>15. CASE Commit
    BY <1>1, <1>15, IdleRow, QuarantinedRow, ExitedRow, NobodyAssumption DEF Traced,
      LaunchIsTraced, BoxClear, IntentFirst, Shape, OpTyped, LockShape, Row, Active, Commit,
      Step, rowvars, bridge, adoption, coord, bounds
<1>16. CASE CommitRefused
    BY <1>1, <1>16, IdleRow, QuarantinedRow, ExitedRow, NobodyAssumption DEF Traced,
      LaunchIsTraced, BoxClear, IntentFirst, Shape, OpTyped, LockShape, Row, Active,
      CommitRefused, Unlock, Unlocked, rowvars, bridge, adoption, coord, bounds
<1>17. CASE WriteAdopt
  <2>1. run' = run \/ run' = [run EXCEPT !.state = "RUNNING", !.owner = op.for]
    BY <1>17 DEF WriteAdopt
  <2>2. run' = run \/ run'.state = "RUNNING"
    BY <1>1, <2>1 DEF Shape, Row
  <2>3. UNCHANGED <<stray, intent, armed>> /\ op.kind = "adopt"
    BY <1>17 DEF WriteAdopt, At, coord
  <2>4. op' = Unlocked \/ op' = [op EXCEPT !.at = "written"]
    BY <1>17 DEF WriteAdopt, Unlock, Step
  <2>5. op'.kind \in {"none", "adopt"}
    BY <1>1, <2>3, <2>4 DEF Shape, OpTyped, Unlocked
  <2>6. QED
    BY <1>1, <2>2, <2>3, <2>5 DEF Traced, LaunchIsTraced, BoxClear, IntentFirst
<1>18. CASE ConfirmAdopt
    BY <1>1, <1>18, IdleRow, QuarantinedRow, ExitedRow, NobodyAssumption DEF Traced,
      LaunchIsTraced, BoxClear, IntentFirst, Shape, OpTyped, LockShape, Row, Active,
      ConfirmAdopt, At, Unlock, Unlocked, rowvars, bridge, adoption, coord, bounds
<1>19. CASE UndoAdopt
    BY <1>1, <1>19, IdleRow, QuarantinedRow, ExitedRow, NobodyAssumption DEF Traced,
      LaunchIsTraced, BoxClear, IntentFirst, Shape, OpTyped, LockShape, Row, Active,
      UndoAdopt, At, Unlock, Unlocked, rowvars, bridge, adoption, coord, bounds
<1>20. CASE WriteAck
    BY <1>1, <1>20, IdleRow, QuarantinedRow, ExitedRow, NobodyAssumption DEF Traced,
      LaunchIsTraced, BoxClear, IntentFirst, Shape, OpTyped, LockShape, Row, Active, WriteAck,
      At, Replace, Fault, Unlock, Unlocked, rowvars, bridge, adoption, coord, bounds
<1>21. CASE WriteStopping
    BY <1>1, <1>21, IdleRow, QuarantinedRow, ExitedRow, NobodyAssumption DEF Traced,
      LaunchIsTraced, BoxClear, IntentFirst, Shape, OpTyped, LockShape, Row, Active,
      WriteStopping, At, Fault, Unlock, Unlocked, Step, rowvars, bridge, adoption, coord,
      bounds
<1>22. CASE StopEnds
    BY <1>1, <1>22, IdleRow, QuarantinedRow, ExitedRow, NobodyAssumption DEF Traced,
      LaunchIsTraced, BoxClear, IntentFirst, Shape, OpTyped, LockShape, Row, Active, StopEnds,
      At, Fault, Unlock, Unlocked, rowvars, bridge, adoption, coord, bounds
<1>23. CASE WriteStarting
    BY <1>1, <1>23, IdleRow, QuarantinedRow, ExitedRow, NobodyAssumption DEF Traced,
      LaunchIsTraced, BoxClear, IntentFirst, Shape, OpTyped, LockShape, Row, Active,
      WriteStarting, At, Fault, Unlock, Unlocked, Step, rowvars, bridge, adoption, coord,
      bounds
<1>24. CASE WriteIntent
    BY <1>1, <1>24, IdleRow, QuarantinedRow, ExitedRow, NobodyAssumption DEF Traced,
      LaunchIsTraced, BoxClear, IntentFirst, Shape, OpTyped, LockShape, Row, Active,
      WriteIntent, At, Step, rowvars, bridge, adoption, coord, bounds
<1>25. CASE Popen
    BY <1>1, <1>25, IdleRow, QuarantinedRow, ExitedRow, NobodyAssumption DEF Traced,
      LaunchIsTraced, BoxClear, IntentFirst, Shape, OpTyped, LockShape, Row, Active, Popen,
      At, Step, rowvars, bridge, adoption, coord, bounds
<1>26. CASE Register
    BY <1>1, <1>26, IdleRow, QuarantinedRow, ExitedRow, NobodyAssumption DEF Traced,
      LaunchIsTraced, BoxClear, IntentFirst, Shape, OpTyped, LockShape, Row, Active, Register,
      At, Unlock, Unlocked, rowvars, bridge, adoption, coord, bounds
<1>27. CASE StartFails
    BY <1>1, <1>27, IdleRow, QuarantinedRow, ExitedRow, NobodyAssumption DEF Traced,
      LaunchIsTraced, BoxClear, IntentFirst, Shape, OpTyped, LockShape, Row, Active,
      StartFails, Fault, StillTraced, Unlock, Unlocked, rowvars, bridge, adoption, coord,
      bounds
<1>28. CASE Crash
    BY <1>1, <1>28, IdleRow, QuarantinedRow, ExitedRow, NobodyAssumption DEF Traced,
      LaunchIsTraced, BoxClear, IntentFirst, Shape, OpTyped, LockShape, Row, Active, Crash,
      At, Fault, Unlocked, rowvars, bridge, adoption, coord, bounds
<1>29. CASE RecoverIntent
    BY <1>1, <1>29, IdleRow, QuarantinedRow, ExitedRow, NobodyAssumption DEF Traced,
      LaunchIsTraced, BoxClear, IntentFirst, Shape, OpTyped, LockShape, Row, Active,
      RecoverIntent, At, Fault, Step, rowvars, bridge, adoption, coord, bounds
<1>30. CASE RecoverUnacknowledged
    BY <1>1, <1>30, IdleRow, QuarantinedRow, ExitedRow, NobodyAssumption DEF Traced,
      LaunchIsTraced, BoxClear, IntentFirst, Shape, OpTyped, LockShape, Row, Active,
      RecoverUnacknowledged, At, KillUnacknowledged, Arm, Fault, Step, Unacknowledged,
      rowvars, bridge, adoption, coord, bounds
<1>31. CASE RecoverOwners
    BY <1>1, <1>31, IdleRow, QuarantinedRow, ExitedRow, NobodyAssumption DEF Traced,
      LaunchIsTraced, BoxClear, IntentFirst, Shape, OpTyped, LockShape, Row, Active,
      RecoverOwners, At, Unlock, Unlocked, rowvars, bridge, adoption, coord, bounds
<1>32. CASE Input
    BY <1>1, <1>32, IdleRow, QuarantinedRow, ExitedRow, NobodyAssumption DEF Traced,
      LaunchIsTraced, BoxClear, IntentFirst, Shape, OpTyped, LockShape, Row, Active, Input,
      Spoilt, rowvars, bridge, adoption, coord, bounds
<1>33. CASE LauncherAsks
    BY <1>1, <1>33, IdleRow, QuarantinedRow, ExitedRow, NobodyAssumption DEF Traced,
      LaunchIsTraced, BoxClear, IntentFirst, Shape, OpTyped, LockShape, Row, Active,
      LauncherAsks, rowvars, bridge, adoption, coord, bounds
<1>34. CASE GoesQuiet
    BY <1>1, <1>34, IdleRow, QuarantinedRow, ExitedRow, NobodyAssumption DEF Traced,
      LaunchIsTraced, BoxClear, IntentFirst, Shape, OpTyped, LockShape, Row, Active,
      GoesQuiet, rowvars, bridge, adoption, coord, bounds
<1>35. CASE ProcessDies
    BY <1>1, <1>35, IdleRow, QuarantinedRow, ExitedRow, NobodyAssumption DEF Traced,
      LaunchIsTraced, BoxClear, IntentFirst, Shape, OpTyped, LockShape, Row, Active,
      ProcessDies, rowvars, bridge, adoption, coord, bounds
<1>36. CASE Reap
    BY <1>1, <1>36, IdleRow, QuarantinedRow, ExitedRow, NobodyAssumption DEF Traced,
      LaunchIsTraced, BoxClear, IntentFirst, Shape, OpTyped, LockShape, Row, Active, Reap,
      Free, Retry, Fault, rowvars, bridge, adoption, coord, bounds
<1>37. CASE UNCHANGED vars
    BY <1>1, <1>37, IdleRow, QuarantinedRow, ExitedRow, NobodyAssumption DEF Traced,
      LaunchIsTraced, BoxClear, IntentFirst, Shape, OpTyped, LockShape, Row, Active, vars,
      rowvars, bridge, adoption, coord, bounds
<1>38. QED
    BY <1>2, <1>3, <1>4, <1>5, <1>6, <1>7, <1>8, <1>9, <1>10, <1>11, <1>12, <1>13, <1>14,
      <1>15, <1>16, <1>17, <1>18, <1>19, <1>20, <1>21, <1>22, <1>23, <1>24, <1>25, <1>26,
      <1>27, <1>28, <1>29, <1>30, <1>31, <1>32, <1>33, <1>34, <1>35, <1>36, <1>37 DEF Next,
      Call, Recover, Calls

-----------------------------------------------------------------------------
(* The fence.                                                              *)

\* A revert that is pending, a recovery, and a call that found a revert it could
\* not retry, have each cost their faults.
Costs == /\ revert => faults >= 1
         /\ op.kind = "boot" => faults >= 1 /\ ~bound
         /\ op.kind \in {"adopt", "stop", "ack"} /\ revert => faults >= 2

\* Nothing failed, or one thing that did not unbind the game.
Unharmed == faults = 0 \/ (faults <= 1 /\ bound)
IdleFenced == Unharmed /\ run.state = "RUNNING_IDLE" => fenced
WrittenFenced == Unharmed /\ At("adopt", "written") => fenced
RevertFenced == faults <= 1 /\ revert => fenced

\* Only the adoption of an idle run is one that input may spoil.
FoundIdle ==
  op.kind = "adopt" /\ op.at \in {"open", "committed"} /\ token # "none"
    => run.state = "RUNNING_IDLE"

Fence == Costs /\ IdleFenced /\ WrittenFenced /\ RevertFenced /\ FoundIdle

\* The fence of an idle run is lifted by the confirmation, or by a second failure.
LEMMA FenceStep == Inv /\ Fence /\ [Next]_vars => Fence'
<1> SUFFICES ASSUME Inv, Fence, [Next]_vars PROVE Fence'
    OBVIOUS
<1>1. Inv /\ Fence /\ Shape
    BY ShapeOfInv
<1>2. ASSUME NEW s \in Session, Grant(s) PROVE Fence'
    BY <1>1, <1>2, IdleRow, QuarantinedRow, ExitedRow, BoundAssumption DEF Fence, Costs,
      Unharmed, IdleFenced, WrittenFenced, RevertFenced, FoundIdle, At, Shape, OpTyped,
      LockShape, Doubted, Row, Active, Grant, rowvars, bridge, adoption, coord, bounds
<1>3. ASSUME NEW s \in Session, NEW k \in Calls, Enter(s, k) PROVE Fence'
    BY <1>1, <1>3, IdleRow, QuarantinedRow, ExitedRow, BoundAssumption DEF Fence, Costs,
      Unharmed, IdleFenced, WrittenFenced, RevertFenced, FoundIdle, At, Shape, OpTyped,
      LockShape, Doubted, Row, Active, Enter, Free, Retry, Fault, Calls, rowvars, bridge,
      adoption, coord, bounds
<1>4. ASSUME NEW w \in owed, BeginRelease(w) PROVE Fence'
    BY <1>1, <1>4, IdleRow, QuarantinedRow, ExitedRow, BoundAssumption DEF Fence, Costs,
      Unharmed, IdleFenced, WrittenFenced, RevertFenced, FoundIdle, At, Shape, OpTyped,
      LockShape, Doubted, Row, Active, BeginRelease, Free, ReleaseOwner, Fault, Owns, rowvars,
      bridge, adoption, coord, bounds
<1>5. ASSUME NEW w \in owed, FinishRelease(w) PROVE Fence'
    BY <1>1, <1>5, IdleRow, QuarantinedRow, ExitedRow, BoundAssumption DEF Fence, Costs,
      Unharmed, IdleFenced, WrittenFenced, RevertFenced, FoundIdle, At, Shape, OpTyped,
      LockShape, Doubted, Row, Active, FinishRelease, Free, KillUnacknowledged, Arm, Fault,
      rowvars, bridge, adoption, coord, bounds
<1>6. CASE EndLease
    BY <1>1, <1>6, IdleRow, QuarantinedRow, ExitedRow, BoundAssumption DEF Fence, Costs,
      Unharmed, IdleFenced, WrittenFenced, RevertFenced, FoundIdle, At, Shape, OpTyped,
      LockShape, Doubted, Row, Active, EndLease, rowvars, bridge, adoption, coord, bounds
<1>7. CASE EndWithoutCleanup
    BY <1>1, <1>7, IdleRow, QuarantinedRow, ExitedRow, BoundAssumption DEF Fence, Costs,
      Unharmed, IdleFenced, WrittenFenced, RevertFenced, FoundIdle, At, Shape, OpTyped,
      LockShape, Doubted, Row, Active, EndWithoutCleanup, Fault, rowvars, bridge, adoption,
      coord, bounds
<1>8. CASE CleanupTimesOut
    BY <1>1, <1>8, IdleRow, QuarantinedRow, ExitedRow, BoundAssumption DEF Fence, Costs,
      Unharmed, IdleFenced, WrittenFenced, RevertFenced, FoundIdle, At, Shape, OpTyped,
      LockShape, Doubted, Row, Active, CleanupTimesOut, rowvars, bridge, adoption, coord,
      bounds
<1>9. CASE Repair
    BY <1>1, <1>9, IdleRow, QuarantinedRow, ExitedRow, BoundAssumption DEF Fence, Costs,
      Unharmed, IdleFenced, WrittenFenced, RevertFenced, FoundIdle, At, Shape, OpTyped,
      LockShape, Doubted, Row, Active, Repair, Free, rowvars, bridge, adoption, coord, bounds
<1>10. CASE Refuse
    BY <1>1, <1>10, IdleRow, QuarantinedRow, ExitedRow, BoundAssumption DEF Fence, Costs,
      Unharmed, IdleFenced, WrittenFenced, RevertFenced, FoundIdle, At, Shape, OpTyped,
      LockShape, Doubted, Row, Active, Refuse, Unlock, Unlocked, rowvars, bridge, adoption,
      coord, bounds
<1>11. CASE JudgeAdopt
    BY <1>1, <1>11, IdleRow, QuarantinedRow, ExitedRow, BoundAssumption DEF Fence, Costs,
      Unharmed, IdleFenced, WrittenFenced, RevertFenced, FoundIdle, At, Shape, OpTyped,
      LockShape, Doubted, Row, Active, JudgeAdopt, Step, rowvars, bridge, adoption, coord,
      bounds
<1>12. CASE JudgeOwner
    BY <1>1, <1>12, IdleRow, QuarantinedRow, ExitedRow, BoundAssumption DEF Fence, Costs,
      Unharmed, IdleFenced, WrittenFenced, RevertFenced, FoundIdle, At, Shape, OpTyped,
      LockShape, Doubted, Row, Active, JudgeOwner, Step, rowvars, bridge, adoption, coord,
      bounds
<1>13. CASE JudgeStart
    BY <1>1, <1>13, IdleRow, QuarantinedRow, ExitedRow, BoundAssumption DEF Fence, Costs,
      Unharmed, IdleFenced, WrittenFenced, RevertFenced, FoundIdle, At, Shape, OpTyped,
      LockShape, Doubted, Row, Active, JudgeStart, Step, rowvars, bridge, adoption, coord,
      bounds
<1>14. CASE StopMeetsUnknown
    BY <1>1, <1>14, IdleRow, QuarantinedRow, ExitedRow, BoundAssumption DEF Fence, Costs,
      Unharmed, IdleFenced, WrittenFenced, RevertFenced, FoundIdle, At, Shape, OpTyped,
      LockShape, Doubted, Row, Active, StopMeetsUnknown, Fault, Unlock, Unlocked, rowvars,
      bridge, adoption, coord, bounds
<1>15. CASE Commit
    BY <1>1, <1>15, IdleRow, QuarantinedRow, ExitedRow, BoundAssumption DEF Fence, Costs,
      Unharmed, IdleFenced, WrittenFenced, RevertFenced, FoundIdle, At, Shape, OpTyped,
      LockShape, Doubted, Row, Active, Commit, Step, rowvars, bridge, adoption, coord, bounds
<1>16. CASE CommitRefused
    BY <1>1, <1>16, IdleRow, QuarantinedRow, ExitedRow, BoundAssumption DEF Fence, Costs,
      Unharmed, IdleFenced, WrittenFenced, RevertFenced, FoundIdle, At, Shape, OpTyped,
      LockShape, Doubted, Row, Active, CommitRefused, Unlock, Unlocked, rowvars, bridge,
      adoption, coord, bounds
<1>17. CASE WriteAdopt
  <2>1. op.kind = "adopt" /\ op.at = "committed" /\ UNCHANGED <<bound, revert>>
    BY <1>17 DEF WriteAdopt, At
  <2>2. CASE run' = [run EXCEPT !.state = "RUNNING", !.owner = op.for]
             /\ fenced' = Lifts(token) /\ UNCHANGED <<token, faults>>
             /\ IF token = "none" THEN Unlock ELSE Step("written")
    <3>1. run'.state = "RUNNING"
      BY <1>1, <2>2 DEF Shape, Row
    <3>2. revert => faults >= 2
      BY <1>1, <2>1 DEF Fence, Costs
    <3>3. CASE token = "none"
      <4>1. op'.kind = "none" /\ op'.at = "free"
        BY <2>2, <3>3 DEF Unlock, Unlocked
      <4>2. QED
        BY <1>1, <2>1, <2>2, <3>1, <3>2, <4>1 DEF Shape, Fence, Costs, IdleFenced,
          WrittenFenced, RevertFenced, FoundIdle, At
    <3>4. CASE token # "none"
      <4>1. op'.kind = "adopt" /\ op'.at = "written"
        BY <1>1, <2>1, <2>2, <3>4 DEF Step, Shape, OpTyped
      <4>2. Unharmed => fenced
        BY <1>1, <2>1, <3>4 DEF Fence, FoundIdle, IdleFenced
      <4>3. fenced' = fenced /\ (Unharmed' <=> Unharmed)
        BY <2>1, <2>2, <3>4 DEF Lifts, Unharmed
      <4>4. QED
        BY <1>1, <2>1, <2>2, <3>1, <3>2, <4>1, <4>2, <4>3 DEF Shape, Fence, Costs,
          IdleFenced, WrittenFenced, RevertFenced, FoundIdle, At
    <3>5. QED
      BY <3>3, <3>4
  <2>3. CASE Fault /\ Unlock /\ UNCHANGED <<run, fenced>>
    BY <1>1, <2>1, <2>3 DEF Shape, Fence, Costs, Unharmed, IdleFenced, WrittenFenced,
      RevertFenced, FoundIdle, At, Fault, Unlock, Unlocked
  <2>4. QED
    BY <1>17, <2>2, <2>3 DEF WriteAdopt
<1>18. CASE ConfirmAdopt
  <2>1. /\ op.kind = "adopt" /\ op.at = "written" /\ UNCHANGED <<run, bound, revert, faults>>
        /\ op' = Unlocked
    BY <1>18 DEF ConfirmAdopt, At, rowvars, bounds, Unlock
  <2>2. run.state = "RUNNING"
    BY <1>1, <2>1 DEF Inv, Written, At, Owns
  <2>3. revert => faults >= 2
    BY <1>1, <2>1 DEF Fence, Costs
  <2>4. QED
    BY <1>1, <2>1, <2>2, <2>3 DEF Shape, Fence, Costs, IdleFenced, WrittenFenced,
      RevertFenced, FoundIdle, At, Unlocked
<1>19. CASE UndoAdopt
    BY <1>1, <1>19, IdleRow, QuarantinedRow, ExitedRow, BoundAssumption DEF Fence, Costs,
      Unharmed, IdleFenced, WrittenFenced, RevertFenced, FoundIdle, At, Shape, OpTyped,
      LockShape, Doubted, Row, Active, UndoAdopt, Unlock, Unlocked, rowvars, bridge, adoption,
      coord, bounds
<1>20. CASE WriteAck
    BY <1>1, <1>20, IdleRow, QuarantinedRow, ExitedRow, BoundAssumption DEF Fence, Costs,
      Unharmed, IdleFenced, WrittenFenced, RevertFenced, FoundIdle, At, Shape, OpTyped,
      LockShape, Doubted, Row, Active, WriteAck, Replace, Fault, Unlock, Unlocked, rowvars,
      bridge, adoption, coord, bounds
<1>21. CASE WriteStopping
    BY <1>1, <1>21, IdleRow, QuarantinedRow, ExitedRow, BoundAssumption DEF Fence, Costs,
      Unharmed, IdleFenced, WrittenFenced, RevertFenced, FoundIdle, At, Shape, OpTyped,
      LockShape, Doubted, Row, Active, WriteStopping, Fault, Unlock, Unlocked, Step, rowvars,
      bridge, adoption, coord, bounds
<1>22. CASE StopEnds
    BY <1>1, <1>22, IdleRow, QuarantinedRow, ExitedRow, BoundAssumption DEF Fence, Costs,
      Unharmed, IdleFenced, WrittenFenced, RevertFenced, FoundIdle, At, Shape, OpTyped,
      LockShape, Doubted, Row, Active, StopEnds, Fault, Unlock, Unlocked, rowvars, bridge,
      adoption, coord, bounds
<1>23. CASE WriteStarting
    BY <1>1, <1>23, IdleRow, QuarantinedRow, ExitedRow, BoundAssumption DEF Fence, Costs,
      Unharmed, IdleFenced, WrittenFenced, RevertFenced, FoundIdle, At, Shape, OpTyped,
      LockShape, Doubted, Row, Active, WriteStarting, Fault, Unlock, Unlocked, Step, rowvars,
      bridge, adoption, coord, bounds
<1>24. CASE WriteIntent
    BY <1>1, <1>24, IdleRow, QuarantinedRow, ExitedRow, BoundAssumption DEF Fence, Costs,
      Unharmed, IdleFenced, WrittenFenced, RevertFenced, FoundIdle, At, Shape, OpTyped,
      LockShape, Doubted, Row, Active, WriteIntent, Step, rowvars, bridge, adoption, coord,
      bounds
<1>25. CASE Popen
    BY <1>1, <1>25, IdleRow, QuarantinedRow, ExitedRow, BoundAssumption DEF Fence, Costs,
      Unharmed, IdleFenced, WrittenFenced, RevertFenced, FoundIdle, At, Shape, OpTyped,
      LockShape, Doubted, Row, Active, Popen, Step, rowvars, bridge, adoption, coord, bounds
<1>26. CASE Register
    BY <1>1, <1>26, IdleRow, QuarantinedRow, ExitedRow, BoundAssumption DEF Fence, Costs,
      Unharmed, IdleFenced, WrittenFenced, RevertFenced, FoundIdle, At, Shape, OpTyped,
      LockShape, Doubted, Row, Active, Register, Unlock, Unlocked, rowvars, bridge, adoption,
      coord, bounds
<1>27. CASE StartFails
  <2>1. /\ op.kind = "start" /\ op.at \in {"starting", "traced", "launched"}
        /\ op' = Unlocked /\ UNCHANGED <<fenced, bound, revert>>
    BY <1>27 DEF StartFails, Unlock, bridge, adoption
  <2>2. run.state = "STARTING"
    BY <1>1, <2>1 DEF Inv, Launching
  <2>3. \/ run' = run \/ run' = Exited(run) \/ run' = [run EXCEPT !.state = "RUNNING"]
        \/ run' = [run EXCEPT !.state = "UNRECONCILED"]
        \/ run' = [[run EXCEPT !.state = "UNRECONCILED"] EXCEPT !.procs = "alive"]
    BY <1>27 DEF StartFails
  <2>4. run'.state # "RUNNING_IDLE"
    BY <1>1, <2>2, <2>3, ExitedRow DEF Shape, Row
  <2>5. faults' \in {faults, faults + 1, faults + 2}
    BY <1>27 DEF StartFails, Fault
  <2>6. faults' \in Nat /\ faults \in Nat /\ faults' >= faults
    BY <1>1, <2>5, BoundAssumption DEF Shape
  <2>7. QED
    BY <1>1, <2>1, <2>4, <2>6 DEF Shape, Fence, Costs, IdleFenced, WrittenFenced,
      RevertFenced, FoundIdle, At, Unlocked
<1>28. CASE Crash
    BY <1>1, <1>28, IdleRow, QuarantinedRow, ExitedRow, BoundAssumption DEF Fence, Costs,
      Unharmed, IdleFenced, WrittenFenced, RevertFenced, FoundIdle, At, Shape, OpTyped,
      LockShape, Doubted, Row, Active, Crash, Fault, Unlocked, rowvars, bridge, adoption,
      coord, bounds
<1>29. CASE RecoverIntent
    BY <1>1, <1>29, IdleRow, QuarantinedRow, ExitedRow, BoundAssumption DEF Fence, Costs,
      Unharmed, IdleFenced, WrittenFenced, RevertFenced, FoundIdle, At, Shape, OpTyped,
      LockShape, Doubted, Row, Active, RecoverIntent, Fault, Step, rowvars, bridge, adoption,
      coord, bounds
<1>30. CASE RecoverUnacknowledged
    BY <1>1, <1>30, IdleRow, QuarantinedRow, ExitedRow, BoundAssumption DEF Fence, Costs,
      Unharmed, IdleFenced, WrittenFenced, RevertFenced, FoundIdle, At, Shape, OpTyped,
      LockShape, Doubted, Row, Active, RecoverUnacknowledged, KillUnacknowledged, Arm, Fault,
      Step, Unacknowledged, rowvars, bridge, adoption, coord, bounds
<1>31. CASE RecoverOwners
    BY <1>1, <1>31, IdleRow, QuarantinedRow, ExitedRow, BoundAssumption DEF Fence, Costs,
      Unharmed, IdleFenced, WrittenFenced, RevertFenced, FoundIdle, At, Shape, OpTyped,
      LockShape, Doubted, Row, Active, RecoverOwners, Unlock, Unlocked, rowvars, bridge,
      adoption, coord, bounds
<1>32. CASE Input
    BY <1>1, <1>32, IdleRow, QuarantinedRow, ExitedRow, BoundAssumption DEF Fence, Costs,
      Unharmed, IdleFenced, WrittenFenced, RevertFenced, FoundIdle, At, Shape, OpTyped,
      LockShape, Doubted, Row, Active, Input, Spoilt, rowvars, bridge, adoption, coord, bounds
<1>33. CASE LauncherAsks
    BY <1>1, <1>33, IdleRow, QuarantinedRow, ExitedRow, BoundAssumption DEF Fence, Costs,
      Unharmed, IdleFenced, WrittenFenced, RevertFenced, FoundIdle, At, Shape, OpTyped,
      LockShape, Doubted, Row, Active, LauncherAsks, rowvars, bridge, adoption, coord, bounds
<1>34. CASE GoesQuiet
    BY <1>1, <1>34, IdleRow, QuarantinedRow, ExitedRow, BoundAssumption DEF Fence, Costs,
      Unharmed, IdleFenced, WrittenFenced, RevertFenced, FoundIdle, At, Shape, OpTyped,
      LockShape, Doubted, Row, Active, GoesQuiet, rowvars, bridge, adoption, coord, bounds
<1>35. CASE ProcessDies
    BY <1>1, <1>35, IdleRow, QuarantinedRow, ExitedRow, BoundAssumption DEF Fence, Costs,
      Unharmed, IdleFenced, WrittenFenced, RevertFenced, FoundIdle, At, Shape, OpTyped,
      LockShape, Doubted, Row, Active, ProcessDies, rowvars, bridge, adoption, coord, bounds
<1>36. CASE Reap
    BY <1>1, <1>36, IdleRow, QuarantinedRow, ExitedRow, BoundAssumption DEF Fence, Costs,
      Unharmed, IdleFenced, WrittenFenced, RevertFenced, FoundIdle, At, Shape, OpTyped,
      LockShape, Doubted, Row, Active, Reap, Free, Retry, Fault, rowvars, bridge, adoption,
      coord, bounds
<1>37. CASE UNCHANGED vars
    BY <1>1, <1>37, IdleRow, QuarantinedRow, ExitedRow, BoundAssumption DEF Fence, Costs,
      Unharmed, IdleFenced, WrittenFenced, RevertFenced, FoundIdle, At, Shape, OpTyped,
      LockShape, Doubted, Row, Active, vars, rowvars, bridge, adoption, coord, bounds
<1>38. QED
    BY <1>2, <1>3, <1>4, <1>5, <1>6, <1>7, <1>8, <1>9, <1>10, <1>11, <1>12, <1>13, <1>14,
      <1>15, <1>16, <1>17, <1>18, <1>19, <1>20, <1>21, <1>22, <1>23, <1>24, <1>25, <1>26,
      <1>27, <1>28, <1>29, <1>30, <1>31, <1>32, <1>33, <1>34, <1>35, <1>36, <1>37 DEF Next,
      Call, Recover, Calls

-----------------------------------------------------------------------------
LEMMA TracedHolds == Spec => []Traced
<1>1. Init => Traced
  BY DEF Init, Traced, LaunchIsTraced, BoxClear, IntentFirst, Unlocked
<1>2. Inv /\ Traced /\ [Next]_vars => Traced'
  BY TracedStep
<1> QED BY <1>1, <1>2, InvHolds, PTL DEF Spec

LEMMA FenceHolds == Spec => []Fence
<1>1. Init => Fence
  BY DEF Init, Fence, Costs, Unharmed, IdleFenced, WrittenFenced, RevertFenced, FoundIdle,
     At, Unlocked
<1>2. Inv /\ Fence /\ [Next]_vars => Fence'
  BY FenceStep
<1> QED BY <1>1, <1>2, InvHolds, PTL DEF Spec

\* Whatever write fails and wherever the daemon dies, a game that lives while
\* its row is still STARTING is named by the launch intent, or a recovery fault
\* bars new leases (_write_launch_intent, recover_launch_intent).
THEOREM LaunchTraced == Spec => []LaunchIsTraced
<1>1. Traced => LaunchIsTraced
  BY DEF Traced
<1> QED BY <1>1, TracedHolds, PTL

\* With at most one failure, a run whose owner is not confirmed takes commands
\* from nobody but its launcher (_refuse_unconfirmed_owner, fence_run).
THEOREM UnconfirmedFenced == Spec => []UnconfirmedServesNothing
<1>1. Inv /\ Fence => UnconfirmedServesNothing
  <2> SUFFICES ASSUME Inv, Fence, faults <= 1,
                      revert \/ (At("adopt", "written") /\ token # "none"),
                      NEW s \in Session, Accepts(s), ~Launcher(s)
               PROVE  FALSE
    BY DEF UnconfirmedServesNothing
  <2>1. ~revert /\ bound /\ ~fenced
    BY DEF Accepts
  <2>2. fenced
    BY <2>1 DEF Fence, WrittenFenced, Unharmed
  <2> QED BY <2>1, <2>2
<1> QED BY <1>1, InvHolds, FenceHolds, PTL
=============================================================================
