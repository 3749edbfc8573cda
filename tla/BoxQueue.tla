------------------------------ MODULE BoxQueue ------------------------------
(***************************************************************************)
(* The box FIFO of SessionCoordinator (session_coordination.py): the queue *)
(* in which sessions wait for the single game box to become free, the      *)
(* claim its head may take, and the tombstones of the tickets that left.   *)
(*                                                                         *)
(* Every method runs under the coordinator's condition from its first line *)
(* to its last, so each is one action.  A timestamp x that the code only   *)
(* ever compares as "now - x >= bound" is kept as the age now - x, and a   *)
(* deadline as the time left, so that Tick is the only place time moves.   *)
(* The list _box_queue is only ever appended to and filtered, and tickets  *)
(* are numbered as they are issued: the queue is the function from its     *)
(* tickets' numbers to their records, in the order of the numbers.         *)
(*                                                                         *)
(* KeptEvenIfLapsed, ClaimNeverLapses, ClaimSwapped and                    *)
(* RoomIgnoresTombstones are deliberate mistakes, used by no action: each  *)
(* stands for a bug that one of the invariants below must notice.          *)
(***************************************************************************)
EXTENDS Naturals, FiniteSets, Functions

CONSTANTS Session,        \* the sessions (client.session_id) of the daemon
          NoSession,      \* _box_claiming is None
          SessionTTL,     \* SESSION_TTL_S: silence that drops an unclaimed ticket
          ClaimTTL,       \* BOX_CLAIM_TTL_S: silence that drops the claimed one
          TombstoneTTL,   \* OPERATION_TOMBSTONE_TTL_S
          MaxQueue,       \* MAX_SESSION_QUEUE
          MaxTombstones,  \* MAX_OPERATION_TOMBSTONES
          MaxTicket       \* bound of the model: how many tickets are ever issued

ASSUME BoxAssumption ==
  /\ NoSession \notin Session
  /\ SessionTTL \in Nat \ {0}
  /\ ClaimTTL \in Nat \ {0}
  /\ TombstoneTTL \in Nat
  /\ MaxQueue \in Nat \ {0}
  /\ MaxTombstones \in Nat \ {0}
  /\ MaxTicket \in Nat

VARIABLES boxQueue,       \* _box_queue: the live tickets
          boxTombstones,  \* _box_tombstones: departed tickets, the time each has left
          boxClaiming,    \* _box_claiming
          claimTicket,    \* _box_claiming_ticket; 0 is None
          issued          \* tickets issued so far: _id_fn never repeats one

boxVars == <<boxQueue, boxTombstones, boxClaiming, claimTicket, issued>>

TicketId == 1 .. MaxTicket
Ticket == [session : Session, age : Nat]

TypeOK ==
  /\ DOMAIN boxQueue \subseteq 1 .. issued
  /\ boxQueue \in [DOMAIN boxQueue -> Ticket]
  /\ DOMAIN boxTombstones \subseteq 1 .. issued
  /\ boxTombstones \in [DOMAIN boxTombstones -> Nat]
  /\ boxClaiming \in Session \cup {NoSession}
  /\ claimTicket \in {0} \cup TicketId
  /\ issued \in 0 .. MaxTicket

Init ==
  /\ boxQueue = << >>
  /\ boxTombstones = << >>
  /\ boxClaiming = NoSession
  /\ claimTicket = 0
  /\ issued = 0

-----------------------------------------------------------------------------
(* Reading the queue.                                                      *)

HoldsClaim(id) ==
  id \in DOMAIN boxQueue /\ boxClaiming = boxQueue[id].session /\ claimTicket = id

IsHead(q, id) == id \in DOMAIN q /\ \A other \in DOMAIN q : id <= other

Silent(id) == boxQueue[id].age >= IF HoldsClaim(id) THEN ClaimTTL ELSE SessionTTL

(* _purge_box_locked, which every call starts with: the tickets it drops   *)
(* and keeps, the tombstones it forgets, and the claim it clears.          *)
Lapsed == {id \in DOMAIN boxQueue : Silent(id)}
KeptEvenIfLapsed == DOMAIN boxQueue
Kept == DOMAIN boxQueue \ Lapsed
Remembered == {id \in DOMAIN boxTombstones : boxTombstones[id] > 0}
ClaimNeverLapses == FALSE
ClaimLapsed == \E id \in Lapsed : HoldsClaim(id)

PurgedQueue == Restrict(boxQueue, Kept)
PurgedClaiming == IF ClaimLapsed THEN NoSession ELSE boxClaiming
PurgedClaim == IF ClaimLapsed THEN 0 ELSE claimTicket

(* The tombstones once the tickets in gone have left as well.              *)
Buried(gone) ==
  [id \in Remembered \cup Lapsed \cup gone |->
     IF id \in Lapsed \cup gone THEN TombstoneTTL ELSE boxTombstones[id]]

Claim(session, id) == boxClaiming' = session /\ claimTicket' = id
KeepClaim == Claim(PurgedClaiming, PurgedClaim)

(* The tickets in gone leave; the claim goes with them if it was theirs.    *)
Leave(gone, dropsClaim) ==
  /\ boxQueue' = Restrict(boxQueue, Kept \ gone)
  /\ boxTombstones' = Buried(gone)
  /\ IF dropsClaim THEN Claim(NoSession, 0) ELSE KeepClaim
  /\ UNCHANGED issued

LiveOf(s) == {id \in Kept : boxQueue[id].session = s}

-----------------------------------------------------------------------------
(* The operations.                                                         *)

(* box_queue_public, box_is_claimed, box_blocks_start, box_claim_public    *)
(* and every refused touch only purge.                                     *)
Purge == Leave({}, FALSE)

ClaimSwapped(q, s, id, wants) ==
  IF wants /\ IsHead(q, id) THEN Claim(id, s) ELSE KeepClaim

(* The claim a touch takes with claim=True when its ticket heads the queue. *)
TakeClaim(q, s, id, wants) ==
  IF wants /\ IsHead(q, id) THEN Claim(s, id) ELSE KeepClaim

(* The two capacities a join is refused at: operation_capacity, queue_full. *)
RoomIgnoresTombstones == Cardinality(Kept) < MaxQueue
Room ==
  /\ Cardinality(Remembered \cup Lapsed) < MaxTombstones
  /\ Cardinality(Kept) < MaxQueue

(* box_wait_touch without a ticket: join, unless a capacity is reached.    *)
Join(s, wants) ==
  /\ issued < MaxTicket
  /\ Room
  /\ issued' = issued + 1
  /\ boxQueue' = [id \in Kept \cup {issued + 1} |->
                    IF id \in Kept THEN boxQueue[id] ELSE [session |-> s, age |-> 0]]
  /\ boxTombstones' = Buried({})
  /\ TakeClaim(boxQueue', s, issued + 1, wants)

(* box_wait_touch with the ticket of a live wait: refresh and maybe claim.  *)
Touch(s, id, wants) ==
  /\ id \in LiveOf(s)
  /\ boxQueue' = [PurgedQueue EXCEPT ![id].age = 0]
  /\ boxTombstones' = Buried({})
  /\ TakeClaim(boxQueue', s, id, wants)
  /\ UNCHANGED issued

(* box_wait_touch(done=True) with a ticket.                                *)
Done(s, id) ==
  Leave(LiveOf(s) \cap {id}, PurgedClaiming = s /\ PurgedClaim = id)

(* _box_leave_session_locked.                                              *)
LeaveSession(s) == Leave(LiveOf(s), PurgedClaiming = s)

(* box_wait_touch(done=True) without a ticket: the caller never saw the    *)
(* answer to its join.  A lone unclaimed ticket is taken for that join.    *)
DoneUnseen(s) ==
  IF Cardinality(LiveOf(s)) > 1 \/ (LiveOf(s) # {} /\ PurgedClaiming = s)
  THEN Purge
  ELSE LeaveSession(s)

(* note_run_reaped: the session that owned a reaped run leaves the queue.   *)
(* The code leaves first and purges after, in _expire_due: the same tickets *)
(* are gone either way.                                                     *)
RunReaped(s) == LeaveSession(s)

Older(age, cap) == IF age < cap THEN age + 1 ELSE age

(* One unit of time.  An age is not counted past the longer time-to-live.   *)
Tick ==
  /\ boxQueue' = [id \in DOMAIN boxQueue |->
                    [boxQueue[id] EXCEPT
                       !.age = Older(@, IF SessionTTL < ClaimTTL THEN ClaimTTL
                                                                ELSE SessionTTL)]]
  /\ boxTombstones' = [id \in DOMAIN boxTombstones |->
                         IF boxTombstones[id] > 0 THEN boxTombstones[id] - 1 ELSE 0]
  /\ UNCHANGED <<boxClaiming, claimTicket, issued>>

Call(s) ==
  \/ \E wants \in BOOLEAN : Join(s, wants)
  \/ \E wants \in BOOLEAN, id \in TicketId : Touch(s, id, wants)
  \/ \E id \in TicketId : Done(s, id)
  \/ DoneUnseen(s)
  \/ RunReaped(s)

Next == Purge \/ Tick \/ \E s \in Session : Call(s)

Spec == Init /\ [][Next]_boxVars

-----------------------------------------------------------------------------
(* Safety.                                                                 *)

(* The claim that makes process_lifecycle refuse every other session's     *)
(* start (box_blocks_start) belongs to the head of the queue, whatever     *)
(* joins, leaves, sweeps, reaps and expiries happened since it was taken:  *)
(* a claim never outlives its ticket, and its ticket is never overtaken.   *)
ClaimedTicketIsHead ==
  \/ boxClaiming = NoSession /\ claimTicket = 0
  \/ HoldsClaim(claimTicket) /\ IsHead(boxQueue, claimTicket)

(* A ticket whose wait was cancelled, swept or lapsed is not queued again: *)
(* a tombstone and a live place in the FIFO exclude one another, which is  *)
(* what lets a late touch be answered box_wait_cancelled.                  *)
NotRevived == DOMAIN boxQueue \cap DOMAIN boxTombstones = {}

(* The tombstone table has no check of its own when tickets leave: only a  *)
(* join looks at MAX_OPERATION_TOMBSTONES.  What bounds it is that every   *)
(* tombstone was a queued ticket once, so the two tables together never    *)
(* hold more than the two capacities less one.                             *)
Footprint ==
  Cardinality(DOMAIN boxQueue \cup DOMAIN boxTombstones)
    <= MaxQueue + MaxTombstones - 1
=============================================================================
