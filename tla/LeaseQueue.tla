----------------------------- MODULE LeaseQueue -----------------------------
(***************************************************************************)
(* Who gets the write lease next: the queue of tickets of                  *)
(* SessionCoordinator (session_coordination.py), its reservations, its     *)
(* blocking waits, the tombstones of cancelled operations and the grace in *)
(* which the owner of an expired lease may come back before the others.    *)
(*                                                                         *)
(* Every method holds the coordinator's condition, and drops it around an  *)
(* audit, a WAL step or a wait.  One action here is what a thread does     *)
(* between two such points.  How a grant is written to disk is the matter  *)
(* of SessionLease; here it has two stages, the audits that come before    *)
(* the lease is active (granting, claiming) and the WAL that is finished   *)
(* afterwards (publishing), and it is taken back when the revision the     *)
(* stage captured has moved (disturbed).  No I/O fails here, yet a grant   *)
(* that is taken back may leave a fault, and a cleanup may end unsafe.     *)
(*                                                                         *)
(* A ticket and the lease it becomes are one thing, a claim: the call that *)
(* asked, and the operation it asked for, if any.  Time is when a ticket,  *)
(* a tombstone, a lease or a grace runs out; a ticket does not while a     *)
(* wait blocks on it, WAIT_MAX_S being shorter than SESSION_TTL_S.         *)
(*                                                                         *)
(* Left out: identity collisions, the box's own claim on admission, admin  *)
(* calls.                                                                  *)
(*                                                                         *)
(* OnlyQueue, CountsOn, UsedNever, AnyPlace, NotInQueue and NeverBack are  *)
(* deliberate mistakes, used by no action: each is a bug one of the        *)
(* properties must notice.                                                 *)
(***************************************************************************)
EXTENDS Naturals, FiniteSets, SequencesExt

CONSTANTS Client,
          Thread,     \* request threads
          Of,         \* the client each thread answers
          MaxQueue,   \* MAX_SESSION_QUEUE
          MaxTomb,    \* MAX_OPERATION_TOMBSTONES
          MaxWaits,   \* SESSION_WAIT_MAX_IN_FLIGHT
          MaxPref,    \* MAX_PREF_RENEWALS
          Plain,      \* whether clients may also ask without an operation
          Faithful    \* clients that wait again in time and cancel nothing

ASSUME QueueAssumption ==
  /\ Of \in [Thread -> Client]
  /\ {MaxQueue, MaxTomb, MaxWaits, MaxPref} \subseteq Nat
  /\ Plain \in BOOLEAN
  /\ Faithful \subseteq Client
  /\ "nobody" \notin Client \cup Thread

(* An operation id of a client, or none.                                   *)
Op == {"op"} \cup (IF Plain THEN {"none"} ELSE {})
Claim == [by : Thread, op : Op]
Nothing == [by |-> "nobody", op |-> "none"]
Nobody == "nobody"

VARIABLES queue,      \* _queue
          reserved,   \* _queue_reservations
          slot,       \* _active, _grant_inflight, _releasing, _handoff_pending, _audit_fault
          tomb,       \* clients whose operation has a tombstone
          grace,      \* the former owner of _expiry_grace
          used,       \* _pref_used
          job,        \* what each thread is doing, and for which claim
          taken,      \* ghost: claims whose cancel was answered with success
          streak      \* ghost: grants in a row to one client past the same tickets, and
                      \*   whether a grace ran out late among them

vars == <<queue, reserved, slot, tomb, grace, used, job, taken, streak>>

Idle == [pc |-> "idle", claim |-> Nothing, fifo |-> FALSE]

Init ==
  /\ queue = <<>> /\ reserved = <<>>
  /\ slot = [active |-> Nothing, inflight |-> Nothing, releasing |-> Nothing,
             handoff |-> FALSE, disturbed |-> FALSE, fault |-> FALSE]
  /\ tomb = {}
  /\ grace = Nobody
  /\ used = [c \in Client |-> 0]
  /\ job = [t \in Thread |-> Idle]
  /\ taken = {}
  /\ streak = [client |-> Nobody, length |-> 0, past |-> {}, late |-> FALSE]

-----------------------------------------------------------------------------
(* Helpers.                                                                *)

Whose(k) == IF k = Nothing THEN Nobody ELSE Of[k.by]
(* A sequence without its entry k, which it holds at most once.            *)
Without(s, k) ==
  IF k \in ToSet(s) THEN RemoveAt(s, CHOOSE i \in DOMAIN s : s[i] = k) ELSE s
Waiting(s, c) == \E k \in ToSet(s) : Whose(k) = c
Pc(t) == job[t].pc
Go(t, pc, k, fifo) == job' = [job EXCEPT ![t] = [pc |-> pc, claim |-> k, fifo |-> fifo]]
Done(t) == job' = [job EXCEPT ![t] = Idle]

(* _bump_revision_locked, as far as a grant in flight is concerned.        *)
Bump(s) == [s EXCEPT !.disturbed = s.inflight # Nothing]

Cancelled(k) == k.op = "op" /\ Whose(k) \in tomb

SlotIdle ==
  /\ slot.active = Nothing /\ slot.inflight = Nothing /\ slot.releasing = Nothing
  /\ ~slot.handoff /\ ~slot.fault

(* A latched audit fault refuses acquire, enqueue and wait; the recovery   *)
(* fault of a lifecycle, whose lease stays in _releasing, does not.        *)
Barred == slot.fault /\ slot.releasing = Nothing

(* _queue_capacity_locked.                                                 *)
OnlyQueue == Len(queue)
Capacity == Len(queue) + Len(reserved)

Busy == queue # <<>> \/ reserved # <<>>

(* _preferential_reacquire_locked and _grace_blocks_stranger_locked.       *)
Preferred(c) == grace = c /\ ~(Busy /\ used[c] >= MaxPref)
Blocks(c) == grace \notin {Nobody, c}

(* The ticket of a grant in flight that still stands in the queue.         *)
InGrant(k) == slot.inflight = k /\ \E t \in Thread : Pc(t) = "claiming" /\ job[t].claim = k

(* _operation_state_locked and _client_has_other_operation_locked: claims  *)
(* of the client that this call meets.                                     *)
Claims(c) ==
  {k \in ToSet(queue) \cup ToSet(reserved) \cup {slot.active, slot.inflight} : Whose(k) = c}
Known(c) == \E k \in Claims(c) : k.op = "op"
Other(c) == \E k \in Claims(c) \cup ({slot.releasing} \ {Nothing}) : Whose(k) = c /\ k.op # "op"

Admitted(c) ==
  /\ ~Known(c) /\ c \notin tomb /\ ~Other(c)
  /\ Cardinality(tomb) < MaxTomb \/ Whose(slot.active) = c

(* _consume_expiry_grace_locked.  Only whether used has reached MaxPref is *)
(* ever asked.                                                             *)
CountsOn(c) ==
  /\ grace' = Nobody
  /\ used' = IF grace # c THEN [d \in Client |-> 0] ELSE [used EXCEPT ![c] = @ + 1]
UsedNever(c) == grace' = Nobody /\ UNCHANGED used
Consume(c) ==
  /\ grace' = Nobody
  /\ used' = IF grace # c THEN [d \in Client |-> 0]
             ELSE [used EXCEPT ![c] =
                     IF \E k \in ToSet(queue) \cup ToSet(reserved) : Whose(k) # c
                     THEN Min({@ + 1, MaxPref}) ELSE 0]

(* The tickets that have stood in the queue through all of these grants.   *)
Passed(c) == {k \in ToSet(queue) : Whose(k) # c}
Streak(c) ==
  streak' = IF streak.client = c /\ streak.past \cap Passed(c) # {}
            THEN [streak EXCEPT !.length = Min({streak.length + 1, MaxPref + 2}),
                                !.past = @ \cap Passed(c)]
            ELSE [client |-> c, length |-> 1, past |-> Passed(c), late |-> FALSE]
New(k) ==
  /\ taken' = taken \ {k}
  /\ streak' = [streak EXCEPT !.past = @ \ {k}]

-----------------------------------------------------------------------------
(* acquire and enqueue.                                                    *)

(* A ticket is reserved, or the answer is 429.                             *)
Reserves(t, k, pc) ==
  IF Capacity < MaxQueue
  THEN reserved' = Append(reserved, k) /\ Go(t, pc, k, FALSE)
  ELSE Done(t) /\ UNCHANGED reserved

(* acquire, once it has looked at what the client already has: the lease   *)
(* at once, or a ticket.                                                   *)
Decide(t, k) ==
  IF SlotIdle /\ (Preferred(Of[t]) \/ (~Busy /\ ~Blocks(Of[t])))
  THEN /\ slot' = [slot EXCEPT !.inflight = k, !.disturbed = FALSE]
       /\ Go(t, "granting", k, FALSE)
       /\ UNCHANGED reserved
  ELSE Reserves(t, k, "queueing") /\ UNCHANGED slot

(* A client that has something already gets it, or is refused: nothing     *)
(* changes.  The former owner of a lease still in its cleanup waits for    *)
(* the end of it, if it is preferred.                                      *)
Acquire(t, op) ==
  /\ Pc(t) = "idle" /\ ~Barred
  /\ op = "op" => Admitted(Of[t])
  /\ Claims(Of[t]) = {}
  /\ LET k == [by |-> t, op |-> op]
     IN  /\ New(k)
         /\ IF Whose(slot.releasing) = Of[t]
            THEN Preferred(Of[t]) /\ Go(t, "await", k, FALSE) /\ UNCHANGED <<reserved, slot>>
            ELSE Decide(t, k)
  /\ UNCHANGED <<queue, tomb, grace, used>>

(* The wait ends with the slot idle, the preference gone, or the time.     *)
(* What the client has by now, another thread of its own may have given    *)
(* it, is not looked at again, nor is the operation's tombstone.           *)
AwaitOver(t) ==
  /\ Pc(t) = "await"
  /\ IF Whose(slot.releasing) = Of[t] THEN Done(t) /\ UNCHANGED <<reserved, slot>>
     ELSE Decide(t, job[t].claim)
  /\ UNCHANGED <<queue, tomb, grace, used, taken, streak>>

(* enqueue always takes a ticket.                                          *)
Enqueue(t) ==
  /\ Pc(t) = "idle" /\ ~Barred
  /\ Admitted(Of[t])
  /\ Capacity < MaxQueue
  /\ LET k == [by |-> t, op |-> "op"]
     IN  Reserves(t, k, "enqueueing") /\ New(k)
  /\ UNCHANGED <<queue, slot, tomb, grace, used>>

(* The audits are written and every earlier reservation has gone: the      *)
(* ticket joins the queue, unless it was cancelled.  acquire also looks    *)
(* for another ticket of the client and for room, enqueue for a tombstone. *)
FirstReserved(t) == reserved # <<>> /\ Head(reserved) = job[t].claim
JoinQueue(t) ==
  /\ Pc(t) \in {"queueing", "enqueueing"}
  /\ job[t].claim \in ToSet(reserved) => FirstReserved(t)
  /\ LET k == job[t].claim
         fits == IF Pc(t) = "queueing" THEN ~Waiting(queue, Of[t]) /\ Len(queue) < MaxQueue
                 ELSE ~Cancelled(k)
     IN  /\ reserved' = Without(reserved, k)
         /\ IF k \in ToSet(reserved) /\ fits
            THEN queue' = Append(queue, k) /\ slot' = Bump(slot)
            ELSE UNCHANGED <<queue, slot>>
  /\ Done(t)
  /\ UNCHANGED <<tomb, grace, used, taken, streak>>

(* An audit of the ticket fails.                                           *)
ReservationFails(t) ==
  /\ Pc(t) \in {"queueing", "enqueueing"}
  /\ reserved' = Without(reserved, job[t].claim)
  /\ Done(t)
  /\ UNCHANGED <<queue, slot, tomb, grace, used, taken, streak>>

-----------------------------------------------------------------------------
(* The grant, direct or from a wait.                                       *)

(* wait: nobody else may block on this ticket, and only so many at all.    *)
Blocking == {job[t].claim : t \in {u \in Thread : Pc(u) = "waiting"}}
Wait(t, k) ==
  /\ Pc(t) = "idle" /\ ~Barred
  /\ Whose(k) = Of[t] /\ k \in ToSet(queue)
  /\ k \notin Blocking /\ Cardinality(Blocking) < MaxWaits
  /\ Go(t, "waiting", k, FALSE)
  /\ UNCHANGED <<queue, reserved, slot, tomb, grace, used, taken, streak>>

AnyPlace(k) == k \in ToSet(queue) /\ SlotIdle
CanClaim(k) ==
  /\ k \in ToSet(queue) /\ SlotIdle
  /\ (Head(queue) = k /\ ~Blocks(Whose(k))) \/ Preferred(Whose(k))

(* A preferred ticket is first moved to the head.                          *)
WaitClaims(t) ==
  /\ Pc(t) = "waiting"
  /\ LET k == job[t].claim
     IN  /\ CanClaim(k)
         /\ queue' = <<k>> \o Without(queue, k)
         /\ slot' = [slot EXCEPT !.inflight = k, !.disturbed = FALSE]
         /\ Go(t, "claiming", k, TRUE)
  /\ UNCHANGED <<reserved, tomb, grace, used, taken, streak>>

WaitReturns(t) ==
  /\ Pc(t) = "waiting"
  /\ ~CanClaim(job[t].claim)
  /\ Done(t)
  /\ UNCHANGED <<queue, reserved, slot, tomb, grace, used, taken, streak>>

(* The audit gate is busy, or the WAL cannot be armed: a direct grant that *)
(* only found the gate busy takes a ticket instead.                        *)
GrantRefused(t) ==
  /\ Pc(t) \in {"granting", "claiming"}
  /\ slot' = [slot EXCEPT !.inflight = Nothing, !.disturbed = FALSE]
  /\ \/ Done(t) /\ UNCHANGED reserved
     \/ Pc(t) = "granting" /\ Reserves(t, job[t].claim, "queueing")
  /\ UNCHANGED <<queue, tomb, grace, used, taken, streak>>

(* The lease never was, or no longer is, active; a ticket that is not in   *)
(* the queue heads it again, unless its operation was cancelled            *)
(* (_compensate_provisional_grant_locked).  Its WAL has come to completed  *)
(* and takes no failure, or is disturbed while it is finished: a fault.    *)
NotInQueue(k) == k \notin ToSet(queue)
NeverBack(k) == FALSE
Requeued(k) == k \notin ToSet(queue) /\ ~Cancelled(k)
TakeBack(t) ==
  LET k == job[t].claim
  IN  /\ \E fault \in BOOLEAN :
           slot' = [slot EXCEPT !.active = Nothing, !.inflight = Nothing, !.disturbed = FALSE,
                                !.fault = fault]
      /\ queue' = IF job[t].fifo /\ Requeued(k) THEN <<k>> \o queue ELSE queue
      /\ Done(t)
      /\ UNCHANGED <<reserved, tomb, grace, used, taken, streak>>

(* state_is_exact for a ticket, the finish fence for a direct grant.       *)
Exact(t) ==
  LET k == job[t].claim
  IN  /\ ~Cancelled(k)
      /\ IF job[t].fifo THEN queue # <<>> /\ Head(queue) = k ELSE ~slot.disturbed

Publish(t) ==
  /\ Pc(t) \in {"granting", "claiming"} /\ Exact(t)
  /\ slot' = [slot EXCEPT !.active = job[t].claim, !.disturbed = FALSE]
  /\ queue' = IF job[t].fifo THEN Tail(queue) ELSE queue
  /\ Go(t, "publishing", job[t].claim, job[t].fifo)
  /\ UNCHANGED <<reserved, tomb, grace, used, taken, streak>>

NotExact(t) ==
  /\ Pc(t) \in {"granting", "claiming"} /\ ~Exact(t)
  /\ TakeBack(t)

(* The WAL is finished and nothing moved: the token is given out.          *)
Settle(t) ==
  /\ Pc(t) = "publishing" /\ ~slot.disturbed
  /\ slot' = [slot EXCEPT !.inflight = Nothing]
  /\ Consume(Whose(job[t].claim)) /\ Streak(Whose(job[t].claim))
  /\ Done(t)
  /\ UNCHANGED <<queue, reserved, tomb, taken>>

Compensate(t) ==
  /\ Pc(t) = "publishing" /\ slot.disturbed
  /\ TakeBack(t)

-----------------------------------------------------------------------------
(* The end of a lease.                                                     *)

Settled == slot.active # Nothing /\ slot.inflight = Nothing

(* _release_active_locked, then its cleanup and its handoff.               *)
Retire == slot' = [slot EXCEPT !.active = Nothing, !.releasing = slot.active]

Release ==
  /\ Settled
  /\ Retire
  /\ UNCHANGED <<queue, reserved, tomb, grace, used, job, taken, streak>>

(* _arm_expiry_grace_locked: only for an owner with a run attached, and    *)
(* not while others wait and it has used its preference up.                *)
MayReturn(c) == ~(Busy /\ used[c] >= MaxPref)
Expire(attached) ==
  /\ Settled
  /\ Retire
  /\ grace' = IF attached /\ MayReturn(Whose(slot.active)) THEN Whose(slot.active) ELSE grace
  /\ UNCHANGED <<queue, reserved, tomb, used, job, taken, streak>>

CleanedUp ==
  /\ slot.releasing # Nothing /\ ~slot.fault
  /\ slot' = [slot EXCEPT !.releasing = Nothing, !.handoff = TRUE]
  /\ UNCHANGED <<queue, reserved, tomb, grace, used, job, taken, streak>>

(* A lifecycle with no safe end leaves its lease in _releasing, behind the *)
(* recovery fault it armed.                                                *)
EndsUnsafe ==
  /\ slot.releasing # Nothing /\ ~slot.fault
  /\ slot' = [slot EXCEPT !.fault = TRUE]
  /\ UNCHANGED <<queue, reserved, tomb, grace, used, job, taken, streak>>

(* An operator repairs either fault.                                       *)
Repair ==
  /\ slot.fault
  /\ slot' = [slot EXCEPT !.fault = FALSE, !.releasing = Nothing, !.handoff = ~Barred]
  /\ UNCHANGED <<queue, reserved, tomb, grace, used, job, taken, streak>>

HandedOff ==
  /\ slot.handoff
  /\ slot' = [slot EXCEPT !.handoff = FALSE]
  /\ UNCHANGED <<queue, reserved, tomb, grace, used, job, taken, streak>>

-----------------------------------------------------------------------------
(* Cancelling, and time.                                                   *)

(* The first ticket of the client that has an operation.                   *)
First(s, c) ==
  LET mine == {i \in DOMAIN s : Whose(s[i]) = c /\ s[i].op = "op"}
  IN  IF mine = {} THEN Nothing ELSE s[CHOOSE i \in mine : \A j \in mine : i <= j]

(* cancel_operation: the tombstone, then the ticket, wherever it stands.   *)
(* A grant in flight finds the tombstone by itself, an active lease is     *)
(* released.                                                               *)
CancelOperation(c) ==
  /\ c \notin Faithful
  /\ \/ c \in tomb \/ Cardinality(tomb) < MaxTomb
     \/ Known(c) \/ Whose(slot.active) = c
  /\ tomb' = tomb \cup {c}
  /\ LET r == First(reserved, c)
         q == IF r = Nothing THEN First(queue, c) ELSE Nothing
         mine == slot.active.op = "op" /\ Whose(slot.active) = c
     IN  /\ reserved' = Without(reserved, r) /\ queue' = Without(queue, q)
         /\ taken' = taken \cup ({r, q} \ {Nothing})
         /\ IF mine /\ slot.inflight = Nothing THEN Retire ELSE slot' = Bump(slot)
  /\ UNCHANGED <<grace, used, job, streak>>

(* cancel of a ticket that has no operation.                               *)
CancelTicket(k) ==
  /\ k.op = "none" /\ Whose(k) \notin Faithful
  /\ k \in ToSet(queue) \cup ToSet(reserved)
  /\ queue' = Without(queue, k) /\ reserved' = Without(reserved, k)
  /\ slot' = Bump(slot)
  /\ taken' = taken \cup {k}
  /\ UNCHANGED <<tomb, grace, used, job, streak>>

(* Time bound of the model: no tombstone runs out under the call whose     *)
(* operation it cancelled.                                                 *)
TombstoneExpires(c) ==
  /\ c \in tomb
  /\ \A t \in Thread : Pc(t) # "idle" => Whose(job[t].claim) # c
  /\ tomb' = tomb \ {c}
  /\ slot' = Bump(slot)
  /\ UNCHANGED <<queue, reserved, grace, used, job, taken, streak>>

(* _remove_expired_tickets_locked.                                         *)
TicketExpires(k) ==
  /\ k \in ToSet(queue) \ Blocking /\ ~InGrant(k)
  /\ Whose(k) \notin Faithful
  /\ queue' = Without(queue, k)
  /\ slot' = Bump(slot)
  /\ UNCHANGED <<reserved, tomb, grace, used, job, taken, streak>>

(* The grace ends with its time, and may end late: when its owner is on    *)
(* the way back and has overtaken a ticket of the streak already, in       *)
(* flight or in the queue.                                                 *)
Before(s, k, l) == \E i, j \in DOMAIN s : i < j /\ s[i] = k /\ s[j] = l
Returning(c) ==
  \E l \in streak.past \cap ToSet(queue) :
    Whose(slot.inflight) = c \/ \E k \in ToSet(queue) : Whose(k) = c /\ Before(queue, k, l)

GraceEnds ==
  /\ grace # Nobody
  /\ grace' = Nobody
  /\ streak' = [streak EXCEPT !.late = @ \/ Returning(grace)]
  /\ UNCHANGED <<queue, reserved, slot, tomb, used, job, taken>>

-----------------------------------------------------------------------------
ThreadStep(t) ==
  AwaitOver(t) \/ JoinQueue(t) \/ WaitClaims(t) \/ NotExact(t) \/ Compensate(t)

Next ==
  \/ \E t \in Thread :
       \/ (\E op \in Op : Acquire(t, op)) \/ Enqueue(t) \/ ReservationFails(t)
       \/ (\E k \in ToSet(queue) : Wait(t, k)) \/ WaitReturns(t)
       \/ GrantRefused(t) \/ Publish(t) \/ Settle(t) \/ ThreadStep(t)
  \/ Release \/ (\E attached \in BOOLEAN : Expire(attached))
  \/ CleanedUp \/ EndsUnsafe \/ Repair \/ HandedOff
  \/ \E c \in Client : CancelOperation(c) \/ TombstoneExpires(c)
  \/ \E k \in Claim : CancelTicket(k) \/ TicketExpires(k)
  \/ GraceEnds

Spec == Init /\ [][Next]_vars

(* A thread that started goes on, tickets and graces run out, no owner     *)
(* keeps its lease alive forever, the cleanup ends in one way or another,  *)
(* its handoff ends, and a faithful client waits again whenever its wait   *)
(* returned.  That a grant is not refused, nor its WAL disturbed by        *)
(* another call, every single time is strong fairness: neither is under    *)
(* anybody's control.  A tombstone runs out also under a client that keeps *)
(* on asking, which the bound on TombstoneExpires only puts off.  No       *)
(* operator has to repair anything.                                        *)
FairSpec ==
  /\ Spec
  /\ \A t \in Thread :
       /\ WF_vars(ThreadStep(t)) /\ WF_vars(WaitReturns(t))
       /\ SF_vars(Publish(t)) /\ SF_vars(Settle(t))
       /\ WF_vars(Of[t] \in Faithful /\ \E k \in ToSet(queue) : Wait(t, k))
  /\ \A k \in Claim : WF_vars(TicketExpires(k))
  /\ WF_vars(Expire(FALSE) \/ Expire(TRUE)) /\ WF_vars(CleanedUp \/ EndsUnsafe)
  /\ WF_vars(HandedOff) /\ WF_vars(GraceEnds)
  /\ \A c \in Client : SF_vars(TombstoneExpires(c))

-----------------------------------------------------------------------------
ClaimOrNothing == Claim \cup {Nothing}

TypeOK ==
  /\ queue \in Seq(Claim) /\ IsInjective(queue)
  /\ reserved \in Seq(Claim) /\ IsInjective(reserved)
  /\ slot \in [active : ClaimOrNothing, inflight : ClaimOrNothing,
               releasing : ClaimOrNothing, handoff : BOOLEAN, disturbed : BOOLEAN,
               fault : BOOLEAN]
  /\ tomb \subseteq Client
  /\ grace \in Client \cup {Nobody}
  /\ used \in [Client -> 0 .. MaxPref]
  /\ job \in [Thread -> [pc : {"idle", "await", "queueing", "enqueueing", "waiting",
                               "granting", "claiming", "publishing"},
                         claim : ClaimOrNothing, fifo : BOOLEAN]]
  /\ taken \subseteq Claim
  /\ streak \in [client : Client \cup {Nobody}, length : 0 .. MaxPref + 2,
                 past : SUBSET Claim, late : BOOLEAN]

(* A claim whose cancel was answered never stands in the queue again, nor  *)
(* is its token given out: not by the compensation of the grant it was     *)
(* cancelled under, nor by the call that was still on its way.  Nor is any *)
(* lease given out while its operation has a tombstone.                    *)
CancelHolds ==
  /\ \A k \in taken : k \notin ToSet(queue)
  /\ Settled => slot.active \notin taken /\ ~Cancelled(slot.active)

(* The queue holds at most one ticket more than its capacity: the one of a *)
(* grant that was taken back.                                              *)
RoomKept == Len(queue) + Len(reserved) <= MaxQueue + 1

(* Past a client that waits in the queue another gets the lease again at   *)
(* most MAX_PREF_RENEWALS times, unless the grace ran out under it when it *)
(* had overtaken already: then _purge_expiry_grace_locked ends it, and     *)
(* _consume_expiry_grace_locked forgets the count.                         *)
PreferenceBounded == streak.past # {} /\ ~streak.late => streak.length <= MaxPref + 1

(* Tickets join the queue in the order in which they were reserved, and    *)
(* one that stands there falls behind another only for the owner whose     *)
(* lease expired, within its grace, or for a grant that is taken back.     *)
OrderKept ==
  [][/\ \A k \in ToSet(reserved) :
          k \in ToSet(queue') \ ToSet(queue) => Head(reserved) = k
     /\ \A k \in ToSet(queue), l \in ToSet(queue) :
          Before(queue, k, l) /\ Before(queue', l, k) => Whose(l) = grace]_vars

(* A client that keeps waiting gets the lease, however often the others    *)
(* come back, cancel, disturb its grant or let their leases expire: unless *)
(* a fault is left for an operator, or a grace ran out late, as it may     *)
(* each time.                                                              *)
Served ==
  \A c \in Faithful :
    Waiting(queue, c) ~> (Settled /\ Whose(slot.active) = c) \/ slot.fault \/ streak.late
=============================================================================
