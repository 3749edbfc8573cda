---------------------------- MODULE CommandQueue ----------------------------
(***************************************************************************)
(* The life of a command that needs the write lease, from enqueue_command  *)
(* to its result: the authority a lease gives it (authorize, reserve,      *)
(* commit, dispatch, finish; session_coordination.py), the queue of the    *)
(* game instance it goes to, the poll that delivers it, the result the     *)
(* game posts, its abandonment and the release of what it held             *)
(* (ServerState, loopback.py).                                             *)
(*                                                                         *)
(* Two locks: the queue's and the coordinator's condition.  One action is  *)
(* what a thread does between taking the queue lock and dropping it (the   *)
(* calls it makes of the coordinator under it are part of it), or one call *)
(* of the coordinator with neither lock held before.  The calls that       *)
(* _finish_operations and finish_operation_exact make after the queue lock *)
(* is dropped are actions of their own, remembered in finishing.           *)
(*                                                                         *)
(* Time is how far a command is past its deadlines (age); the TTL of the   *)
(* lease may have passed at any moment.  Game instances come one after   *)
(* the other; one that was replaced may still post what it ran, and so may *)
(* one that outlives its daemon, whose ids start again at 1.               *)
(*                                                                         *)
(* Left out: schemas, capabilities, version and profile gates, which       *)
(* refuse before anything changes; holds, camera paths and bot stops, which *)
(* keep books of their own; what a lease-end close is for (LeaseEnd);      *)
(* two processes behind one token; the legacy queue, which takes no        *)
(* command that needs a lease; peers: all commands here go to one.         *)
(*                                                                         *)
(* ClaimsAll, AnyPrefix, Unsealed, NobodysOwn, LoadOfQueue, PinnedBy and   *)
(* PinsAll are deliberate mistakes, used by no action: each is a bug one   *)
(* of the properties must notice.                                          *)
(***************************************************************************)
EXTENDS Naturals, FiniteSets, Sequences

CONSTANTS MaxCommand,    \* bound of the model: commands of one daemon
          MaxInstance,   \* bound of the model: game instances ever launched
          MaxLease,      \* bound of the model: leases ever granted
          MaxRestart,    \* bound of the model: restarts of the daemon
          MaxQueue,      \* MAX_QUEUE
          RetiredLimit,  \* RETIRED_INSTANCE_LIMIT
          Exec,          \* the commands that are exec_enforce
          Timed,         \* the commands enqueued with an operation timeout
          Fenced,        \* the commands whose caller sent expected_fence
          Releasable,    \* the commands with a registered release
          Retried        \* the commands whose result the game posts twice

Command == 1 .. MaxCommand
Instance == 1 .. MaxInstance
Lease == 1 .. MaxLease
None == 0

ASSUME CommandQueueAssumption ==
  /\ {MaxCommand, MaxInstance, MaxLease, MaxRestart, MaxQueue, RetiredLimit} \subseteq Nat
  /\ {Exec, Timed, Fenced, Releasable, Retried} \subseteq SUBSET Command

VARIABLES lease,      \* the coordinator's lease and what it authorizes
          call,       \* enqueue_command, one thread per command
          broker,     \* ServerState's queue and books
          peer,       \* the bound instance and the retired ones
          poll,       \* the poll of the bound instance
          wire,       \* results the game may still post
          finishing,  \* calls of the coordinator still to be made
          age,        \* 1: past the pin's deadline, 2: past the operation's
          fate,       \* what became of a command for its caller
          handed,     \* ghost: the deliveries of this daemon
          granted,    \* leases so far
          restarts

vars == <<lease, call, broker, peer, poll, wire, finishing, age, fate, handed,
          granted, restarts>>

(* The release of an abandoned command and the close of a lease have ids   *)
(* of their own.                                                           *)
Release(c) == MaxCommand + c
Close(l) == 2 * MaxCommand + l
Id == 1 .. 2 * MaxCommand + MaxLease
Closes == {Close(l) : l \in Lease}

NoLease == [active |-> None, releasing |-> None,
            pending |-> {}, committed |-> {}, pins |-> {}]
NewCall == [pc |-> "new", lease |-> None, expects |-> None, stale |-> FALSE]
Empty == [queue |-> <<>>, reserved |-> {}, row |-> [id \in Id |-> "none"],
          enqueued |-> {}, owner |-> {}, seal |-> [id \in Id |-> None],
          result |-> [id \in Id |-> "none"]]
NotPolling == [pc |-> "idle", snap |-> <<>>]

Init ==
  /\ lease = NoLease
  /\ call = [c \in Command |-> NewCall]
  /\ broker = Empty
  /\ peer = [bound |-> None, last |-> None, retired |-> {}]
  /\ poll = NotPolling
  /\ wire = {}
  /\ finishing = {}
  /\ age = [c \in Command |-> 0]
  /\ fate = [c \in Command |-> "none"]
  /\ handed = {}
  /\ granted = 0
  /\ restarts = 0

-----------------------------------------------------------------------------
(* Helpers.                                                                *)

Queued(b) == {b.queue[k] : k \in DOMAIN b.queue}
Without(q, S) ==
  LET Kept[k \in 0 .. Len(q)] ==
        IF k = 0 THEN <<>>
        ELSE IF q[k] \in S THEN Kept[k - 1] ELSE Append(Kept[k - 1], q[k])
  IN  Kept[Len(q)]

(* _peer_queue_len: what is queued, and what exec_enforce was promised.    *)
LoadOfQueue(b) == Len(b.queue)
Load(b) == Len(b.queue) + Cardinality(b.reserved)
Reserve(b, c) == [b EXCEPT !.reserved = @ \cup {c}]
Unreserve(b, c) == [b EXCEPT !.reserved = @ \ {c}]

(* _forget_command_tracking_locked.                                        *)
Forget(b, S) ==
  [b EXCEPT !.row = [id \in Id |-> IF id \in S THEN "none" ELSE @[id]],
            !.enqueued = @ \ S, !.owner = @ \ S,
            !.seal = [id \in Id |-> IF id \in S THEN None ELSE @[id]]]

(* _mark_discarded of all of S: a failed result, but none for a release or *)
(* a close.                                                                *)
Discard(b, S) ==
  [Forget(b, S) EXCEPT
     !.queue = Without(@, S),
     !.result = [id \in Id |-> IF id \in S \cap Command /\ @[id] = "none"
                               THEN "discarded" ELSE @[id]]]
NobodysOwn(b, S) == {}
Owned(b, S) == {id \in S \cap Command : id \in b.owner}

Bound(i) == peer.bound = i /\ i # None

(* effective_expiry: the lease outlives its TTL while a deadline of a      *)
(* reservation or of a pin has not passed.                                 *)
PinnedBy == lease.pins # {} \/ \E c \in lease.pending \cap Timed : age[c] = 0
Pinned == \E c \in (lease.pending \cap Timed) \cup lease.pins : age[c] = 0
Expirable == lease.active # None /\ ~Pinned

(* _exact_lease_locked.                                                    *)
Exact(c) == call[c].lease \in {lease.active, lease.releasing} \ {None}

-----------------------------------------------------------------------------
(* The lease, as far as commands see it (SessionLease has its own life).   *)

Grant ==
  /\ lease.active = None /\ lease.releasing = None
  /\ granted < MaxLease
  /\ granted' = granted + 1
  /\ lease' = [NoLease EXCEPT !.active = granted + 1]
  /\ UNCHANGED <<call, broker, peer, poll, wire, finishing, age, fate, handed, restarts>>

(* _release_active_locked, for a release (asked) or for an expiry found by *)
(* any call.                                                               *)
Retire(asked) ==
  /\ lease.active # None
  /\ asked \/ Expirable
  /\ lease' = [lease EXCEPT !.active = None, !.releasing = lease.active]
  /\ UNCHANGED <<call, broker, peer, poll, wire, finishing, age, fate, handed, granted, restarts>>

(* cleanup_owner: cancel_owner_pending, which also invalidates every       *)
(* exec_enforce whose audit is under way, whoever owns it; then the close  *)
(* of the lease (_publish_close_locked, which replaces one still queued    *)
(* and looks at no capacity), if there is one; then the lease is over.     *)
OwnedBy(l) == {c \in Queued(broker) \cap Command : c \in broker.owner /\ call[c].lease = l}
CleanUp ==
  /\ lease.releasing # None
  /\ LET b == Discard(broker, OwnedBy(lease.releasing))
         id == Close(lease.releasing)
     IN  \/ broker' = b
         \/ /\ peer.bound # None
            /\ broker' = [Discard(b, Closes \cap Queued(b)) EXCEPT
                 !.queue = Append(@, id), !.seal[id] = peer.bound,
                 !.enqueued = @ \cup {id}]
  /\ call' = [c \in Command |-> [call[c] EXCEPT !.stale = @ \/ call[c].pc = "auditing"]]
  /\ lease' = NoLease
  /\ UNCHANGED <<peer, poll, wire, finishing, age, fate, handed, granted, restarts>>

-----------------------------------------------------------------------------
(* enqueue_command.                                                        *)

(* authorize up to its audit, which drops the condition.                   *)
BeginAuthorize(c) ==
  /\ call[c].pc = "new"
  /\ lease.active # None
  /\ call' = [call EXCEPT ![c] = [pc |-> "authorizing", lease |-> lease.active,
                                  expects |-> IF c \in Fenced THEN peer.bound ELSE None,
                                  stale |-> FALSE]]
  /\ UNCHANGED <<lease, broker, peer, poll, wire, finishing, age, fate, handed, granted, restarts>>

Go(c, pc) == call' = [call EXCEPT ![c].pc = pc]
Ends(c, pc) == call' = [call EXCEPT ![c] = [NewCall EXCEPT !.pc = pc, !.lease = call[c].lease]]
Fate(c, what) == fate' = [fate EXCEPT ![c] = what]

Refuses(c) == Ends(c, "over") /\ Fate(c, "dropped")

(* The audit was written, and the lease is still the same one: its TTL     *)
(* starts again, and a reservation is made.                                *)
Authorize(c) ==
  /\ call[c].pc = "authorizing"
  /\ \/ /\ lease.active = call[c].lease
        /\ lease' = [lease EXCEPT !.pending = @ \cup {c}]
        /\ Go(c, "authorized") /\ UNCHANGED fate
     \/ Refuses(c) /\ UNCHANGED lease
  /\ UNCHANGED <<broker, peer, poll, wire, finishing, age, handed, granted, restarts>>

(* _binding_admission_locked, the part that compares what the caller saw.  *)
FenceHolds(c) == c \in Fenced => call[c].expects = peer.bound
Target == peer.bound # None

(* commit_authorization, called under the queue lock.                      *)
Committable(c) == lease.active = call[c].lease /\ c \in lease.pending
PinsAll(c) == [lease EXCEPT !.pending = @ \ {c}, !.committed = @ \cup {c}, !.pins = @ \cup {c}]
Commit(c) ==
  [lease EXCEPT !.pending = @ \ {c}, !.committed = @ \cup {c},
                !.pins = IF c \in Timed /\ age[c] = 0 THEN @ \cup {c} ELSE @]

(* The command joins the queue of the bound instance, sealed for it.       *)
Append2(b, id) ==
  [b EXCEPT !.queue = Append(@, id), !.row[id] = "queued", !.seal[id] = peer.bound,
            !.enqueued = @ \cup {id}, !.owner = @ \cup {id}]

Enqueues(c, b) ==
  /\ broker' = Append2(b, c)
  /\ lease' = Commit(c)
  /\ Ends(c, "over") /\ Fate(c, "accepted")
Aborts(c, b) ==
  /\ broker' = b
  /\ Go(c, "aborting") /\ UNCHANGED <<lease, fate>>

(* _publish_enqueue_locked: the fence is compared before the commit.       *)
Publish(c) ==
  /\ call[c].pc = "authorized" /\ c \notin Exec
  /\ \/ /\ Target /\ Load(broker) < MaxQueue /\ FenceHolds(c) /\ Committable(c)
        /\ Enqueues(c, broker)
     \/ /\ ~(Target /\ Load(broker) < MaxQueue /\ FenceHolds(c) /\ Committable(c))
        /\ Aborts(c, broker)
  /\ UNCHANGED <<peer, poll, wire, finishing, age, handed, granted, restarts>>

(* _enqueue_exec_enforce: a slot is reserved before its own audit ...      *)
ReserveExec(c) ==
  /\ call[c].pc = "authorized" /\ c \in Exec
  /\ IF Target /\ FenceHolds(c) /\ Load(broker) < MaxQueue
     THEN /\ broker' = Reserve(broker, c)
          /\ Go(c, "auditing") /\ UNCHANGED <<lease, fate>>
     ELSE Aborts(c, broker)
  /\ UNCHANGED <<peer, poll, wire, finishing, age, handed, granted, restarts>>

(* ... and given back after it.  Here the commit comes before the fence:   *)
(* a fence that no longer holds leaves a committed command that no queue   *)
(* has, and abort_reservation finds nothing to abort.                      *)
PublishExec(c) ==
  /\ call[c].pc = "auditing"
  /\ LET b == Unreserve(broker, c)
         ready == Target /\ ~call[c].stale /\ Load(b) < MaxQueue
     IN  \/ Aborts(c, b)                                \* the audit failed
         \/ ready /\ Committable(c) /\ FenceHolds(c) /\ Enqueues(c, b)
         \/ /\ ready /\ Committable(c) /\ ~FenceHolds(c)
            /\ broker' = b /\ lease' = Commit(c)
            /\ Ends(c, "stranded") /\ Fate(c, "dropped")
         \/ ~(ready /\ Committable(c)) /\ Aborts(c, b)
  /\ UNCHANGED <<peer, poll, wire, finishing, age, handed, granted, restarts>>

(* abort_reservation.                                                      *)
AbortReservation(c) ==
  /\ call[c].pc = "aborting"
  /\ lease' = IF Exact(c) THEN [lease EXCEPT !.pending = @ \ {c}] ELSE lease
  /\ Refuses(c)
  /\ UNCHANGED <<broker, peer, poll, wire, finishing, age, handed, granted, restarts>>

-----------------------------------------------------------------------------
(* The poll of the bound instance: reap, expiry of stale commands and a    *)
(* snapshot, the coordinator's expiry with the queue lock dropped, then    *)
(* the delivery of what the snapshot still shows.  A poll that finds       *)
(* nothing changes nothing.                                                *)

(* _expire_stale_commands: COMMAND_TTL_S is a matter of time, so any of    *)
(* the queued commands may have reached it.                                *)
BeginPoll ==
  /\ poll.pc = "idle" /\ peer.bound # None /\ broker.queue # <<>>
  /\ \A c \in Command : broker.row[c] # "none" => age[c] < 2
  /\ \E stale \in SUBSET Queued(broker) :
       LET b == Discard(broker, stale)
       IN  /\ broker' = b
           /\ finishing' = finishing \cup Owned(broker, stale)
           /\ poll' = IF b.queue = <<>> THEN NotPolling
                      ELSE [pc |-> "snapped", snap |-> b.queue]
  /\ UNCHANGED <<lease, call, peer, wire, age, fate, handed, granted, restarts>>

(* claim_dispatch; a release needs no lease (_cleanup_dispatch_locked).  A *)
(* close is delivered if its round still is the current one, which is the  *)
(* matter of LeaseEnd: either answer is possible here.                     *)
ClaimsAll(id) == TRUE
Claims(id) ==
  id \in Command => lease.active = call[id].lease /\ id \in lease.committed

(* The queue still starts with the snapshot, entry by entry.               *)
AnyPrefix(snap) == TRUE
StillThere(snap) ==
  /\ Len(snap) <= Len(broker.queue)
  /\ \A k \in DOMAIN snap : broker.queue[k] = snap[k]

(* What an instance took it answers, unless the poll's answer or its own   *)
(* is lost (then StoreResult never happens); a failed post of a result is  *)
(* sent once more, marked, and may overtake the first.                     *)
Answers(S, i) ==
  [id : S, from : {i}, retry : {FALSE}] \cup [id : S \cap Retried, from : {i}, retry : {TRUE}]

Deliver ==
  /\ poll.pc = "snapped"
  /\ IF ~StillThere(poll.snap)
     THEN /\ poll' = [poll EXCEPT !.snap = broker.queue]
          /\ UNCHANGED <<broker, wire, handed, finishing>>
     ELSE \E open \in SUBSET Closes :
          LET S == {poll.snap[k] : k \in DOMAIN poll.snap}
              out == {id \in S : Claims(id) /\ (id \in Closes => id \in open)}
              b == Discard(broker, S \ out)
          IN  /\ poll' = NotPolling
              /\ broker' = [b EXCEPT
                   !.queue = Without(@, out),
                   !.row = [id \in Id |-> IF id \in out /\ @[id] = "queued"
                                          THEN "delivered" ELSE @[id]]]
              /\ finishing' = finishing \cup Owned(broker, S \ out)
              /\ wire' = wire \cup Answers(out \ Closes, peer.bound)
              /\ handed' = handed \cup [id : out \cap Command, from : {peer.bound}]
  /\ UNCHANGED <<lease, call, peer, age, fate, granted, restarts>>

-----------------------------------------------------------------------------
(* store_result.                                                           *)
Unsealed(r) == FALSE
FencedOff(r) ==
  /\ broker.seal[r.id] # None
  /\ broker.seal[r.id] \in peer.retired \/ broker.seal[r.id] # r.from

Known(id) == id \in broker.enqueued
Duplicate(r) == r.retry /\ (broker.result[r.id] # "none" \/ ~Known(r.id))
Late(id) == id \in Command /\ age[id] = 2

(* What _results, _enqueued_at, _command_owner and the row lose when a     *)
(* result is not kept.                                                     *)
Drop(b, id) ==
  [b EXCEPT !.row[id] = "none", !.enqueued = @ \ {id}, !.owner = @ \ {id},
            !.result[id] = "none"]

StoreResult(r) ==
  /\ r \in wire
  /\ wire' = wire \ {r}
  /\ IF FencedOff(r) \/ Duplicate(r)
     THEN UNCHANGED <<broker, finishing>>
     ELSE /\ finishing' = finishing \cup Owned(broker, {r.id})
          /\ broker' = IF ~Known(r.id) \/ r.id \notin Command \/ Late(r.id)
                       THEN Drop(broker, r.id)
                       ELSE [broker EXCEPT !.row[r.id] = "none", !.result[r.id] = "stored"]
  /\ UNCHANGED <<lease, call, peer, poll, age, fate, handed, granted, restarts>>

(* discard_committed and finish_operation_exact.                           *)
FinishOperation(c) ==
  /\ c \in finishing
  /\ finishing' = finishing \ {c}
  /\ lease' = IF Exact(c) THEN [lease EXCEPT !.committed = @ \ {c}, !.pins = @ \ {c}]
              ELSE lease
  /\ UNCHANGED <<call, broker, peer, poll, wire, age, fate, handed, granted, restarts>>

-----------------------------------------------------------------------------
(* The caller's side: take_result with remove, and the abandonment of a    *)
(* command, by its caller or by the reaper once its deadline has passed.   *)

TakeResult(c) ==
  /\ broker.result[c] # "none"
  /\ broker' = Drop(broker, c)
  /\ finishing' = finishing \cup Owned(broker, {c})
  /\ Fate(c, IF broker.result[c] = "stored" THEN "ran" ELSE "dropped")
  /\ UNCHANGED <<lease, call, peer, poll, wire, age, handed, granted, restarts>>

(* _publish_release_locked: to the instance the command was sealed for, if *)
(* it is still the bound one and its queue has room.                       *)
MayRelease(c) ==
  c \in Releasable /\ Bound(broker.seal[c]) /\ Load(broker) < MaxQueue

(* _abandon_row_locked.                                                    *)
Unqueue(b, c) == [Forget(b, {c}) EXCEPT !.queue = Without(@, {c}), !.result[c] = "none"]
Abandon(c) ==
  /\ broker.row[c] # "none"
  /\ finishing' = finishing \cup {c}
  /\ \/ /\ broker.row[c] = "queued"
        /\ broker' = Unqueue(broker, c)
        /\ Fate(c, "dropped")
     \/ /\ broker.row[c] = "delivered"
        /\ broker' = IF MayRelease(c) THEN Append2(Forget(broker, {c}), Release(c))
                     ELSE Forget(broker, {c})
        /\ Fate(c, "ran")
  /\ UNCHANGED <<lease, call, peer, poll, wire, age, handed, granted, restarts>>

CallerAbandons(c) == fate[c] = "accepted" /\ Abandon(c)

(* reap_expired_commands, run by every poll, await and status call.        *)
Reap(c) == age[c] = 2 /\ Abandon(c)

(* The pin's deadline is counted from authorize, the operation's from the  *)
(* enqueue, so the pin's is over first.                                    *)
Age(c) ==
  /\ c \in Timed
  /\ \/ age[c] = 0 /\ (c \in lease.pending \cup lease.pins \/ Known(c))
     \/ age[c] = 1 /\ Known(c)
  /\ age' = [age EXCEPT ![c] = @ + 1]
  /\ UNCHANGED <<lease, call, broker, peer, poll, wire, finishing, fate, handed, granted, restarts>>

-----------------------------------------------------------------------------
(* Instances, and the daemon's restart.                                    *)

(* prepare and confirm, for a game that is launched.                       *)
Bind ==
  /\ peer.bound = None /\ peer.last < MaxInstance
  /\ peer' = [peer EXCEPT !.bound = peer.last + 1, !.last = peer.last + 1]
  /\ UNCHANGED <<lease, call, broker, poll, wire, finishing, age, fate, handed, granted, restarts>>

(* _retire_instance_locked: only the last RETIRED_INSTANCE_LIMIT retired   *)
(* instances are remembered.  The seal of a delivered command stays, and a *)
(* poll caught between its two halves finds no queue.                      *)
RetireInstance ==
  /\ peer.bound # None
  /\ peer' = [peer EXCEPT !.bound = None,
                          !.retired = {i \in @ \cup {peer.bound} :
                                         i + RetiredLimit > peer.bound}]
  /\ broker' = Discard(broker, Queued(broker))
  /\ finishing' = finishing \cup Owned(broker, Queued(broker))
  /\ poll' = NotPolling
  /\ UNCHANGED <<lease, call, wire, age, fate, handed, granted, restarts>>

(* The books of ServerState are in memory only; the game goes on.          *)
Restart ==
  /\ restarts < MaxRestart /\ granted \in 1 .. MaxLease - 1
  /\ restarts' = restarts + 1
  /\ lease' = NoLease
  /\ call' = [c \in Command |-> NewCall]
  /\ broker' = Empty
  /\ peer' = [peer EXCEPT !.bound = None, !.retired = {}]
  /\ poll' = NotPolling
  /\ finishing' = {}
  /\ age' = [c \in Command |-> 0]
  /\ fate' = [c \in Command |-> "none"]
  /\ handed' = {}
  /\ UNCHANGED <<wire, granted>>

-----------------------------------------------------------------------------
CallStep(c) ==
  Authorize(c) \/ Publish(c) \/ ReserveExec(c) \/ PublishExec(c) \/ AbortReservation(c)

Next ==
  \/ Grant \/ CleanUp \/ (\E asked \in BOOLEAN : Retire(asked))
  \/ \E c \in Command :
       \/ BeginAuthorize(c) \/ CallStep(c) \/ FinishOperation(c)
       \/ TakeResult(c) \/ CallerAbandons(c) \/ Reap(c) \/ Age(c)
  \/ BeginPoll \/ Deliver
  \/ \E r \in wire : StoreResult(r)
  \/ Bind \/ RetireInstance \/ Restart

Spec == Init /\ [][Next]_vars

(* A call that started goes on, and time passes.  Nothing in the daemon    *)
(* runs the reaper and the expiry by itself: that somebody calls is what   *)
(* the fairness of Reap and Retire assumes (any poll, await or status call *)
(* for the first; any session call, enqueue or poll for the second).  No   *)
(* instance has to poll or to answer.                                      *)
FairSpec ==
  /\ Spec
  /\ \A c \in Command :
       /\ WF_vars(CallStep(c)) /\ WF_vars(FinishOperation(c))
       /\ WF_vars(Reap(c)) /\ WF_vars(Age(c))
  /\ WF_vars(Retire(FALSE)) /\ WF_vars(CleanUp)

-----------------------------------------------------------------------------
Delivery == [id : Id, from : Instance]

QueueTypeOK ==
  /\ lease \in [active : Lease \cup {None}, releasing : Lease \cup {None}, 
                pending : SUBSET Command, committed : SUBSET Command, pins : SUBSET Timed]
  /\ call \in [Command -> [pc : {"new", "authorizing", "authorized", "auditing",
                                 "aborting", "stranded", "over"},
                           lease : Lease \cup {None}, expects : Instance \cup {None},
                           stale : BOOLEAN]]
  /\ broker \in [queue : Seq(Id), reserved : SUBSET Exec,
                 row : [Id -> {"none", "queued", "delivered"}],
                 enqueued : SUBSET Id, owner : SUBSET Id,
                 seal : [Id -> Instance \cup {None}],
                 result : [Id -> {"none", "stored", "discarded"}]]
  /\ peer \in [bound : Instance \cup {None}, last : Instance \cup {None},
               retired : SUBSET Instance]
  /\ poll \in [pc : {"idle", "snapped"}, snap : Seq(Id)]
  /\ handed \subseteq Delivery
  /\ wire \subseteq [id : Id, from : Instance, retry : BOOLEAN]
  /\ finishing \subseteq Command
  /\ age \in [Command -> 0 .. 2]
  /\ fate \in [Command -> {"none", "accepted", "dropped", "ran"}]
  /\ granted \in 0 .. MaxLease /\ restarts \in 0 .. MaxRestart

HandedOut(c) == \E d \in handed : d.id = c

(* What a lease still authorizes is a command somebody will close: it is   *)
(* queued, delivered, or its finish is on its way, so that no forgotten    *)
(* command pins the lease past its TTL.  The one exception is the          *)
(* exec_enforce refused by a late fence, after its commit (PublishExec).   *)
CommittedIsTracked ==
  \A c \in lease.committed \cup lease.pins :
    broker.row[c] # "none" \/ c \in finishing \/ call[c].pc = "stranded"

(* A command reported as dropped or discarded never reached a game, and    *)
(* one that did is never reported so, whatever the poll that was between   *)
(* its snapshot and its delivery had seen.                                 *)
DroppedNeverRan ==
  \A c \in Command :
    fate[c] = "dropped" \/ broker.result[c] = "discarded"
      => ~HandedOut(c)

(* No queue holds more than MAX_QUEUE commands, what exec_enforce was      *)
(* promised included; only the close of a lease may come on top.           *)
RoomKept == Len(Without(broker.queue, Closes)) + Cardinality(broker.reserved) <= MaxQueue

(* A command goes to the game only while the very lease it was authorized  *)
(* under is active: not while that lease ends, nor under the next one.     *)
DeliveredUnderLease ==
  [][\A d \in handed' \ handed : d.id \in Command => lease.active = call[d.id].lease]_vars

(* The result a caller gets comes from an instance that this daemon handed *)
(* the command to: not from one that answers a command of the same number  *)
(* of the daemon before.                                                   *)
AnswerFromReceiver ==
  [][\A c \in Command :
       broker'.result[c] = "stored" /\ broker.result[c] # "stored"
         => \E r \in wire \ wire' : r.id = c /\ [id |-> c, from |-> r.from] \in handed]_vars

(* Silence keeps nothing: a command with a deadline leaves the books,      *)
(* whether the game answers or not, and a client that falls silent loses   *)
(* its lease: no reservation, pin or unfinished command keeps it past the  *)
(* deadlines.                                                              *)
SilenceEnds ==
  /\ \A c \in Timed : broker.row[c] # "none" ~> broker.row[c] = "none"
  /\ \A l \in Lease : lease.active = l ~> lease.active # l
=============================================================================
