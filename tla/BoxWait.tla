------------------------------- MODULE BoxWait -------------------------------
(***************************************************************************)
(* The waits for the game box: execute_wait_for_box and the launch of      *)
(* dayz_test_run around it (server.py), against the box FIFO of the daemon *)
(* (BoxQueue) and the runs that occupy the box (process_lifecycle.py).     *)
(*                                                                         *)
(* A wait is a client of the daemon over HTTP: each request is one action  *)
(* with the daemon's answer, unless the daemon never got it (dropped) or   *)
(* its answer was lost (unseen); the client cannot tell the two apart      *)
(* (daemon_response_ambiguous).  A request that certainly never went out   *)
(* (daemon_unavailable) changes nothing and is left out.  Waits of one     *)
(* session share its tool_lock, which a launch holds from end to end.      *)
(*                                                                         *)
(* EndsInSilence, ForgetsTicket, KeepsDead and NumbersRefusal are          *)
(* deliberate mistakes, used by no action: bugs the properties notice.     *)
(***************************************************************************)
EXTENDS BoxQueue

CONSTANTS Wait,        \* the calls that wait for the box
          SessionOf,   \* the session each of them belongs to
          MaxLost,     \* bound of the model: requests dropped or unseen
          Again,       \* whether a wait that ended may be followed by another
          Barging,     \* whether a session that does not wait may start a run
          Prompt       \* whether every wait polls within its ticket's TTL, as
                       \* BOX_WAIT_POLL_S and BOX_CLAIM_HEARTBEAT_S intend

ASSUME WaitAssumption ==
  /\ SessionOf \in [Wait -> Session]
  /\ MaxLost \in Nat
  /\ {Again, Barging, Prompt} \subseteq BOOLEAN

VARIABLES waiter,   \* where each wait is, and the ticket it knows (0: none)
          box,      \* the session that owns the run in the box, or NoSession
          lost      \* requests dropped or unseen so far

waitVars == <<boxQueue, boxTombstones, boxClaiming, claimTicket, issued, waiter, box, lost>>

Pc == {"new", "out", "poll", "sweep", "claim", "held", "launching", "leaving"}

WaitInit ==
  /\ Init
  /\ waiter = [w \in Wait |-> [pc |-> "new", ticket |-> 0]]
  /\ box = NoSession
  /\ lost = 0

-----------------------------------------------------------------------------
Mine(w) == waiter[w].ticket
Locked(s) == \E w \in Wait : SessionOf[w] = s /\ waiter[w].pc = "launching"

Goes(w, pc, ticket) == waiter' = [waiter EXCEPT ![w] = [pc |-> pc, ticket |-> ticket]]
Answered == UNCHANGED lost
Lost == lost < MaxLost /\ lost' = lost + 1
KeepQueue == UNCHANGED boxVars

(* _box_payload and _box_ready_for, read after the touch of a poll: nothing *)
(* runs, nothing is claimed, and the head is a ticket of this session.      *)
Ready(s) ==
  /\ box = NoSession /\ boxClaiming' = NoSession
  /\ \E id \in DOMAIN boxQueue' : IsHead(boxQueue', id) /\ boxQueue'[id].session = s

Dead(w) == Mine(w) \notin LiveOf(SessionOf[w])

Start(w) ==
  /\ waiter[w].pc = "new" \/ (Again /\ waiter[w].pc = "out")
  /\ Goes(w, "poll", 0)
  /\ KeepQueue /\ Answered /\ UNCHANGED box

-----------------------------------------------------------------------------
(* The first request of the loop: join, or touch the ticket.               *)

MayAsk(w, pc) == waiter[w].pc = pc /\ ~Locked(SessionOf[w]) /\ UNCHANGED box

Next1(w) == IF Ready(SessionOf[w]) THEN "claim" ELSE "poll"

(* A join refused at a capacity: a full table of tombstones ends the wait, *)
(* a full queue is polled again.                                           *)
NumbersRefusal == issued + 1
RefusedTicket == 0
Refused(w) ==
  /\ ~Room
  /\ Purge
  /\ Goes(w, IF Cardinality(Remembered \cup Lapsed) < MaxTombstones
             THEN "poll" ELSE "leaving", RefusedTicket)

PollJoin(w) ==
  /\ MayAsk(w, "poll") /\ Mine(w) = 0
  /\ \/ Answered /\ Join(SessionOf[w], FALSE) /\ Goes(w, Next1(w), issued + 1)
     \/ Answered /\ Refused(w)
     \/ Lost /\ Join(SessionOf[w], FALSE) /\ Goes(w, "sweep", 0)
     \/ Lost /\ KeepQueue /\ Goes(w, "sweep", 0)

(* A dead ticket is forgotten, and the next poll joins at the tail.  A     *)
(* touch that says box_claimed ends the wait: a claim unseen had landed.   *)
KeepsDead(w) == Mine(w)
Forgotten(w) == 0
PollTouch(w) ==
  /\ MayAsk(w, "poll") /\ Mine(w) # 0
  /\ \/ /\ Answered /\ Touch(SessionOf[w], Mine(w), FALSE)
        /\ Goes(w, IF boxClaiming' = SessionOf[w] /\ claimTicket' = Mine(w)
                   THEN "held" ELSE Next1(w), Mine(w))
     \/ Answered /\ Dead(w) /\ Purge /\ Goes(w, "poll", Forgotten(w))
     \/ Lost /\ Touch(SessionOf[w], Mine(w), FALSE) /\ UNCHANGED waiter

(* _release_box_wait_ticket(client, None), after a join without answer.    *)
Sweep(w) ==
  /\ waiter[w].pc = "sweep"
  /\ Goes(w, "poll", 0)
  /\ (Answered /\ DoneUnseen(SessionOf[w])) \/ (Lost /\ KeepQueue)
  /\ UNCHANGED box

(* The claim.  Only an answer box_claimed = False is not taken for a claim *)
(* that is held: the one a dead ticket gets names no box_claimed at all.   *)
AskClaim(w) ==
  /\ MayAsk(w, "claim")
  /\ \/ /\ Answered /\ Touch(SessionOf[w], Mine(w), TRUE)
        /\ Goes(w, IF boxClaiming' = SessionOf[w] /\ claimTicket' = Mine(w)
                   THEN "held" ELSE "poll", Mine(w))
     \/ Answered /\ Dead(w) /\ Purge /\ Goes(w, "held", Mine(w))
     \/ Lost /\ Touch(SessionOf[w], Mine(w), TRUE) /\ Goes(w, "poll", Mine(w))
     \/ Lost /\ KeepQueue /\ Goes(w, "poll", Mine(w))

(* The wait ends without the box: its budget is over, it is cancelled, or  *)
(* abort_if says that waiting cannot help; the ticket is handed back.      *)
ForgetsTicket(w) == 0
HandsBack(w) == Mine(w)
GiveUp(w) ==
  /\ waiter[w].pc \in {"poll", "claim", "held"}
  /\ Goes(w, "leaving", HandsBack(w))
  /\ KeepQueue /\ Answered /\ UNCHANGED box

-----------------------------------------------------------------------------
(* The launch.                                                             *)

(* _heartbeat_box_claim, every BOX_CLAIM_HEARTBEAT_S without the lock.     *)
Heartbeat(w) ==
  /\ waiter[w].pc \in {"held", "launching"} /\ Mine(w) # 0
  /\ Touch(SessionOf[w], Mine(w), FALSE) \/ (Dead(w) /\ Purge)
  /\ Answered /\ UNCHANGED <<waiter, box>>

TakeLock(w) ==
  /\ MayAsk(w, "held")
  /\ Goes(w, "launching", Mine(w))
  /\ KeepQueue /\ Answered

(* process_lifecycle's start: one run in the box, and none against the     *)
(* claim of another session.                                               *)
StartsRun(s) ==
  /\ box = NoSession /\ PurgedClaiming \in {s, NoSession}
  /\ Purge
  /\ box' = s

Launch(w) ==
  /\ waiter[w].pc = "launching"
  /\ StartsRun(SessionOf[w]) \/ (Purge /\ UNCHANGED box)
  /\ Goes(w, "leaving", Mine(w)) /\ Answered

(* release_box: the ticket is handed back whatever became of the launch.   *)
EndsInSilence(w) == KeepQueue
TellsDaemon(w) == IF Mine(w) = 0 THEN KeepQueue ELSE Done(SessionOf[w], Mine(w))
Leaves(w) ==
  /\ waiter[w].pc = "leaving"
  /\ (Answered /\ TellsDaemon(w)) \/ (Lost /\ KeepQueue)
  /\ Goes(w, "out", Mine(w)) /\ UNCHANGED box

(* A session that does not wait starts a run.                              *)
Barge(s) ==
  /\ Barging
  /\ StartsRun(s)
  /\ UNCHANGED <<waiter, lost>>

(* The run ends and is reaped: _reap_run_locked tells note_run_reaped.  *)
Reap ==
  /\ box # NoSession
  /\ RunReaped(box)
  /\ box' = NoSession
  /\ UNCHANGED <<waiter, lost>>

(* One unit of time.                                                       *)
Asking(w) ==
  \/ waiter[w].pc \in {"held", "launching"}
  \/ waiter[w].pc \in {"poll", "claim"} /\ ~Locked(SessionOf[w])
AboutToLapse(id) ==
  boxQueue[id].age + 1 >= IF HoldsClaim(id) THEN ClaimTTL ELSE SessionTTL
Passes ==
  /\ Prompt => ~\E w \in Wait :
                   Asking(w) /\ Mine(w) \in DOMAIN boxQueue /\ AboutToLapse(Mine(w))
  /\ Tick
  /\ UNCHANGED <<waiter, box, lost>>

-----------------------------------------------------------------------------
WaitStep(w) ==
  PollJoin(w) \/ PollTouch(w) \/ Sweep(w) \/ AskClaim(w) \/ TakeLock(w)
  \/ Launch(w) \/ Leaves(w)

WaitNext ==
  \/ \E w \in Wait : Start(w) \/ WaitStep(w) \/ GiveUp(w) \/ Heartbeat(w)
  \/ \E s \in Session : Barge(s)
  \/ Reap \/ Passes

WaitSpec == WaitInit /\ [][WaitNext]_waitVars

(* The event loop keeps every wait and every heartbeat going, runs end and *)
(* are reaped, and time passes.                                            *)
FairWaitSpec ==
  /\ WaitSpec
  /\ \A w \in Wait : WF_waitVars(WaitStep(w)) /\ WF_waitVars(Heartbeat(w))
  /\ WF_waitVars(Reap) /\ WF_waitVars(Passes)

-----------------------------------------------------------------------------
WaitTypeOK ==
  /\ TypeOK
  /\ waiter \in [Wait -> [pc : Pc, ticket : 0 .. issued]]
  /\ box \in Session \cup {NoSession}
  /\ lost \in 0 .. MaxLost

Known == {Mine(w) : w \in {v \in Wait : waiter[v].pc # "out"}}

(* A place in the FIFO that no wait knows blocks everyone behind it until  *)
(* its TTL: each dropped request or unseen answer leaves at most one, and  *)
(* without any there is none, however waits end, are swept or reaped.      *)
OrphansAreLosses == Cardinality(DOMAIN boxQueue \ Known) <= lost

(* The claim keeps every other session from starting for BOX_CLAIM_TTL_S:  *)
(* unless requests are lost, it is always that of a wait that has seen it  *)
(* and goes on to launch or to hand it back.                               *)
ClaimIsUsed ==
  lost = 0 /\ boxClaiming # NoSession =>
    \E w \in Wait :
      Mine(w) = claimTicket /\ waiter[w].pc \in {"held", "launching", "leaving"}

(* Whoever waits gets the box in the end or stops waiting, also past       *)
(* places that lost requests left in the queue.                            *)
Served ==
  \A w \in Wait : waiter[w].pc = "poll" ~> waiter[w].pc \in {"held", "out"}
=============================================================================
