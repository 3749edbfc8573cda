--------------------------- MODULE BoxWaitProofs ---------------------------
(***************************************************************************)
(* Proofs about BoxWait, for any number of waits, sessions and lost        *)
(* requests: what the waits do to the FIFO is a behaviour of BoxQueue, and *)
(* what they leave behind in it is bounded by the requests that were lost. *)
(*                                                                         *)
(* Every step but a join, a heartbeat, a run's start or end and the clock  *)
(* is one wait moving on while tickets at most leave the queue: one lemma  *)
(* (MovesOn) serves them all.                                              *)
(***************************************************************************)
EXTENDS BoxWait, BoxQueueProofs

Holding == {"held", "launching", "leaving"}

(* A wait only ever knows tickets of its own session, and none before its  *)
(* first join or while a join of its own is in doubt.                      *)
Named ==
  \A w \in Wait : Mine(w) \in DOMAIN boxQueue => boxQueue[Mine(w)].session = SessionOf[w]
Blank == \A w \in Wait : waiter[w].pc \in {"new", "sweep"} => Mine(w) = 0

WInv == WaitTypeOK /\ ClaimedTicketIsHead /\ NotRevived /\ Named /\ Blank /\ ClaimIsUsed

LEMMA WaitInitInv == WaitInit => WInv
<1> SUFFICES ASSUME WaitInit PROVE WInv
  OBVIOUS
<1>1. Inv
  BY InitInv DEF WaitInit
<1>2. DOMAIN boxQueue = {}
  BY SMT DEF WaitInit, Init
<1>3. waiter \in [Wait -> [pc : Pc, ticket : 0 .. issued]]
  BY DEF WaitInit, Init, Pc
<1>4. WaitTypeOK
  BY <1>1, <1>3, WaitAssumption DEF WaitInit, WaitTypeOK, Inv
<1> QED
  BY <1>1, <1>2, <1>4 DEF WInv, Inv, WaitInit, Init, Named, Blank, ClaimIsUsed, Mine

LEMMA WInvIsInv == WInv => Inv
  BY DEF WInv, WaitTypeOK, Inv

-----------------------------------------------------------------------------
(* What the operations of the FIFO leave of it.                            *)

Shrinks ==
  /\ DOMAIN boxQueue' \subseteq DOMAIN boxQueue
  /\ \A id \in DOMAIN boxQueue' : boxQueue'[id].session = boxQueue[id].session
  /\ issued' = issued
ClaimStays ==
  boxClaiming' = NoSession \/ (boxClaiming' = boxClaiming /\ claimTicket' = claimTicket)

LEMMA KeepClaimStays == KeepClaim => ClaimStays
  BY DEF KeepClaim, Claim, PurgedClaiming, PurgedClaim, ClaimStays

LEMMA LeaveEffect ==
  ASSUME NEW gone \in SUBSET Kept, NEW dropsClaim \in BOOLEAN, Leave(gone, dropsClaim)
  PROVE  /\ Shrinks /\ ClaimStays /\ DOMAIN boxQueue' = Kept \ gone
         /\ dropsClaim => boxClaiming' = NoSession
<1>1. Shrinks /\ DOMAIN boxQueue' = Kept \ gone
  BY DEF Leave, Restrict, Kept, Shrinks
<1>2. CASE dropsClaim
  BY <1>1, <1>2 DEF Leave, Claim, ClaimStays
<1>3. CASE ~dropsClaim
  BY <1>1, <1>3, KeepClaimStays DEF Leave
<1> QED
  BY <1>2, <1>3

LEMMA PurgeEffect ==
  ASSUME Purge
  PROVE  Shrinks /\ ClaimStays /\ DOMAIN boxQueue' = Kept
<1>1. {} \in SUBSET Kept /\ FALSE \in BOOLEAN /\ Kept \ {} = Kept
  OBVIOUS
<1>2. Leave({}, FALSE)
  BY DEF Purge
<1> QED
  BY <1>1, <1>2, LeaveEffect

LEMMA LeaveSessionEffect ==
  ASSUME NEW s \in Session, LeaveSession(s)
  PROVE  Shrinks /\ ClaimStays
  BY LeaveEffect DEF LeaveSession, LiveOf

LEMMA TouchEffect ==
  ASSUME TypeOK, NEW s \in Session, NEW id, NEW wants \in BOOLEAN, Touch(s, id, wants)
  PROVE  /\ Shrinks /\ id \in TicketId
         /\ ClaimStays \/ (wants /\ boxClaiming' = s /\ claimTicket' = id)
<1>1. Shrinks
  BY DEF Touch, PurgedQueue, Restrict, Kept, LiveOf, Shrinks, TypeOK, Ticket
<1>2. id \in TicketId
  BY BoxAssumption DEF Touch, LiveOf, Kept, TypeOK, TicketId
<1> QED
  BY <1>1, <1>2, KeepClaimStays DEF Touch, TakeClaim, Claim

LEMMA JoinEffect ==
  ASSUME TypeOK, NEW s \in Session, Join(s, FALSE)
  PROVE  /\ issued' = issued + 1 /\ issued + 1 \in TicketId /\ issued + 1 \notin DOMAIN boxQueue
         /\ DOMAIN boxQueue' = Kept \cup {issued + 1}
         /\ \A id \in Kept : boxQueue'[id].session = boxQueue[id].session
         /\ boxQueue'[issued + 1].session = s
         /\ ClaimStays
<1>1. issued' = issued + 1 /\ issued + 1 \in TicketId /\ issued + 1 \notin DOMAIN boxQueue
  BY BoxAssumption DEF Join, TypeOK, TicketId
<1>2. /\ DOMAIN boxQueue' = Kept \cup {issued + 1}
      /\ \A id \in Kept : boxQueue'[id].session = boxQueue[id].session
      /\ boxQueue'[issued + 1].session = s
  BY <1>1 DEF Join, Kept
<1>3. ClaimStays
  BY KeepClaimStays DEF Join, TakeClaim
<1> QED
  BY <1>1, <1>2, <1>3

(* A wait whose ticket a touch finds dead has no place in the queue once   *)
(* it is purged.                                                           *)
LEMMA DeadIsGone ==
  ASSUME Named, NEW w \in Wait, Dead(w), Purge
  PROVE  Mine(w) \notin DOMAIN boxQueue'
  BY PurgeEffect DEF Named, Dead, LiveOf, Kept

-----------------------------------------------------------------------------
(* What one step makes of the waits.                                       *)

Clients ==
  /\ waiter \in [Wait -> [pc : Pc, ticket : 0 .. issued]]
  /\ box \in Session \cup {NoSession}
  /\ lost \in 0 .. MaxLost
  /\ Named /\ Blank /\ ClaimIsUsed

Orphans == DOMAIN boxQueue \ Known
PaidFor ==
  \/ lost' = lost /\ Orphans' \subseteq Orphans
  \/ lost' = lost + 1 /\ \E id : Orphans' \subseteq Orphans \cup {id}

(* A wait that moves on while tickets at most leave: it keeps its ticket   *)
(* unless that is out of the queue, or a request is lost with it, and it   *)
(* keeps the claim it holds unless the claim is dropped.                   *)
LEMMA MovesOn ==
  ASSUME WInv, Shrinks, NEW w \in Wait, NEW pc \in Pc, NEW t \in {0, Mine(w)}, Goes(w, pc, t),
         Answered \/ Lost,
         box' \in Session \cup {NoSession},
         pc \in {"new", "sweep"} => t = 0,
         Answered => \/ pc # "out" /\ t = Mine(w)
                     \/ Mine(w) \notin DOMAIN boxQueue'
                     \/ waiter[w].pc = "out",
         Answered /\ boxClaiming' # NoSession =>
           \/ /\ boxClaiming' = boxClaiming /\ claimTicket' = claimTicket
              /\ waiter[w].pc \in Holding /\ Mine(w) = claimTicket => pc \in Holding /\ t = Mine(w)
           \/ claimTicket' = t /\ pc \in Holding
  PROVE  Clients' /\ PaidFor
<1> USE DEF WInv, WaitTypeOK
<1>1. issued \in Nat /\ issued' = issued /\ t \in 0 .. issued
  BY WaitAssumption, BoxAssumption DEF Shrinks, TypeOK, Mine
<1>2. waiter' \in [Wait -> [pc : Pc, ticket : 0 .. issued']]
  BY <1>1 DEF Goes
<1>3. /\ waiter'[w].pc = pc /\ waiter'[w].ticket = t
      /\ \A v \in Wait \ {w} : waiter'[v] = waiter[v]
  BY DEF Goes
<1>4. lost' \in 0 .. MaxLost /\ (lost' = lost \/ lost' = lost + 1)
  BY WaitAssumption DEF Answered, Lost
<1>5. Named'
  <2> SUFFICES ASSUME NEW v \in Wait, waiter'[v].ticket \in DOMAIN boxQueue'
               PROVE  boxQueue'[waiter'[v].ticket].session = SessionOf[v]
    BY DEF Named, Mine
  <2>1. waiter'[v].ticket \in {0, Mine(v)} /\ 0 \notin DOMAIN boxQueue
    BY <1>3 DEF Mine, TypeOK
  <2> QED
    BY <2>1 DEF Named, Shrinks
<1>6. Blank'
  BY <1>3 DEF Blank, Mine
<1>7. ClaimIsUsed'
  <2> SUFFICES ASSUME lost' = 0, boxClaiming' # NoSession
               PROVE  \E v \in Wait : waiter'[v].ticket = claimTicket' /\ waiter'[v].pc \in Holding
    BY DEF ClaimIsUsed, Holding, Mine
  <2>1. Answered /\ lost = 0
    BY WaitAssumption DEF Answered, Lost
  <2>2. CASE claimTicket' = t /\ pc \in Holding
    BY <1>3, <2>2
  <2>3. CASE /\ boxClaiming' = boxClaiming /\ claimTicket' = claimTicket
             /\ waiter[w].pc \in Holding /\ Mine(w) = claimTicket => pc \in Holding /\ t = Mine(w)
    <3>1. PICK v \in Wait : Mine(v) = claimTicket /\ waiter[v].pc \in Holding
      BY <2>1, <2>3 DEF ClaimIsUsed, Holding
    <3>2. waiter'[v].ticket = claimTicket' /\ waiter'[v].pc \in Holding
      BY <1>3, <2>3, <3>1 DEF Mine
    <3> QED
      BY <3>2
  <2> QED
    BY <2>1, <2>2, <2>3
<1>8. PaidFor
  <2>1. Orphans' \subseteq Orphans \cup {Mine(w)}
    <3> SUFFICES ASSUME NEW id, id \in Orphans', id # Mine(w)
                 PROVE  id \in Orphans
      OBVIOUS
    <3>1. id \in DOMAIN boxQueue
      BY DEF Orphans, Shrinks
    <3>2. ASSUME NEW v \in Wait, waiter[v].pc # "out", Mine(v) = id PROVE FALSE
      BY <1>3, <3>2 DEF Orphans, Known, Mine
    <3> QED
      BY <3>1, <3>2 DEF Orphans, Known
  <2>2. CASE Lost
    BY <2>1, <2>2 DEF Lost, PaidFor
  <2>3. CASE Answered
    <3>1. CASE pc # "out" /\ t = Mine(w)
      <4>1. Mine(w) \notin Orphans'
        BY <1>3, <3>1 DEF Orphans, Known, Mine
      <4> QED
        BY <2>1, <2>3, <4>1 DEF PaidFor, Answered
    <3>2. CASE Mine(w) \notin DOMAIN boxQueue'
      BY <2>1, <2>3, <3>2 DEF PaidFor, Answered, Orphans
    <3>3. CASE waiter[w].pc = "out"
      <4>1. Orphans' \subseteq Orphans
        <5> SUFFICES ASSUME NEW id, id \in Orphans'
                     PROVE  id \in Orphans
          OBVIOUS
        <5>1. id \in DOMAIN boxQueue
          BY DEF Orphans, Shrinks
        <5>2. ASSUME NEW v \in Wait, waiter[v].pc # "out", Mine(v) = id PROVE FALSE
          BY <1>3, <3>3, <5>2 DEF Orphans, Known, Mine
        <5> QED
          BY <5>1, <5>2 DEF Orphans, Known
      <4> QED
        BY <2>3, <4>1 DEF PaidFor, Answered
    <3> QED
      BY <2>3, <3>1, <3>2, <3>3
  <2> QED
    BY <2>2, <2>3
<1> QED
  BY <1>2, <1>4, <1>5, <1>6, <1>7, <1>8 DEF Clients

(* The waits stand still while tickets at most leave.                      *)
LEMMA StandStill ==
  ASSUME WInv, Shrinks, ClaimStays, Answered, UNCHANGED waiter,
         box' \in Session \cup {NoSession}
  PROVE  Clients' /\ PaidFor
<1> USE DEF WInv, WaitTypeOK, Answered
<1>1. Named'
  BY DEF Named, Mine, Shrinks
<1>2. Blank' /\ Known' = Known
  BY DEF Blank, Mine, Known
<1>3. ClaimIsUsed'
  BY DEF ClaimIsUsed, ClaimStays, Mine
<1> QED
  BY <1>1, <1>2, <1>3 DEF Clients, PaidFor, Orphans, Shrinks

(* A join adds one ticket: the wait that sees the answer knows it, and the *)
(* one that does not has lost a request for it.                            *)
LEMMA Joins ==
  ASSUME WInv, NEW w \in Wait, Mine(w) = 0, waiter[w].pc = "poll",
         Join(SessionOf[w], FALSE), UNCHANGED box,
         NEW pc \in {"poll", "claim", "sweep"}, NEW t \in {0, issued + 1}, Goes(w, pc, t),
         \/ Answered /\ pc # "sweep" /\ t = issued + 1
         \/ Lost /\ pc = "sweep" /\ t = 0
  PROVE  Clients' /\ PaidFor
<1> USE DEF WInv, WaitTypeOK
<1>0. SessionOf[w] \in Session
  BY WaitAssumption
<1>1. /\ issued' = issued + 1 /\ issued + 1 \in TicketId /\ issued + 1 \notin DOMAIN boxQueue
      /\ DOMAIN boxQueue' = Kept \cup {issued + 1}
      /\ \A id \in Kept : boxQueue'[id].session = boxQueue[id].session
      /\ boxQueue'[issued + 1].session = SessionOf[w]
      /\ ClaimStays
  BY <1>0, JoinEffect
<1>2. issued \in Nat /\ pc \in Pc
  BY BoxAssumption DEF TypeOK, Pc
<1>3. /\ waiter'[w].pc = pc /\ waiter'[w].ticket = t
      /\ \A v \in Wait \ {w} : waiter'[v] = waiter[v]
  BY DEF Goes
<1>4. waiter' \in [Wait -> [pc : Pc, ticket : 0 .. issued']]
  <2>1. t \in 0 .. issued' /\ 0 .. issued \subseteq 0 .. issued'
    BY <1>1, <1>2
  <2> QED
    BY <1>2, <2>1 DEF Goes
<1>5. lost' \in 0 .. MaxLost
  BY WaitAssumption DEF Answered, Lost
<1>6. \A v \in Wait : Mine(v) # issued + 1
  BY <1>2 DEF Mine
<1>7. Named'
  <2> SUFFICES ASSUME NEW v \in Wait, waiter'[v].ticket \in DOMAIN boxQueue'
               PROVE  boxQueue'[waiter'[v].ticket].session = SessionOf[v]
    BY DEF Named, Mine
  <2>1. CASE v = w
    BY <1>1, <1>3, <2>1 DEF TypeOK, Kept
  <2>2. CASE v # w
    BY <1>1, <1>3, <1>6, <2>2 DEF Named, Mine, Kept
  <2> QED
    BY <2>1, <2>2
<1>8. Blank'
  BY <1>3 DEF Blank, Mine
<1>9. ClaimIsUsed'
  <2> SUFFICES ASSUME lost' = 0, boxClaiming' # NoSession
               PROVE  \E v \in Wait : waiter'[v].ticket = claimTicket' /\ waiter'[v].pc \in Holding
    BY DEF ClaimIsUsed, Holding, Mine
  <2>1. lost = 0 /\ boxClaiming' = boxClaiming /\ claimTicket' = claimTicket
    BY <1>1, WaitAssumption DEF Answered, Lost, ClaimStays
  <2>2. PICK v \in Wait : Mine(v) = claimTicket /\ waiter[v].pc \in Holding
    BY <2>1 DEF ClaimIsUsed, Holding
  <2> QED
    BY <1>3, <2>1, <2>2 DEF Mine, Holding
<1>10. Orphans' \subseteq Orphans \cup {issued + 1}
  <2> SUFFICES ASSUME NEW id, id \in Orphans', id # issued + 1
               PROVE  id \in Orphans
    OBVIOUS
  <2>1. id \in DOMAIN boxQueue /\ id # 0
    BY <1>1 DEF Orphans, Kept, TypeOK
  <2>2. ASSUME NEW v \in Wait, waiter[v].pc # "out", Mine(v) = id PROVE FALSE
    BY <1>3, <2>1, <2>2 DEF Orphans, Known, Mine
  <2> QED
    BY <2>1, <2>2 DEF Orphans, Known
<1>11. PaidFor
  <2>1. CASE Lost
    BY <1>10, <2>1 DEF Lost, PaidFor
  <2>2. CASE Answered /\ pc # "sweep" /\ t = issued + 1
    <3>1. issued + 1 \notin Orphans'
      BY <1>3, <2>2 DEF Orphans, Known, Mine
    <3> QED
      BY <1>10, <2>2, <3>1 DEF PaidFor, Answered
  <2> QED
    BY <2>1, <2>2
<1> QED
  BY <1>4, <1>5, <1>7, <1>8, <1>9, <1>11 DEF Clients

-----------------------------------------------------------------------------
(* The steps.  Each is a step of BoxQueue, or none.                        *)

Fine == Clients' /\ PaidFor /\ [Next]_boxVars

LEMMA Unqueued ==
  ASSUME KeepQueue
  PROVE  /\ Shrinks /\ ClaimStays /\ boxClaiming' = boxClaiming /\ claimTicket' = claimTicket
         /\ DOMAIN boxQueue' = DOMAIN boxQueue /\ [Next]_boxVars
  BY DEF KeepQueue, boxVars, Shrinks, ClaimStays

LEMMA StartFine == ASSUME WInv, NEW w \in Wait, Start(w) PROVE Fine
<1>1. waiter[w].pc \in {"new", "out"} /\ "poll" \in Pc
  BY DEF Start, Pc
<1>2. waiter[w].pc = "out" \/ Mine(w) \notin DOMAIN boxQueue'
  BY <1>1, Unqueued DEF WInv, WaitTypeOK, TypeOK, Blank, Start
<1>3. Clients' /\ PaidFor
  BY <1>1, <1>2, Unqueued, MovesOn DEF Start, Holding, WInv, WaitTypeOK, Answered
<1> QED
  BY <1>3, Unqueued DEF Fine, Start

LEMMA PollJoinFine == ASSUME WInv, NEW w \in Wait, PollJoin(w) PROVE Fine
<1> USE DEF WInv, WaitTypeOK
<1>0. /\ waiter[w].pc = "poll" /\ Mine(w) = 0 /\ box' = box /\ SessionOf[w] \in Session
      /\ 0 \notin DOMAIN boxQueue
  BY WaitAssumption DEF PollJoin, MayAsk, TypeOK
<1>1. ASSUME NEW pc \in {"poll", "claim", "sweep"}, NEW t \in {0, issued + 1}, Goes(w, pc, t),
             Join(SessionOf[w], FALSE),
             \/ Answered /\ pc # "sweep" /\ t = issued + 1
             \/ Lost /\ pc = "sweep" /\ t = 0
      PROVE  Fine
  <2>1. Clients' /\ PaidFor
    BY <1>0, <1>1, Joins
  <2> QED
    BY <1>0, <1>1, <2>1 DEF Fine, Next, Call
<1>2. ASSUME Answered, Refused(w) PROVE Fine
  <2>1. PICK pc \in {"poll", "leaving"} : Goes(w, pc, 0)
    BY <1>2 DEF Refused, RefusedTicket
  <2>2. Purge
    BY <1>2 DEF Refused
  <2>3. Shrinks /\ ClaimStays /\ 0 \notin DOMAIN boxQueue'
    BY <1>0, <2>2, PurgeEffect DEF Shrinks
  <2>4. Clients' /\ PaidFor
    BY <1>0, <1>2, <2>1, <2>3, MovesOn DEF Pc, Holding, ClaimStays
  <2> QED
    BY <2>2, <2>4 DEF Fine, Next
<1>3. ASSUME Lost, KeepQueue, Goes(w, "sweep", 0) PROVE Fine
  <2>1. "sweep" \in Pc /\ ~Answered
    BY <1>3 DEF Pc, Answered, Lost
  <2>2. Clients' /\ PaidFor
    BY <1>0, <1>3, <2>1, Unqueued, MovesOn
  <2> QED
    BY <1>3, <2>2, Unqueued DEF Fine
<1> QED
  BY <1>1, <1>2, <1>3 DEF PollJoin, Next1

LEMMA PollTouchFine == ASSUME WInv, NEW w \in Wait, PollTouch(w) PROVE Fine
<1> USE DEF WInv, WaitTypeOK
<1>0. waiter[w].pc = "poll" /\ Mine(w) # 0 /\ box' = box /\ SessionOf[w] \in Session
  BY WaitAssumption DEF PollTouch, MayAsk
<1>1. ASSUME Touch(SessionOf[w], Mine(w), FALSE)
      PROVE  Shrinks /\ ClaimStays /\ [Next]_boxVars
  <2>1. Shrinks /\ ClaimStays /\ Mine(w) \in TicketId
    BY <1>0, <1>1, TouchEffect
  <2> QED
    BY <1>0, <1>1, <2>1 DEF Next, Call
<1>2. ASSUME Answered, Touch(SessionOf[w], Mine(w), FALSE),
             NEW pc \in {"held", "claim", "poll"}, Goes(w, pc, Mine(w))
      PROVE  Fine
  <2>1. Clients' /\ PaidFor
    BY <1>0, <1>1, <1>2, MovesOn DEF Pc, Holding, ClaimStays
  <2> QED
    BY <1>1, <1>2, <2>1 DEF Fine
<1>3. ASSUME Answered, Dead(w), Purge, Goes(w, "poll", 0) PROVE Fine
  <2>1. Mine(w) \notin DOMAIN boxQueue'
    BY <1>3, DeadIsGone
  <2>2. Clients' /\ PaidFor
    BY <1>0, <1>3, <2>1, PurgeEffect, MovesOn DEF Pc, Holding, ClaimStays
  <2> QED
    BY <1>3, <2>2 DEF Fine, Next
<1>4. ASSUME Lost, Touch(SessionOf[w], Mine(w), FALSE), UNCHANGED waiter PROVE Fine
  <2>1. Goes(w, "poll", Mine(w))
    BY <1>0, <1>4 DEF Goes, Mine
  <2>2. "poll" \in Pc /\ ~Answered
    BY <1>4 DEF Pc, Answered, Lost
  <2>3. Clients' /\ PaidFor
    BY <1>0, <1>1, <1>4, <2>1, <2>2, MovesOn
  <2> QED
    BY <1>1, <1>4, <2>3 DEF Fine
<1> QED
  BY <1>2, <1>3, <1>4 DEF PollTouch, Next1, Forgotten

LEMMA DoneUnseenEffect ==
  ASSUME NEW s \in Session, DoneUnseen(s)
  PROVE  Shrinks /\ ClaimStays
  BY PurgeEffect, LeaveSessionEffect DEF DoneUnseen

LEMMA SweepFine == ASSUME WInv, NEW w \in Wait, Sweep(w) PROVE Fine
<1> USE DEF WInv, WaitTypeOK
<1>0. /\ waiter[w].pc = "sweep" /\ Mine(w) = 0 /\ box' = box /\ SessionOf[w] \in Session
      /\ 0 \notin DOMAIN boxQueue /\ Goes(w, "poll", 0) /\ "poll" \in Pc
  BY WaitAssumption DEF Sweep, TypeOK, Blank, Pc
<1>1. ASSUME Answered, DoneUnseen(SessionOf[w]) PROVE Fine
  <2>1. Shrinks /\ ClaimStays
    BY <1>0, <1>1, DoneUnseenEffect
  <2>2. Clients' /\ PaidFor
    BY <1>0, <1>1, <2>1, MovesOn DEF Holding, ClaimStays
  <2> QED
    BY <1>0, <1>1, <2>2 DEF Fine, Next, Call
<1>2. ASSUME Lost, KeepQueue PROVE Fine
  <2>1. ~Answered
    BY <1>2 DEF Answered, Lost
  <2>2. Clients' /\ PaidFor
    BY <1>0, <1>2, <2>1, Unqueued, MovesOn
  <2> QED
    BY <1>2, <2>2, Unqueued DEF Fine
<1> QED
  BY <1>1, <1>2 DEF Sweep

LEMMA AskClaimFine == ASSUME WInv, NEW w \in Wait, AskClaim(w) PROVE Fine
<1> USE DEF WInv, WaitTypeOK
<1>0. /\ waiter[w].pc = "claim" /\ box' = box /\ SessionOf[w] \in Session
      /\ "poll" \in Pc /\ "held" \in Pc
  BY WaitAssumption DEF AskClaim, MayAsk, Pc
<1>1. ASSUME Touch(SessionOf[w], Mine(w), TRUE)
      PROVE  /\ Shrinks /\ [Next]_boxVars
             /\ ClaimStays \/ (boxClaiming' = SessionOf[w] /\ claimTicket' = Mine(w))
  <2>1. /\ Shrinks /\ Mine(w) \in TicketId
        /\ ClaimStays \/ (boxClaiming' = SessionOf[w] /\ claimTicket' = Mine(w))
    BY <1>0, <1>1, TouchEffect
  <2> QED
    BY <1>0, <1>1, <2>1 DEF Next, Call
<1>2. ASSUME Answered, Touch(SessionOf[w], Mine(w), TRUE),
             Goes(w, IF boxClaiming' = SessionOf[w] /\ claimTicket' = Mine(w)
                     THEN "held" ELSE "poll", Mine(w))
      PROVE  Fine
  <2>1. CASE boxClaiming' = SessionOf[w] /\ claimTicket' = Mine(w)
    <3>1. Clients' /\ PaidFor
      BY <1>0, <1>1, <1>2, <2>1, MovesOn DEF Holding
    <3> QED
      BY <1>1, <1>2, <3>1 DEF Fine
  <2>2. CASE ~(boxClaiming' = SessionOf[w] /\ claimTicket' = Mine(w))
    <3>1. ClaimStays /\ Goes(w, "poll", Mine(w))
      BY <1>1, <1>2, <2>2
    <3>2. Clients' /\ PaidFor
      BY <1>0, <1>1, <1>2, <3>1, MovesOn DEF Holding, ClaimStays
    <3> QED
      BY <1>1, <1>2, <3>2 DEF Fine
  <2> QED
    BY <2>1, <2>2
<1>3. ASSUME Answered, Dead(w), Purge, Goes(w, "held", Mine(w)) PROVE Fine
  <2>1. Clients' /\ PaidFor
    BY <1>0, <1>3, PurgeEffect, MovesOn DEF Holding, ClaimStays
  <2> QED
    BY <1>3, <2>1 DEF Fine, Next
<1>4. ASSUME Lost, Touch(SessionOf[w], Mine(w), TRUE) \/ KeepQueue, Goes(w, "poll", Mine(w))
      PROVE  Fine
  <2>1. Shrinks /\ [Next]_boxVars
    BY <1>1, <1>4, Unqueued
  <2>2. ~Answered
    BY <1>4 DEF Answered, Lost
  <2>3. Clients' /\ PaidFor
    BY <1>0, <1>4, <2>1, <2>2, MovesOn
  <2> QED
    BY <2>1, <2>3 DEF Fine
<1> QED
  BY <1>2, <1>3, <1>4 DEF AskClaim

LEMMA GiveUpFine == ASSUME WInv, NEW w \in Wait, GiveUp(w) PROVE Fine
<1>1. Clients' /\ PaidFor
  BY Unqueued, MovesOn DEF GiveUp, HandsBack, Pc, Holding, WInv, WaitTypeOK
<1> QED
  BY <1>1, Unqueued DEF Fine, GiveUp

LEMMA HeartbeatFine == ASSUME WInv, NEW w \in Wait, Heartbeat(w) PROVE Fine
<1> USE DEF WInv, WaitTypeOK
<1>0. SessionOf[w] \in Session /\ box' \in Session \cup {NoSession}
  BY WaitAssumption DEF Heartbeat
<1>1. CASE Touch(SessionOf[w], Mine(w), FALSE)
  <2>1. Shrinks /\ ClaimStays /\ Mine(w) \in TicketId
    BY <1>0, <1>1, TouchEffect
  <2>2. Clients' /\ PaidFor
    BY <1>0, <2>1, StandStill DEF Heartbeat
  <2> QED
    BY <1>0, <1>1, <2>1, <2>2 DEF Fine, Next, Call
<1>2. CASE Purge
  <2>1. Clients' /\ PaidFor
    BY <1>0, <1>2, PurgeEffect, StandStill DEF Heartbeat
  <2> QED
    BY <1>2, <2>1 DEF Fine, Next
<1> QED
  BY <1>1, <1>2 DEF Heartbeat

LEMMA TakeLockFine == ASSUME WInv, NEW w \in Wait, TakeLock(w) PROVE Fine
<1>1. Clients' /\ PaidFor
  BY Unqueued, MovesOn DEF TakeLock, MayAsk, Pc, Holding, WInv, WaitTypeOK
<1> QED
  BY <1>1, Unqueued DEF Fine, TakeLock

LEMMA LaunchFine == ASSUME WInv, NEW w \in Wait, Launch(w) PROVE Fine
<1>1. /\ waiter[w].pc = "launching" /\ Purge /\ Goes(w, "leaving", Mine(w)) /\ Answered
      /\ box' \in Session \cup {NoSession} /\ "leaving" \in Pc
  BY WaitAssumption DEF Launch, StartsRun, Pc, WInv, WaitTypeOK
<1>2. Clients' /\ PaidFor
  BY <1>1, PurgeEffect, MovesOn DEF Holding, ClaimStays
<1> QED
  BY <1>1, <1>2 DEF Fine, Next

(* The claim of a wait that hands its ticket back goes with the ticket.    *)
LEMMA LeavesFine == ASSUME WInv, NEW w \in Wait, Leaves(w) PROVE Fine
<1> USE DEF WInv, WaitTypeOK
<1>0. /\ waiter[w].pc = "leaving" /\ box' = box /\ SessionOf[w] \in Session
      /\ 0 \notin DOMAIN boxQueue /\ Goes(w, "out", Mine(w)) /\ "out" \in Pc
  BY WaitAssumption DEF Leaves, TypeOK, Pc
<1>1. ASSUME Answered, Mine(w) = 0, KeepQueue PROVE Fine
  <2>1. boxClaiming' # NoSession => claimTicket # 0
    BY <1>0, <1>1, BoxAssumption, Unqueued DEF ClaimedTicketIsHead, HoldsClaim
  <2>2. Clients' /\ PaidFor
    BY <1>0, <1>1, <2>1, Unqueued, MovesOn
  <2> QED
    BY <1>1, <2>2, Unqueued DEF Fine
<1>2. ASSUME Answered, Mine(w) # 0, Done(SessionOf[w], Mine(w)) PROVE Fine
  <2> DEFINE drops == PurgedClaiming = SessionOf[w] /\ PurgedClaim = Mine(w)
  <2>1. LiveOf(SessionOf[w]) \cap {Mine(w)} \in SUBSET Kept /\ drops \in BOOLEAN
    BY DEF LiveOf
  <2>2. Leave(LiveOf(SessionOf[w]) \cap {Mine(w)}, drops)
    BY <1>2 DEF Done
  <2>3. /\ Shrinks /\ ClaimStays
        /\ DOMAIN boxQueue' = Kept \ (LiveOf(SessionOf[w]) \cap {Mine(w)})
        /\ drops => boxClaiming' = NoSession
    <3> HIDE DEF drops
    <3> QED
      BY <2>1, <2>2, LeaveEffect
  <2>4. Mine(w) \notin DOMAIN boxQueue'
    BY <2>3 DEF Named, LiveOf, Kept
  <2>5. ASSUME boxClaiming' # NoSession, Mine(w) = claimTicket PROVE FALSE
    <3>1. boxClaiming' = boxClaiming /\ boxClaiming # NoSession
      BY <2>3, <2>5 DEF ClaimStays
    <3>2. HoldsClaim(claimTicket) /\ boxClaiming = SessionOf[w]
      BY <2>5, <3>1 DEF ClaimedTicketIsHead, HoldsClaim, Named
    <3>3. ~ClaimLapsed
      <4> SUFFICES ASSUME ClaimLapsed PROVE FALSE
        OBVIOUS
      <4>1. boxClaiming' = NoSession
        BY <2>2 DEF Leave, KeepClaim, Claim, PurgedClaiming
      <4> QED
        BY <2>5, <4>1
    <3>4. drops
      BY <2>5, <3>2, <3>3 DEF PurgedClaiming, PurgedClaim
    <3> QED
      BY <2>3, <2>5, <3>4
  <2>6. Clients' /\ PaidFor
    <3> HIDE DEF drops
    <3> QED
      BY <1>0, <1>2, <2>3, <2>4, <2>5, MovesOn DEF ClaimStays
  <2>7. Mine(w) \in TicketId
    BY <1>2, BoxAssumption DEF Mine, TypeOK, TicketId
  <2> QED
    BY <1>0, <1>2, <2>6, <2>7 DEF Fine, Next, Call
<1>3. ASSUME Lost, KeepQueue PROVE Fine
  <2>1. ~Answered
    BY <1>3 DEF Answered, Lost
  <2>2. Clients' /\ PaidFor
    BY <1>0, <1>3, <2>1, Unqueued, MovesOn
  <2> QED
    BY <1>3, <2>2, Unqueued DEF Fine
<1> QED
  BY <1>1, <1>2, <1>3 DEF Leaves, TellsDaemon

LEMMA OthersFine ==
  ASSUME WInv, (\E s \in Session : Barge(s)) \/ Reap \/ Passes
  PROVE  Fine
<1> USE DEF WInv, WaitTypeOK, Answered
<1>1. ASSUME NEW s \in Session, Barge(s) PROVE Fine
  <2>1. Clients' /\ PaidFor
    BY <1>1, PurgeEffect, StandStill DEF Barge, StartsRun
  <2> QED
    BY <1>1, <2>1 DEF Fine, Next, Barge, StartsRun
<1>2. CASE Reap
  <2>1. box \in Session /\ RunReaped(box) /\ box' = NoSession /\ UNCHANGED <<waiter, lost>>
    BY <1>2 DEF Reap
  <2>2. Clients' /\ PaidFor
    BY <2>1, LeaveSessionEffect, StandStill DEF RunReaped
  <2> QED
    BY <2>1, <2>2 DEF Fine, Next, Call
<1>3. CASE Passes
  <2>1. Shrinks /\ ClaimStays /\ Tick
    BY <1>3 DEF Passes, Tick, Shrinks, ClaimStays, TypeOK, Ticket
  <2>2. Clients' /\ PaidFor
    BY <1>3, <2>1, StandStill DEF Passes
  <2> QED
    BY <2>1, <2>2 DEF Fine, Next
<1> QED
  BY <1>1, <1>2, <1>3

LEMMA StepFine == ASSUME WInv, [WaitNext]_waitVars PROVE Fine
<1>1. CASE UNCHANGED waitVars
  <2>1. KeepQueue /\ Answered /\ UNCHANGED <<waiter, box>>
    BY <1>1 DEF waitVars, KeepQueue, boxVars, Answered
  <2>2. Clients' /\ PaidFor
    BY <2>1, Unqueued, StandStill DEF WInv, WaitTypeOK
  <2> QED
    BY <2>1, <2>2, Unqueued DEF Fine
<1>2. ASSUME NEW w \in Wait, Start(w) \/ WaitStep(w) \/ GiveUp(w) \/ Heartbeat(w) PROVE Fine
  BY <1>2, StartFine, PollJoinFine, PollTouchFine, SweepFine, AskClaimFine, GiveUpFine,
     HeartbeatFine, TakeLockFine, LaunchFine, LeavesFine DEF WaitStep
<1> QED
  BY <1>1, <1>2, OthersFine DEF WaitNext

LEMMA WInvStep == ASSUME WInv, [WaitNext]_waitVars PROVE WInv'
<1>1. Clients' /\ [Next]_boxVars
  BY StepFine DEF Fine
<1>2. Inv'
  BY <1>1, WInvIsInv, NextInv
<1> QED
  BY <1>1, <1>2 DEF WInv, Inv, Clients, WaitTypeOK

LEMMA WInvHolds == WaitSpec => []WInv
<1>1. WInv /\ [WaitNext]_waitVars => WInv'
  BY WInvStep
<1> QED
  BY WaitInitInv, <1>1, PTL DEF WaitSpec

-----------------------------------------------------------------------------
(* The theorems.                                                           *)

(* Whatever execute_wait_for_box and the launches around it ask of the     *)
(* daemon, answered, dropped or unseen, is a behaviour of the box FIFO:    *)
(* what is proved of BoxQueue holds of it under its clients.               *)
THEOREM WaitsUseTheQueue == WaitSpec => Spec
<1>1. WaitInit => Init
  BY DEF WaitInit
<1>2. WInv /\ [WaitNext]_waitVars => [Next]_boxVars
  BY StepFine DEF Fine
<1> QED
  BY <1>1, <1>2, WInvHolds, PTL DEF WaitSpec, Spec

(* Every variable of the waits, the box and the FIFO keeps its type.       *)
THEOREM WaitTypes == WaitSpec => []WaitTypeOK
<1>1. WInv => WaitTypeOK
  BY DEF WInv
<1> QED
  BY <1>1, WInvHolds, PTL

(* Unless a request is lost, the box claim that refuses every other        *)
(* session's start is always held by a wait that knows it and goes on to   *)
(* launch or to hand it back (box_wait_touch, release_box).                *)
THEOREM ClaimUsed == WaitSpec => []ClaimIsUsed
<1>1. WInv => ClaimIsUsed
  BY DEF WInv
<1> QED
  BY <1>1, WInvHolds, PTL

LEMMA OrphansFinite == ASSUME TypeOK PROVE IsFiniteSet(Orphans)
<1>1. Orphans \in SUBSET Rows
  BY DEF Orphans, Rows
<1> QED
  BY <1>1, RowsFinite, FS_Subset

LEMMA OrphansStep ==
  ASSUME WInv, OrphansAreLosses, [WaitNext]_waitVars
  PROVE  OrphansAreLosses'
<1>1. PaidFor /\ Clients'
  BY StepFine DEF Fine
<1>2. IsFiniteSet(Orphans) /\ Cardinality(Orphans) \in Nat /\ Cardinality(Orphans) <= lost
  BY OrphansFinite, FS_CardinalityType DEF WInv, WaitTypeOK, OrphansAreLosses, Orphans
<1>3. lost \in Nat
  BY WaitAssumption DEF WInv, WaitTypeOK
<1>4. CASE lost' = lost /\ Orphans' \subseteq Orphans
  <2>1. IsFiniteSet(Orphans') /\ Cardinality(Orphans') <= Cardinality(Orphans)
    BY <1>2, <1>4, FS_Subset
  <2>2. Cardinality(Orphans') \in Nat
    BY <2>1, FS_CardinalityType
  <2> QED
    BY <1>2, <1>3, <1>4, <2>1, <2>2 DEF OrphansAreLosses, Orphans
<1>5. ASSUME lost' = lost + 1, NEW id, Orphans' \subseteq Orphans \cup {id}
      PROVE  OrphansAreLosses'
  <2>1. /\ IsFiniteSet(Orphans \cup {id})
        /\ Cardinality(Orphans \cup {id}) = IF id \in Orphans THEN Cardinality(Orphans)
                                                              ELSE Cardinality(Orphans) + 1
    BY <1>2, FS_AddElement
  <2>2. IsFiniteSet(Orphans') /\ Cardinality(Orphans') <= Cardinality(Orphans \cup {id})
    BY <1>5, <2>1, FS_Subset
  <2>3. Cardinality(Orphans') \in Nat
    BY <2>2, FS_CardinalityType
  <2> QED
    BY <1>2, <1>3, <1>5, <2>1, <2>2, <2>3 DEF OrphansAreLosses, Orphans
<1> QED
  BY <1>1, <1>4, <1>5 DEF PaidFor

(* However waits end, are swept, reaped or time out, a place in the FIFO   *)
(* that no wait knows is paid for by a request of its own that was lost.   *)
THEOREM OrphansPaid == WaitSpec => []OrphansAreLosses
<1>1. WaitInit => OrphansAreLosses
  <2> SUFFICES ASSUME WaitInit PROVE OrphansAreLosses
    OBVIOUS
  <2>1. DOMAIN boxQueue = {} /\ lost = 0
    BY SMT DEF WaitInit, Init
  <2>2. DOMAIN boxQueue \ Known = {}
    BY <2>1
  <2> QED
    BY <2>1, <2>2, FS_EmptySet DEF OrphansAreLosses
<1>2. WInv /\ OrphansAreLosses /\ [WaitNext]_waitVars => OrphansAreLosses'
  BY OrphansStep
<1> QED
  BY <1>1, <1>2, WInvHolds, PTL DEF WaitSpec
=============================================================================
