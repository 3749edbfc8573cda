--------------------------- MODULE BoxQueueProofs ---------------------------
(***************************************************************************)
(* Proofs about BoxQueue, for every set of sessions, every time-to-live    *)
(* and every capacity.  Every operation but Join, Touch and Tick is an     *)
(* instance of Leave, so one lemma about Leave serves them all.            *)
(***************************************************************************)
EXTENDS BoxQueue, FiniteSetTheorems, TLAPS

Inv == TypeOK /\ ClaimedTicketIsHead /\ NotRevived

LEMMA InitInv == Init => Inv
  BY BoxAssumption DEF Init, Inv, TypeOK, ClaimedTicketIsHead, NotRevived,
     HoldsClaim, IsHead, TicketId, Ticket

(* A departure keeps the invariant when no claim is left to a departed     *)
(* ticket: the tickets that stay keep their order, so the head of the old  *)
(* queue, if it stays, is the head of the new one.                         *)
LEMMA LeaveInv ==
  ASSUME Inv, NEW gone \in SUBSET Kept, NEW dropsClaim \in BOOLEAN,
         claimTicket \in gone => dropsClaim,
         Leave(gone, dropsClaim)
  PROVE  Inv'
<1> USE DEF Inv, Leave, Restrict, Buried, Kept, Lapsed, Remembered
<1>1. TypeOK'
  <2>1. DOMAIN boxQueue' \subseteq DOMAIN boxQueue
        /\ boxQueue' \in [DOMAIN boxQueue' -> Ticket]
    BY DEF TypeOK
  <2>2. DOMAIN boxTombstones' \subseteq 1 .. issued
        /\ boxTombstones' \in [DOMAIN boxTombstones' -> Nat]
    BY BoxAssumption DEF TypeOK
  <2>3. boxClaiming' \in Session \cup {NoSession} /\ claimTicket' \in {0} \cup TicketId
    BY DEF TypeOK, Claim, KeepClaim, PurgedClaiming, PurgedClaim
  <2> QED BY <2>1, <2>2, <2>3 DEF TypeOK
<1>2. ClaimedTicketIsHead'
  <2>1. CASE dropsClaim
    BY <2>1 DEF Claim, ClaimedTicketIsHead
  <2>2. CASE ~dropsClaim /\ ClaimLapsed
    BY <2>2 DEF Claim, KeepClaim, PurgedClaiming, PurgedClaim, ClaimedTicketIsHead
  <2>3. CASE ~dropsClaim /\ ~ClaimLapsed
    <3>1. boxClaiming' = boxClaiming /\ claimTicket' = claimTicket
      BY <2>3 DEF Claim, KeepClaim, PurgedClaiming, PurgedClaim
    <3>2. CASE boxClaiming = NoSession /\ claimTicket = 0
      BY <3>1, <3>2 DEF ClaimedTicketIsHead
    <3>3. CASE HoldsClaim(claimTicket) /\ IsHead(boxQueue, claimTicket)
      <4>1. claimTicket \in Kept \ gone
        BY <2>3, <3>3 DEF ClaimLapsed, HoldsClaim
      <4>2. DOMAIN boxQueue' = Kept \ gone /\ \A id \in Kept \ gone : boxQueue'[id] = boxQueue[id]
        OBVIOUS
      <4> QED BY <3>1, <3>3, <4>1, <4>2 DEF ClaimedTicketIsHead, HoldsClaim, IsHead
    <3> QED BY <3>2, <3>3 DEF ClaimedTicketIsHead
  <2> QED BY <2>1, <2>2, <2>3
<1>3. NotRevived'
  BY DEF NotRevived
<1> QED BY <1>1, <1>2, <1>3

(* The ticket claimed by a session is one of that session's.               *)
LEMMA ClaimIsOwn ==
  ASSUME Inv, NEW s \in Session, claimTicket \in LiveOf(s)
  PROVE  PurgedClaiming = s /\ PurgedClaim = claimTicket
<1>1. HoldsClaim(claimTicket) /\ claimTicket \in Kept /\ boxClaiming = s
  BY BoxAssumption DEF Inv, ClaimedTicketIsHead, HoldsClaim, LiveOf, Kept, TypeOK
<1>2. ~ClaimLapsed
  BY <1>1 DEF ClaimLapsed, HoldsClaim, Kept
<1> QED BY <1>1, <1>2 DEF PurgedClaiming, PurgedClaim

LEMMA PurgeInv == ASSUME Inv, Purge PROVE Inv'
  BY LeaveInv DEF Purge

LEMMA LeaveSessionInv ==
  ASSUME Inv, NEW s \in Session, LeaveSession(s)
  PROVE  Inv'
<1>1. LiveOf(s) \in SUBSET Kept
  BY DEF LiveOf
<1>2. claimTicket \in LiveOf(s) => PurgedClaiming = s
  BY ClaimIsOwn
<1> QED BY <1>1, <1>2, LeaveInv DEF LeaveSession

LEMMA DoneInv ==
  ASSUME Inv, NEW s \in Session, NEW id \in TicketId, Done(s, id)
  PROVE  Inv'
<1>1. LiveOf(s) \cap {id} \in SUBSET Kept
  BY DEF LiveOf
<1>2. claimTicket \in LiveOf(s) \cap {id} => PurgedClaiming = s /\ PurgedClaim = id
  BY ClaimIsOwn
<1> QED BY <1>1, <1>2, LeaveInv DEF Done

(* A join is added behind every live ticket, so it takes the claim only    *)
(* from an empty queue.                                                    *)
LEMMA JoinInv ==
  ASSUME Inv, NEW s \in Session, NEW wants \in BOOLEAN, Join(s, wants)
  PROVE  Inv'
<1> USE DEF Inv, Join, Room, Buried, Kept, Lapsed, Remembered
<1>1. issued \in 0 .. MaxTicket /\ issued + 1 \in TicketId /\ issued' = issued + 1
  BY BoxAssumption DEF TypeOK, TicketId
<1>2. /\ DOMAIN boxQueue' = Kept \cup {issued + 1}
      /\ \A id \in Kept : boxQueue'[id] = boxQueue[id] /\ id < issued + 1
      /\ issued + 1 \notin Kept
      /\ boxQueue'[issued + 1] = [session |-> s, age |-> 0]
  BY <1>1 DEF TypeOK
<1>3. TypeOK'
  <2>1. DOMAIN boxQueue' \subseteq 1 .. issued' /\ boxQueue' \in [DOMAIN boxQueue' -> Ticket]
    BY <1>1, <1>2 DEF TypeOK, Ticket
  <2>2. DOMAIN boxTombstones' \subseteq 1 .. issued'
        /\ boxTombstones' \in [DOMAIN boxTombstones' -> Nat]
    BY BoxAssumption, <1>1 DEF TypeOK
  <2>3. boxClaiming' \in Session \cup {NoSession} /\ claimTicket' \in {0} \cup TicketId
    BY <1>1 DEF TypeOK, TakeClaim, Claim, KeepClaim, PurgedClaiming, PurgedClaim
  <2>4. issued' \in 0 .. MaxTicket
    BY BoxAssumption, <1>1 DEF TicketId
  <2> HIDE DEF Join
  <2> QED BY <2>1, <2>2, <2>3, <2>4 DEF TypeOK
<1>4. ClaimedTicketIsHead'
  <2>1. CASE wants /\ IsHead(boxQueue', issued + 1)
    BY <1>2, <2>1 DEF TakeClaim, Claim, ClaimedTicketIsHead, HoldsClaim, IsHead
  <2>2. CASE ~(wants /\ IsHead(boxQueue', issued + 1)) /\ ClaimLapsed
    BY <2>2 DEF TakeClaim, Claim, KeepClaim, PurgedClaiming, PurgedClaim, ClaimedTicketIsHead
  <2>3. CASE ~(wants /\ IsHead(boxQueue', issued + 1)) /\ ~ClaimLapsed
    <3>1. boxClaiming' = boxClaiming /\ claimTicket' = claimTicket
      BY <2>3 DEF TakeClaim, Claim, KeepClaim, PurgedClaiming, PurgedClaim
    <3>2. HoldsClaim(claimTicket) => claimTicket \in Kept
      BY <2>3 DEF ClaimLapsed, HoldsClaim
    <3> QED BY <1>1, <1>2, <3>1, <3>2 DEF ClaimedTicketIsHead, HoldsClaim, IsHead, TypeOK
  <2> QED BY <2>1, <2>2, <2>3
<1>5. NotRevived'
  BY <1>1, <1>2 DEF NotRevived, TypeOK
<1> QED BY <1>3, <1>4, <1>5

LEMMA TouchInv ==
  ASSUME Inv, NEW s \in Session, NEW id \in TicketId, NEW wants \in BOOLEAN,
         Touch(s, id, wants)
  PROVE  Inv'
<1> USE DEF Inv, Touch, Buried, Kept, Lapsed, Remembered, LiveOf, PurgedQueue, Restrict
<1>1. /\ DOMAIN boxQueue' = Kept
      /\ \A t \in Kept : boxQueue'[t].session = boxQueue[t].session
      /\ boxQueue' \in [Kept -> Ticket]
      /\ id \in Kept /\ boxQueue[id].session = s
  BY DEF TypeOK, Ticket
<1>2. TypeOK'
  <2>1. DOMAIN boxQueue' \subseteq 1 .. issued' /\ boxQueue' \in [DOMAIN boxQueue' -> Ticket]
    BY <1>1 DEF TypeOK
  <2>2. DOMAIN boxTombstones' \subseteq 1 .. issued'
        /\ boxTombstones' \in [DOMAIN boxTombstones' -> Nat]
    BY BoxAssumption DEF TypeOK
  <2>3. boxClaiming' \in Session \cup {NoSession} /\ claimTicket' \in {0} \cup TicketId
    BY DEF TypeOK, TakeClaim, Claim, KeepClaim, PurgedClaiming, PurgedClaim
  <2> QED BY <2>1, <2>2, <2>3 DEF TypeOK
<1>3. ClaimedTicketIsHead'
  <2>1. CASE wants /\ IsHead(boxQueue', id)
    BY <1>1, <2>1 DEF TakeClaim, Claim, ClaimedTicketIsHead, HoldsClaim
  <2>2. CASE ~(wants /\ IsHead(boxQueue', id)) /\ ClaimLapsed
    BY <2>2 DEF TakeClaim, Claim, KeepClaim, PurgedClaiming, PurgedClaim, ClaimedTicketIsHead
  <2>3. CASE ~(wants /\ IsHead(boxQueue', id)) /\ ~ClaimLapsed
    <3>1. boxClaiming' = boxClaiming /\ claimTicket' = claimTicket
      BY <2>3 DEF TakeClaim, Claim, KeepClaim, PurgedClaiming, PurgedClaim
    <3>2. HoldsClaim(claimTicket) => claimTicket \in Kept
      BY <2>3 DEF ClaimLapsed, HoldsClaim
    <3> QED BY <1>1, <3>1, <3>2 DEF ClaimedTicketIsHead, HoldsClaim, IsHead
  <2> QED BY <2>1, <2>2, <2>3
<1>4. NotRevived'
  BY <1>1 DEF NotRevived
<1> QED BY <1>2, <1>3, <1>4

LEMMA TickInv == ASSUME Inv, Tick PROVE Inv'
<1> USE DEF Inv, Tick
<1>1. /\ DOMAIN boxQueue' = DOMAIN boxQueue
      /\ boxQueue' \in [DOMAIN boxQueue -> Ticket]
      /\ \A t \in DOMAIN boxQueue : boxQueue'[t].session = boxQueue[t].session
  BY DEF TypeOK, Ticket, Older
<1>2. DOMAIN boxTombstones' = DOMAIN boxTombstones
      /\ boxTombstones' \in [DOMAIN boxTombstones -> Nat]
  BY DEF TypeOK
<1>3. TypeOK'
  BY <1>1, <1>2 DEF TypeOK
<1>4. ClaimedTicketIsHead'
  BY <1>1 DEF ClaimedTicketIsHead, HoldsClaim, IsHead
<1> QED BY <1>1, <1>2, <1>3, <1>4 DEF NotRevived

LEMMA NextInv == ASSUME Inv, [Next]_boxVars PROVE Inv'
<1>1. CASE Purge
  BY <1>1, PurgeInv
<1>2. CASE Tick
  BY <1>2, TickInv
<1>3. ASSUME NEW s \in Session, Call(s) PROVE Inv'
  <2>1. ASSUME NEW wants \in BOOLEAN, Join(s, wants) PROVE Inv'
    BY <2>1, JoinInv
  <2>2. ASSUME NEW wants \in BOOLEAN, NEW id \in TicketId, Touch(s, id, wants) PROVE Inv'
    BY <2>2, TouchInv
  <2>3. ASSUME NEW id \in TicketId, Done(s, id) PROVE Inv'
    BY <2>3, DoneInv
  <2>4. CASE DoneUnseen(s)
    BY <2>4, PurgeInv, LeaveSessionInv DEF DoneUnseen
  <2>5. CASE RunReaped(s)
    BY <2>5, LeaveSessionInv DEF RunReaped
  <2> QED BY <1>3, <2>1, <2>2, <2>3, <2>4, <2>5 DEF Call
<1>4. CASE UNCHANGED boxVars
  BY <1>4 DEF boxVars, Inv, TypeOK, ClaimedTicketIsHead, NotRevived, HoldsClaim, IsHead
<1> QED BY <1>1, <1>2, <1>3, <1>4 DEF Next

(* The tables keep their types, the box claim always belongs to the head   *)
(* of the FIFO (_box_claiming, box_blocks_start), and a departed ticket is *)
(* never queued again (_box_tombstones).                                   *)
THEOREM BoxSafety == Spec => [](TypeOK /\ ClaimedTicketIsHead /\ NotRevived)
<1>1. Inv /\ [Next]_boxVars => Inv'
  BY NextInv
<1> QED BY InitInv, <1>1, PTL DEF Spec, Inv

(* Every table, claim and counter keeps its type.                          *)
THEOREM BoxTypes == Spec => []TypeOK
<1>1. TypeOK /\ ClaimedTicketIsHead /\ NotRevived => TypeOK
  OBVIOUS
<1> QED BY <1>1, BoxSafety, PTL

(* A ticket that left the FIFO is remembered by a tombstone or forgotten,  *)
(* and never queued again (box_wait_touch answers box_wait_cancelled).     *)
THEOREM NoRevival == Spec => []NotRevived
<1>1. TypeOK /\ ClaimedTicketIsHead /\ NotRevived => NotRevived
  OBVIOUS
<1> QED BY <1>1, BoxSafety, PTL

-----------------------------------------------------------------------------
(* The two tables together.                                                *)

Rows == DOMAIN boxQueue \cup DOMAIN boxTombstones

LEMMA RowsFinite == ASSUME TypeOK PROVE IsFiniteSet(Rows)
<1>0. 1 \in Int /\ issued \in Int
  BY BoxAssumption DEF TypeOK
<1>1. IsFiniteSet(1 .. issued)
  BY <1>0, FS_Interval
<1>2. Rows \in SUBSET (1 .. issued)
  BY DEF TypeOK, Rows
<1> QED BY <1>1, <1>2, FS_Subset

(* Only a join adds a row.                                                 *)
LEMMA OthersShrinkRows ==
  ASSUME [Next]_boxVars,
         \A s \in Session, wants \in BOOLEAN : ~Join(s, wants)
  PROVE  Rows' \subseteq Rows
<1>1. ASSUME NEW gone \in SUBSET Kept, NEW dropsClaim \in BOOLEAN, Leave(gone, dropsClaim)
      PROVE  Rows' \subseteq Rows
  BY <1>1 DEF Leave, Restrict, Buried, Kept, Lapsed, Remembered, Rows
<1>2. CASE Purge
  BY <1>1, <1>2 DEF Purge
<1>3. ASSUME NEW s \in Session, LeaveSession(s) PROVE Rows' \subseteq Rows
  BY <1>1, <1>3 DEF LeaveSession, LiveOf
<1>4. ASSUME NEW s \in Session, NEW id \in TicketId, Done(s, id)
      PROVE  Rows' \subseteq Rows
  BY <1>1, <1>4 DEF Done, LiveOf
<1>5. ASSUME NEW s \in Session, NEW id \in TicketId, NEW wants \in BOOLEAN,
             Touch(s, id, wants)
      PROVE  Rows' \subseteq Rows
  <2>1. DOMAIN boxQueue' = Kept
    BY <1>5 DEF Touch, PurgedQueue, Restrict
  <2>2. DOMAIN boxTombstones' = Remembered \cup Lapsed
    BY <1>5 DEF Touch, Buried
  <2> QED BY <2>1, <2>2 DEF Rows, Kept, Lapsed, Remembered
<1>6. CASE Tick
  BY <1>6 DEF Tick, Rows
<1>7. CASE UNCHANGED boxVars
  BY <1>7 DEF boxVars, Rows
<1>8. ASSUME NEW s \in Session, DoneUnseen(s) PROVE Rows' \subseteq Rows
  BY <1>2, <1>3, <1>8 DEF DoneUnseen
<1>9. ASSUME NEW s \in Session, RunReaped(s) PROVE Rows' \subseteq Rows
  BY <1>3, <1>9 DEF RunReaped
<1> QED BY <1>2, <1>4, <1>5, <1>6, <1>7, <1>8, <1>9 DEF Next, Call

LEMMA FootprintStep ==
  ASSUME TypeOK, Footprint, [Next]_boxVars
  PROVE  Footprint'
<1> USE BoxAssumption
<1>1. CASE \A s \in Session, wants \in BOOLEAN : ~Join(s, wants)
  <2>1. Rows' \in SUBSET Rows
    BY <1>1, OthersShrinkRows
  <2>2. /\ IsFiniteSet(Rows') /\ Cardinality(Rows') <= Cardinality(Rows)
        /\ Cardinality(Rows') \in Nat /\ Cardinality(Rows) \in Nat
    BY <2>1, RowsFinite, FS_Subset, FS_CardinalityType
  <2> QED BY <2>2 DEF Footprint, Rows
<1>2. ASSUME NEW s \in Session, NEW wants \in BOOLEAN, Join(s, wants)
      PROVE  Footprint'
  <2> DEFINE dead == Remembered \cup Lapsed
  <2>1. /\ IsFiniteSet(Kept) /\ IsFiniteSet(dead)
    BY RowsFinite, FS_Subset DEF Rows, Kept, Remembered, Lapsed
  <2>2. Cardinality(Kept) \in Nat /\ Cardinality(dead) \in Nat
    BY <2>1, FS_CardinalityType
  <2>3. Cardinality(Kept) < MaxQueue /\ Cardinality(dead) < MaxTombstones
    BY <1>2 DEF Join, Room
  <2>4. Rows' = (Kept \cup dead) \cup {issued + 1}
    BY <1>2 DEF Join, Buried, Rows
  <2>5. /\ IsFiniteSet(Kept \cup dead)
        /\ Cardinality(Kept \cup dead) =
             Cardinality(Kept) + Cardinality(dead) - Cardinality(Kept \cap dead)
    BY <2>1, FS_Union
  <2>6. IsFiniteSet(Kept \cap dead) /\ Cardinality(Kept \cap dead) \in Nat
    BY <2>1, FS_Subset, FS_CardinalityType
  <2>7. Cardinality(Kept \cup dead) <= Cardinality(Kept) + Cardinality(dead)
    BY <2>2, <2>5, <2>6
  <2>8. Cardinality(Kept \cup dead) \in Nat
    BY <2>5, FS_CardinalityType
  <2>9. Cardinality(Rows') <= Cardinality(Kept \cup dead) + 1
    <3> DEFINE old == Kept \cup dead
    <3>1. Cardinality(old \cup {issued + 1}) =
            IF issued + 1 \in old THEN Cardinality(old) ELSE Cardinality(old) + 1
      BY <2>5, FS_AddElement
    <3> HIDE DEF old
    <3>2. Cardinality(old \cup {issued + 1}) <= Cardinality(old) + 1
      BY <2>8, <3>1 DEF old
    <3> QED BY <2>4, <3>2 DEF old
  <2>10. Cardinality(Rows') \in Nat
    BY <2>4, <2>5, FS_AddElement, FS_CardinalityType
  <2> HIDE DEF dead
  <2>11. Cardinality(Rows') <= MaxQueue + MaxTombstones - 1
    BY <2>2, <2>3, <2>7, <2>8, <2>9, <2>10
  <2> QED BY <2>11 DEF Footprint, Rows
<1> QED BY <1>1, <1>2

(* The queue and the tombstones together stay within MAX_SESSION_QUEUE +   *)
(* MAX_OPERATION_TOMBSTONES - 1 rows although no departure checks a limit. *)
THEOREM BoxFootprint == Spec => []Footprint
<1>1. Init => Footprint
  <2>1. SUFFICES ASSUME Init PROVE Footprint
    OBVIOUS
  <2>2. DOMAIN boxQueue = {} /\ DOMAIN boxTombstones = {}
    BY <2>1, SMT DEF Init
  <2> QED BY <2>2, FS_EmptySet, BoxAssumption DEF Footprint
<1>2. TypeOK /\ Footprint /\ [Next]_boxVars => Footprint'
  BY FootprintStep
<1> QED BY <1>1, <1>2, BoxSafety, PTL DEF Spec
=============================================================================
