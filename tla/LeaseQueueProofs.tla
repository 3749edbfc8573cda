-------------------------- MODULE LeaseQueueProofs --------------------------
(***************************************************************************)
(* TLAPS proofs about LeaseQueue, for any clients, threads, capacities and *)
(* bounds: the types, RoomKept, OrderKept, CancelHolds and                 *)
(* PreferenceBounded.                                                      *)
(*                                                                         *)
(* Inv says where every claim is: a call that has no ticket yet is about a *)
(* claim that nothing holds (Coming), one that grants is about the claim   *)
(* in flight and is the only one (Flies, Alone), a reservation belongs to  *)
(* the call that took it (Backed).  The capacity is kept because a grant   *)
(* whose ticket has left the queue leaves room for it to return (Room).    *)
(*                                                                         *)
(* Cancels follows a cancelled claim through the grant it is under; the    *)
(* ticket of a grant that was taken back finds the tombstone.  Passing is  *)
(* about the streak of grants past the same tickets: the count of the      *)
(* grace keeps up with its length (Bounds), because a client that is ahead *)
(* of them, in the queue or on its way, got there within its grace and has *)
(* not used it up (Ahead).  Both hold until a grace runs out late.         *)
(***************************************************************************)
EXTENDS LeaseQueue, SequenceTheorems, WellFoundedInduction, TLAPS

-----------------------------------------------------------------------------
(* The inductive invariant.                                                *)

Fresh == {"await", "queueing", "enqueueing", "granting"}
Grant == {"granting", "claiming", "publishing"}
Queued == ToSet(queue)
Live == (Queued \cup ToSet(reserved) \cup {slot.active, slot.inflight}) \ {Nothing}

Distinct(T, s) == s \in Seq(T) /\ IsInjective(s)
PcSet == {"idle", "await", "queueing", "enqueueing", "waiting", "granting", "claiming",
          "publishing"}
Job == [pc : PcSet, claim : ClaimOrNothing, fifo : BOOLEAN]
Slot == [active : ClaimOrNothing, inflight : ClaimOrNothing, releasing : ClaimOrNothing,
         handoff : BOOLEAN, disturbed : BOOLEAN, fault : BOOLEAN]
Streaks == [client : Client \cup {Nobody}, length : 0 .. MaxPref + 2, past : SUBSET Claim,
            late : BOOLEAN]
Types ==
  /\ Distinct(Claim, queue) /\ Distinct(Claim, reserved)
  /\ slot \in Slot /\ tomb \subseteq Client /\ grace \in Client \cup {Nobody}
  /\ used \in [Client -> 0 .. MaxPref] /\ job \in [Thread -> Job]
  /\ taken \subseteq Claim /\ streak \in Streaks

(* Each job is about a claim of its own client; one that has no ticket     *)
(* and no lease yet is about a claim of its own.                           *)
About(t) ==
  IF Pc(t) = "idle" THEN job[t] = Idle
  ELSE job[t].claim \in Claim /\ Whose(job[t].claim) = Of[t]
Coming(t) == Pc(t) \in Fresh =>
  /\ job[t].claim.by = t /\ ~job[t].fifo
  /\ job[t].claim \notin Queued /\ job[t].claim # slot.active
  /\ Pc(t) # "granting" => job[t].claim # slot.inflight

(* The grant in flight.                                                    *)
Flies(t) == Pc(t) \in Grant =>
  /\ slot.inflight = job[t].claim
  /\ Pc(t) = "publishing" => slot.active = job[t].claim /\ job[t].claim \notin Queued
  /\ Pc(t) # "publishing" => slot.active = Nothing
  /\ Pc(t) = "claiming" => job[t].fifo
Alone == \A t, u \in Thread : Pc(t) \in Grant /\ Pc(u) \in Grant => t = u
Flown == slot.inflight # Nothing => \E t \in Thread : Pc(t) \in Grant
Backed == \A k \in ToSet(reserved) :
  Pc(k.by) \in {"queueing", "enqueueing"} /\ job[k.by].claim = k
Given == slot.active \notin Queued

(* A ticket whose grant is in flight and that left the queue may return.   *)
Room ==
  /\ Capacity <= MaxQueue + 1
  /\ \A t \in Thread : Pc(t) \in Grant /\ job[t].fifo /\ job[t].claim \notin Queued =>
       Capacity <= MaxQueue

Inv ==
  /\ Types
  /\ \A t \in Thread : About(t) /\ Coming(t) /\ Flies(t)
  /\ Alone /\ Flown /\ Backed /\ Given /\ Room

(* What is cancelled.                                                      *)
Gone(t) ==
  /\ Pc(t) \in {"await", "granting"} => job[t].claim \notin taken
  /\ Pc(t) \in {"claiming", "publishing"} /\ job[t].claim \in taken => Cancelled(job[t].claim)
  /\ Pc(t) = "publishing" /\ ~slot.disturbed =>
       job[t].claim \notin taken /\ ~Cancelled(job[t].claim)
Cancels ==
  /\ taken \cap (Queued \cup ToSet(reserved)) = {}
  /\ \A t \in Thread : Gone(t)
  /\ Settled => slot.active \notin taken /\ ~Cancelled(slot.active)

(* Whom the lease went past.                                               *)
Single ==
  /\ \A k, l \in Live : Whose(k) = Whose(l) => k = l
  /\ \A t \in Thread : Pc(t) # "idle" => \A k \in Live : Whose(k) = Of[t] => k = job[t].claim
Returns(c) == grace = c /\ used[c] < MaxPref
Bounds == ~streak.late =>
  /\ streak.past # {} => streak.length <= MaxPref + 1
  /\ streak.past \cap (Queued \cup {slot.inflight}) # {} => streak.length <= used[streak.client] + 1
Ahead == ~streak.late =>
  /\ streak.past \cap Queued # {} /\ slot.inflight # Nothing
       /\ Whose(slot.inflight) = streak.client => Returns(streak.client)
  /\ \A k \in Queued, x \in Queued \cap streak.past :
       Whose(k) = streak.client /\ Before(queue, k, x) => Returns(streak.client)
Stood ==
  /\ \A k \in streak.past : Whose(k) # streak.client
  /\ \A t \in Thread : Pc(t) \in Fresh => job[t].claim \notin streak.past
  /\ Settled => streak.client = Whose(slot.active)
  /\ streak.past # {} => streak.client # Nobody
Passing == Single /\ Bounds /\ Ahead /\ Stood

-----------------------------------------------------------------------------
(* Sequences without duplicates: what the operations on the queue leave.   *)

(* The entries of r stand in the order they have in s.                     *)
Ordered(r, s) == \A k, l : Before(r, k, l) => Before(s, k, l)

LEMMA Empty ==
  ASSUME NEW T
  PROVE  Distinct(T, <<>>) /\ ToSet(<<>>) = {} /\ Len(<<>>) = 0
BY DEF Distinct, IsInjective, ToSet

LEMMA AppendHolds ==
  ASSUME NEW T, NEW s, Distinct(T, s), NEW x \in T, x \notin ToSet(s)
  PROVE  /\ Distinct(T, Append(s, x)) /\ ToSet(Append(s, x)) = ToSet(s) \cup {x}
         /\ Len(Append(s, x)) = Len(s) + 1 /\ Len(s) \in Nat
         /\ \A k, l : Before(Append(s, x), k, l) => Before(s, k, l) \/ l = x
<1> DEFINE r == Append(s, x)
           n == Len(s)
<1>1. /\ n \in Nat /\ r \in Seq(T) /\ Len(r) = n + 1 /\ r[n + 1] = x
      /\ DOMAIN s = 1 .. n /\ DOMAIN r = 1 .. n + 1 /\ \A i \in 1 .. n : r[i] = s[i]
  BY DEF Distinct
<1>2. Distinct(T, r)
  BY <1>1 DEF Distinct, IsInjective, ToSet
<1>3. ToSet(r) = ToSet(s) \cup {x}
  BY <1>1 DEF ToSet
<1>4. \A k, l : Before(r, k, l) => Before(s, k, l) \/ l = x
  BY <1>1 DEF Before
<1> QED BY <1>1, <1>2, <1>3, <1>4

LEMMA PushHolds ==
  ASSUME NEW T, NEW s, Distinct(T, s), NEW x \in T, x \notin ToSet(s)
  PROVE  /\ Distinct(T, <<x>> \o s) /\ ToSet(<<x>> \o s) = ToSet(s) \cup {x}
         /\ Len(<<x>> \o s) = Len(s) + 1 /\ Len(s) \in Nat
         /\ \A k, l : Before(<<x>> \o s, k, l) => l # x /\ (k = x \/ Before(s, k, l))
<1> DEFINE r == <<x>> \o s
           n == Len(s)
<1>1. /\ n \in Nat /\ r \in Seq(T) /\ Len(r) = n + 1 /\ r[1] = x
      /\ DOMAIN s = 1 .. n /\ DOMAIN r = 1 .. n + 1 /\ \A i \in 2 .. n + 1 : r[i] = s[i - 1]
  BY DEF Distinct
<1> HIDE DEF r
<1>2. \A i \in 1 .. n : s[i] = r[i + 1] /\ s[i] # x
  BY <1>1, SMTT(30) DEF ToSet
<1>3. Distinct(T, r)
  <2>1. ASSUME NEW i \in 1 .. n + 1, NEW j \in 1 .. n + 1, r[i] = r[j] PROVE i = j
    <3>1. \A m, o \in 1 .. n : s[m] = s[o] => m = o
      BY <1>1 DEF Distinct, IsInjective
    <3>2. CASE i = 1 \/ j = 1
      <4>1. \A m \in 2 .. n + 1 : m - 1 \in 1 .. n /\ r[m] = s[m - 1] /\ r[m] # x
        BY <1>1, <1>2
      <4> QED BY <1>1, <2>1, <3>2, <4>1
    <3>3. CASE i # 1 /\ j # 1
      <4>1. i - 1 \in 1 .. n /\ j - 1 \in 1 .. n /\ s[i - 1] = s[j - 1]
        BY <1>1, <2>1, <3>3
      <4> QED BY <1>1, <3>1, <3>3, <4>1
    <3> QED BY <3>2, <3>3
  <2> QED BY <1>1, <2>1 DEF Distinct, IsInjective
<1>4. ToSet(r) = ToSet(s) \cup {x}
  <2>1. ASSUME NEW i \in 1 .. n + 1 PROVE r[i] \in ToSet(s) \cup {x}
    <3>1. i = 1 \/ (i - 1 \in 1 .. n /\ r[i] = s[i - 1])
      BY <1>1
    <3> QED BY <1>1, <3>1 DEF ToSet
  <2>2. \A i \in 1 .. n : \E j \in 1 .. n + 1 : s[i] = r[j]
    <3>1. \A i \in 1 .. n : i + 1 \in 1 .. n + 1 /\ s[i] = r[i + 1]
      BY <1>1, <1>2
    <3> QED BY <3>1
  <2>3. x = r[1] /\ 1 \in 1 .. n + 1
    BY <1>1
  <2>4. ToSet(r) \subseteq ToSet(s) \cup {x}
    BY <1>1, <2>1 DEF ToSet
  <2>5. x \in ToSet(r)
    BY <1>1, <2>3 DEF ToSet
  <2>6. ToSet(s) \subseteq ToSet(r)
    BY <1>1, <2>2 DEF ToSet
  <2> QED BY <2>4, <2>5, <2>6
<1>5. ASSUME NEW k, NEW l, Before(r, k, l) PROVE l # x /\ (k = x \/ Before(s, k, l))
  <2>1. PICK i \in 1 .. n + 1, j \in 1 .. n + 1 : i < j /\ r[i] = k /\ r[j] = l
    BY <1>1, <1>5 DEF Before
  <2>2. j - 1 \in 1 .. n /\ s[j - 1] = l /\ l # x
    BY <1>1, <1>2, <2>1
  <2>3. CASE i = 1
    BY <1>1, <2>1, <2>2, <2>3
  <2>4. CASE i # 1
    <3>1. i - 1 \in 1 .. n /\ s[i - 1] = k /\ i - 1 < j - 1
      BY <1>1, <2>1, <2>4
    <3> QED BY <1>1, <2>2, <3>1 DEF Before
  <2> QED BY <2>3, <2>4
<1> QED BY <1>1, <1>3, <1>4, <1>5 DEF r

LEMMA WithoutHolds ==
  ASSUME NEW T, NEW s, Distinct(T, s), NEW k
  PROVE  /\ Distinct(T, Without(s, k)) /\ ToSet(Without(s, k)) = ToSet(s) \ {k}
         /\ Len(Without(s, k)) = IF k \in ToSet(s) THEN Len(s) - 1 ELSE Len(s)
         /\ Len(s) \in Nat /\ Len(Without(s, k)) \in Nat
         /\ Ordered(Without(s, k), s)
<1> DEFINE n == Len(s)
           r == Without(s, k)
<1>1. n \in Nat /\ Len(s) = n /\ DOMAIN s = 1 .. n /\ s \in [1 .. n -> T]
  BY DEF Distinct
<1> HIDE DEF n
<1>2. CASE k \notin ToSet(s)
  BY <1>1, <1>2 DEF Without, Ordered
<1>3. CASE k \in ToSet(s)
  <2> DEFINE h == CHOOSE i \in DOMAIN s : s[i] = k
  <2>1. h \in 1 .. n /\ s[h] = k
    BY <1>1, <1>3 DEF ToSet
  <2>2. r = SubSeq(s, 1, h - 1) \o SubSeq(s, h + 1, n)
    BY <1>1, <1>3 DEF Without, RemoveAt
  <2> HIDE DEF h, r
  <2>3. /\ r \in Seq(T) /\ Len(r) = n - 1 /\ DOMAIN r = 1 .. n - 1 /\ n - 1 \in Nat
        /\ \A i \in 1 .. n - 1 : r[i] = s[IF i < h THEN i ELSE i + 1]
    <3> DEFINE a == SubSeq(s, 1, h - 1)
               b == SubSeq(s, h + 1, n)
    <3>1. a \in Seq(T) /\ Len(a) = h - 1 /\ \A i \in 1 .. h - 1 : a[i] = s[i]
      BY <1>1, <2>1 DEF Distinct
    <3>2. b \in Seq(T) /\ Len(b) = n - h /\ \A i \in 1 .. n - h : b[i] = s[i + h]
      <4>1. h + 1 \in Int /\ n \in Int /\ \A i \in h + 1 .. n : s[i] \in T
        BY <1>1, <2>1
      <4>2. /\ b \in Seq(T) /\ Len(b) = IF h + 1 <= n THEN n - (h + 1) + 1 ELSE 0
            /\ \A i \in 1 .. n - (h + 1) + 1 : b[i] = s[h + 1 + i - 1]
        BY <4>1, SubSeqProperties
      <4>3. n - (h + 1) + 1 = n - h /\ \A i \in 1 .. n - h : h + 1 + i - 1 = i + h
        BY <1>1, <2>1
      <4> HIDE DEF b
      <4>4. Len(b) = n - h
        BY <1>1, <2>1, <4>2
      <4>5. ASSUME NEW i \in 1 .. n - h PROVE b[i] = s[i + h]
        BY <4>2, <4>3
      <4> QED BY <4>2, <4>4, <4>5
    <3> HIDE DEF a, b
    <3>3. /\ a \o b \in Seq(T) /\ Len(a \o b) = n - 1
          /\ \A i \in 1 .. n - 1 : (a \o b)[i] = IF i < h THEN a[i] ELSE b[i - h + 1]
      <4>1. a \o b \in Seq(T) /\ Len(a \o b) = (h - 1) + (n - h)
        <5>1. a \in Seq(T) /\ b \in Seq(T) /\ Len(a) = h - 1 /\ Len(b) = n - h
          BY <3>1, <3>2
        <5> HIDE <3>1, <3>2
        <5>2. a \o b \in Seq(T) /\ Len(a \o b) = Len(a) + Len(b)
          BY <5>1, ConcatProperties
        <5> QED BY <5>1, <5>2
      <4>2. ASSUME NEW i \in 1 .. n - 1
            PROVE  (a \o b)[i] = IF i < h THEN a[i] ELSE b[i - h + 1]
        <5>1. i - (h - 1) = i - h + 1 /\ i \in 1 .. (h - 1) + (n - h) /\ (i < h <=> i <= h - 1)
          BY <1>1, <2>1
        <5> QED BY <3>1, <3>2, <5>1, SMTT(30)
      <4>3. (h - 1) + (n - h) = n - 1
        BY <1>1, <2>1
      <4> QED BY <4>1, <4>2, <4>3
    <3>4. r = a \o b
      BY <2>2 DEF a, b
    <3>5. DOMAIN r = 1 .. n - 1 /\ n - 1 \in Nat
      <4>1. r \in Seq(T) /\ Len(r) = n - 1
        BY <3>3, <3>4
      <4>2. DOMAIN r = 1 .. Len(r)
        BY <4>1
      <4> QED BY <1>1, <2>1, <4>1, <4>2
    <3>6. ASSUME NEW i \in 1 .. n - 1 PROVE r[i] = s[IF i < h THEN i ELSE i + 1]
      <4>1. CASE i < h
        BY <1>1, <2>1, <3>1, <3>3, <3>4, <4>1
      <4>2. CASE ~(i < h)
        <5>1. i - h + 1 \in 1 .. n - h /\ (i - h + 1) + h = i + 1
          BY <1>1, <2>1, <4>2
        <5> QED BY <3>2, <3>3, <3>4, <4>2, <5>1
      <4> QED BY <4>1, <4>2
    <3> QED BY <3>3, <3>4, <3>5, <3>6
  <2>4. \A i, j \in 1 .. n : s[i] = s[j] => i = j
    BY <1>1 DEF Distinct, IsInjective
  <2>5. Distinct(T, r)
    BY <1>1, <2>1, <2>3, <2>4 DEF Distinct, IsInjective
  <2>6. ToSet(r) = ToSet(s) \ {k}
    <3>1. ASSUME NEW i \in 1 .. n - 1 PROVE r[i] \in ToSet(s) \ {k}
      <4>1. PICK j \in 1 .. n : j # h /\ r[i] = s[j]
        <5>1. CASE i < h
          BY <1>1, <2>1, <2>3, <5>1
        <5>2. CASE ~(i < h)
          BY <1>1, <2>1, <2>3, <5>2
        <5> QED BY <5>1, <5>2
      <4>2. s[j] \in ToSet(s)
        BY <1>1, <4>1 DEF ToSet
      <4>3. s[j] # s[h]
        BY <2>1, <2>4, <4>1
      <4> QED BY <2>1, <4>1, <4>2, <4>3
    <3>2. ASSUME NEW i \in 1 .. n, i # h PROVE \E j \in 1 .. n - 1 : s[i] = r[j]
      <4>1. CASE i < h
        BY <1>1, <2>1, <2>3, <4>1
      <4>2. CASE i > h
        <5>1. i - 1 \in 1 .. n - 1 /\ ~(i - 1 < h) /\ (i - 1) + 1 = i
          BY <1>1, <2>1, <4>2
        <5> QED BY <2>3, <5>1
      <4> QED BY <2>1, <3>2, <4>1, <4>2
    <3>3. ToSet(r) \subseteq ToSet(s) \ {k}
      BY <2>3, <3>1 DEF ToSet
    <3>4. ASSUME NEW l \in ToSet(s) \ {k} PROVE l \in ToSet(r)
      <4>1. PICK i \in 1 .. n : s[i] = l
        BY <1>1 DEF ToSet
      <4>2. PICK j \in 1 .. n - 1 : s[i] = r[j]
        BY <2>1, <3>2, <3>4, <4>1
      <4> QED BY <2>3, <4>1, <4>2 DEF ToSet
    <3> QED BY <3>3, <3>4
  <2>7. Ordered(r, s)
    <3>1. ASSUME NEW x, NEW y, Before(r, x, y) PROVE Before(s, x, y)
      <4>1. PICK i \in 1 .. n - 1, j \in 1 .. n - 1 : i < j /\ r[i] = x /\ r[j] = y
        BY <2>3, <3>1 DEF Before
      <4> DEFINE at(m) == IF m < h THEN m ELSE m + 1
      <4>2. at(i) \in 1 .. n /\ at(j) \in 1 .. n /\ at(i) < at(j)
        BY <1>1, <2>1, <4>1
      <4>3. s[at(i)] = x /\ s[at(j)] = y
        BY <2>3, <4>1
      <4> QED BY <1>1, <4>2, <4>3 DEF Before
    <3> QED BY <3>1 DEF Ordered
  <2> QED BY <1>1, <1>3, <2>3, <2>5, <2>6, <2>7 DEF r
<1> QED BY <1>2, <1>3

LEMMA HeadHolds ==
  ASSUME NEW T, NEW s, Distinct(T, s), s # <<>>
  PROVE  /\ Head(s) \in ToSet(s) /\ Distinct(T, Tail(s)) /\ Len(s) \in Nat
         /\ ToSet(Tail(s)) = ToSet(s) \ {Head(s)} /\ Len(Tail(s)) = Len(s) - 1
         /\ Ordered(Tail(s), s) /\ \A k : ~Before(s, k, Head(s))
         /\ \A l \in ToSet(s) : l # Head(s) => Before(s, Head(s), l)
<1> DEFINE n == Len(s)
           r == Tail(s)
<1>1. /\ n \in Nat /\ n # 0 /\ Head(s) = s[1] /\ DOMAIN s = 1 .. n /\ r \in Seq(T)
      /\ Len(r) = n - 1 /\ DOMAIN r = 1 .. n - 1 /\ \A i \in 1 .. n - 1 : r[i] = s[i + 1]
  BY DEF Distinct
<1> HIDE DEF r
<1>2. \A i, j \in 1 .. n : s[i] = s[j] => i = j
  BY <1>1 DEF Distinct, IsInjective
<1>3. Head(s) \in ToSet(s) /\ \A k : ~Before(s, k, Head(s))
  BY <1>1, <1>2 DEF ToSet, Before
<1>4. \A l \in ToSet(s) : l # Head(s) => Before(s, Head(s), l)
  BY <1>1 DEF ToSet, Before
<1>5. Distinct(T, r)
  BY <1>1, <1>2, SMTT(30) DEF Distinct, IsInjective
<1>6. ToSet(r) = ToSet(s) \ {Head(s)}
  <2>1. \A i \in 1 .. n - 1 : r[i] \in ToSet(s) \ {Head(s)}
    BY <1>1, <1>2, SMTT(30) DEF ToSet
  <2>2. ASSUME NEW i \in 1 .. n, i # 1 PROVE \E j \in 1 .. n - 1 : s[i] = r[j]
    <3>1. i - 1 \in 1 .. n - 1 /\ (i - 1) + 1 = i
      BY <1>1, <2>2
    <3>2. r[i - 1] = s[i]
      BY <1>1, <3>1
    <3> QED BY <3>1, <3>2
  <2>3. ToSet(r) \subseteq ToSet(s) \ {Head(s)}
    BY <1>1, <2>1 DEF ToSet
  <2>4. ASSUME NEW l \in ToSet(s) \ {Head(s)} PROVE l \in ToSet(r)
    <3>1. PICK i \in 1 .. n : s[i] = l
      BY <1>1 DEF ToSet
    <3>2. i # 1
      BY <1>1, <2>4, <3>1
    <3>3. PICK j \in 1 .. n - 1 : s[i] = r[j]
      BY <2>2, <3>2
    <3> QED BY <1>1, <3>1, <3>3 DEF ToSet
  <2> QED BY <2>3, <2>4
<1>7. Ordered(r, s)
  BY <1>1, SMTT(30) DEF Ordered, Before
<1> QED BY <1>1, <1>3, <1>4, <1>5, <1>6, <1>7 DEF r

(* One comes before the other, not both.                                   *)
LEMMA OneWay ==
  ASSUME NEW T, NEW s, Distinct(T, s), NEW k, NEW l, Before(s, k, l)
  PROVE  ~Before(s, l, k) /\ k # l /\ k \in ToSet(s) /\ l \in ToSet(s)
<1>1. DOMAIN s = 1 .. Len(s) /\ Len(s) \in Nat
  BY DEF Distinct
<1>2. PICK i \in DOMAIN s, j \in DOMAIN s : i < j /\ s[i] = k /\ s[j] = l
  BY DEF Before
<1>3. ASSUME Before(s, l, k) PROVE FALSE
  <2>1. PICK u \in DOMAIN s, v \in DOMAIN s : u < v /\ s[u] = l /\ s[v] = k
    BY <1>3 DEF Before
  <2>2. u = j /\ v = i
    BY <1>2, <2>1 DEF Distinct, IsInjective
  <2> QED BY <1>1, <1>2, <2>1, <2>2
<1>4. k # l
  BY <1>1, <1>2 DEF Distinct, IsInjective
<1> QED BY <1>2, <1>3, <1>4 DEF ToSet

-----------------------------------------------------------------------------
(* The helpers of the model.                                               *)

LEMMA MinOf ==
  ASSUME NEW x \in Nat, NEW y \in Nat
  PROVE  Min({x, y}) = IF x <= y THEN x ELSE y
<1> DEFINE m == IF x <= y THEN x ELSE y
<1>1. m \in {x, y} /\ \A z \in {x, y} : m <= z
  OBVIOUS
<1>2. \A v \in {x, y} : (\A z \in {x, y} : v <= z) => v = m
  OBVIOUS
<1> QED BY <1>1, <1>2 DEF Min

LEMMA ClaimIs ==
  ASSUME NEW k \in Claim
  PROVE  /\ k # Nothing /\ k.by \in Thread /\ k.op \in Op
         /\ Whose(k) = Of[k.by] /\ Whose(k) \in Client /\ Whose(k) # Nobody
BY QueueAssumption DEF Claim, Nothing, Whose, Nobody

LEMMA ClaimOf ==
  ASSUME NEW t \in Thread, NEW op \in Op
  PROVE  [by |-> t, op |-> op] \in Claim /\ [by |-> t, op |-> op] # Nothing
BY ClaimIs DEF Claim

LEMMA NothingIs == Whose(Nothing) = Nobody /\ Nothing \notin Claim /\ Nobody \notin Client
BY QueueAssumption, ClaimIs DEF Whose, Nobody

LEMMA FirstIs ==
  ASSUME NEW s, Distinct(Claim, s), NEW c \in Client
  PROVE  /\ First(s, c) # Nothing =>
              First(s, c) \in ToSet(s) /\ Whose(First(s, c)) = c /\ First(s, c).op = "op"
         /\ First(s, c) = Nothing => \A k \in ToSet(s) : Whose(k) = c => k.op # "op"
<1> DEFINE mine == {i \in DOMAIN s : Whose(s[i]) = c /\ s[i].op = "op"}
<1>1. DOMAIN s = 1 .. Len(s) /\ Len(s) \in Nat /\ \A i \in DOMAIN s : s[i] \in Claim
  BY DEF Distinct
<1>2. CASE mine = {}
  BY <1>2 DEF First, ToSet
<1>3. CASE mine # {}
  <2>1. mine \subseteq Nat
    BY <1>1
  <2>2. PICK i \in mine : \A j \in mine : <<j, i>> \notin OpToRel(<, Nat)
    BY <1>3, <2>1, WFMin, NatLessThanWellFounded
  <2>3. \A j \in mine : i <= j
    <3>1. ASSUME NEW j \in mine, j < i PROVE FALSE
      <4>1. <<j, i>> \in OpToRel(<, Nat)
        BY <2>1, <3>1 DEF OpToRel
      <4> QED BY <2>2, <4>1
    <3> QED BY <2>1, <3>1
  <2> DEFINE f == CHOOSE h \in mine : \A j \in mine : h <= j
  <2>4. f \in mine
    BY <2>3
  <2>5. First(s, c) = s[f]
    BY <1>3 DEF First
  <2> HIDE DEF f
  <2>6. /\ First(s, c) \in ToSet(s) /\ Whose(First(s, c)) = c /\ First(s, c).op = "op"
        /\ First(s, c) # Nothing
    BY <1>1, <2>4, <2>5, ClaimIs DEF ToSet
  <2> QED BY <2>6
<1> QED BY <1>2, <1>3

-----------------------------------------------------------------------------
(* What the steps do to the jobs and to the two sequences.                 *)

LEMMA GoDoes ==
  ASSUME Types, NEW t \in Thread, NEW pc \in PcSet, NEW k \in ClaimOrNothing,
         NEW fifo \in BOOLEAN, Go(t, pc, k, fifo)
  PROVE  /\ job' \in [Thread -> Job] /\ \A u \in Thread \ {t} : job'[u] = job[u]
         /\ job'[t].pc = pc /\ job'[t].claim = k /\ (job'[t].fifo <=> fifo)
<1>1. job \in [Thread -> Job]
  BY DEF Types
<1> QED BY <1>1 DEF Go, Job

LEMMA DoneDoes ==
  ASSUME Types, NEW t \in Thread, Done(t)
  PROVE  /\ job' \in [Thread -> Job] /\ \A u \in Thread \ {t} : job'[u] = job[u]
         /\ job'[t] = Idle /\ job'[t].pc = "idle" /\ ~job'[t].fifo
<1>1. job \in [Thread -> Job]
  BY DEF Types
<1> QED BY <1>1 DEF Done, Idle, Job, PcSet, ClaimOrNothing

LEMMA Entries ==
  ASSUME NEW s, Distinct(Claim, s)
  PROVE  ToSet(s) \subseteq Claim /\ Len(s) \in Nat /\ (s = <<>> <=> ToSet(s) = {})
<1>1. s \in Seq(Claim) /\ DOMAIN s = 1 .. Len(s) /\ Len(s) \in Nat
  BY DEF Distinct
<1>2. ToSet(s) \subseteq Claim
  BY <1>1 DEF ToSet
<1>3. s # <<>> => 1 \in DOMAIN s
  BY <1>1
<1>4. s = <<>> => DOMAIN s = {}
  BY <1>1
<1> QED BY <1>1, <1>2, <1>3, <1>4 DEF ToSet

LEMMA ReservesDoes ==
  ASSUME Types, NEW t \in Thread, NEW k \in Claim, k \notin ToSet(reserved),
         NEW pc \in PcSet, Reserves(t, k, pc)
  PROVE  /\ job' \in [Thread -> Job] /\ \A u \in Thread \ {t} : job'[u] = job[u]
         /\ Distinct(Claim, reserved')
         /\ \/ /\ Capacity < MaxQueue /\ Len(reserved') = Len(reserved) + 1
               /\ ToSet(reserved') = ToSet(reserved) \cup {k}
               /\ job'[t].pc = pc /\ job'[t].claim = k /\ ~job'[t].fifo
            \/ reserved' = reserved /\ job'[t] = Idle /\ job'[t].pc = "idle" /\ ~job'[t].fifo
<1>1. Distinct(Claim, reserved) /\ k \in ClaimOrNothing
  BY DEF Types, ClaimOrNothing
<1>2. CASE Capacity < MaxQueue
  <2>1. reserved' = Append(reserved, k) /\ Go(t, pc, k, FALSE)
    BY <1>2 DEF Reserves
  <2>2. /\ Distinct(Claim, reserved') /\ Len(reserved') = Len(reserved) + 1
        /\ ToSet(reserved') = ToSet(reserved) \cup {k}
    BY <1>1, <2>1, AppendHolds
  <2>3. /\ job' \in [Thread -> Job] /\ \A u \in Thread \ {t} : job'[u] = job[u]
        /\ job'[t].pc = pc /\ job'[t].claim = k /\ ~job'[t].fifo
    BY <1>1, <2>1, GoDoes
  <2> QED BY <1>2, <2>2, <2>3
<1>3. CASE ~(Capacity < MaxQueue)
  <2>1. reserved' = reserved /\ Done(t)
    BY <1>3 DEF Reserves
  <2> QED BY <1>1, <2>1, DoneDoes
<1> QED BY <1>2, <1>3

-----------------------------------------------------------------------------
(* The invariant, step by step.                                            *)

Reserved == ToSet(reserved)
Books ==
  /\ tomb' \subseteq Client /\ grace' \in Client \cup {Nobody}
  /\ used' \in [Client -> 0 .. MaxPref] /\ taken' \subseteq Claim /\ streak' \in Streaks
Shapes(t) == About(t) /\ Coming(t) /\ Flies(t)

LEMMA InvGives ==
  ASSUME Inv
  PROVE  /\ Types /\ slot \in Slot /\ job \in [Thread -> Job]
         /\ \A t \in Thread : job[t].pc \in PcSet /\ job[t].fifo \in BOOLEAN
         /\ \A k \in Queued \cup Reserved : k \in Claim /\ k.by \in Thread /\ k # Nothing
         /\ \A k \in Reserved : k \notin Queued /\ k # slot.inflight /\ k # slot.active
         /\ Len(queue) \in Nat /\ Len(reserved) \in Nat /\ MaxQueue \in Nat
         /\ Distinct(Claim, queue) /\ Distinct(Claim, reserved)
<1>1. Types /\ slot \in Slot /\ job \in [Thread -> Job]
  BY DEF Inv, Types
<1>2. \A t \in Thread : job[t].pc \in PcSet /\ job[t].fifo \in BOOLEAN
  BY <1>1 DEF Job
<1>3. \A k \in Queued \cup Reserved : k \in Claim /\ k.by \in Thread /\ k # Nothing
  BY <1>1, Entries, ClaimIs DEF Types, Queued, Reserved
<1>4. \A k \in Reserved : k \notin Queued /\ k # slot.inflight /\ k # slot.active
  BY <1>3 DEF Inv, Backed, Coming, Reserved, Fresh, Pc
<1> QED BY <1>1, <1>2, <1>3, <1>4, Entries, QueueAssumption DEF Types

(* A call that starts waiting for the end of the client's own lease.       *)
LEMMA AwaitKeeps ==
  ASSUME Inv, NEW t \in Thread, NEW k \in Claim, k.by = t, k \notin Live,
         UNCHANGED <<queue, reserved, slot>>, Books, Pc(t) = "idle", Go(t, "await", k, FALSE)
  PROVE  Inv'
<1>1. /\ job' \in [Thread -> Job] /\ \A u \in Thread \ {t} : job'[u] = job[u]
      /\ job'[t].pc = "await" /\ job'[t].claim = k /\ ~job'[t].fifo
  BY InvGives, GoDoes DEF PcSet, ClaimOrNothing
<1>2. Types'
  BY <1>1 DEF Inv, Types, Books
<1>3. ASSUME NEW u \in Thread PROVE Shapes(u)'
  BY <1>1, ClaimIs DEF Inv, Shapes, About, Coming, Flies, Pc, Fresh, Grant, Live, Queued
<1>4. Alone' /\ Flown'
  BY <1>1 DEF Inv, Alone, Flown, Pc, Grant
<1>5. Backed' /\ Given'
  BY <1>1, InvGives DEF Inv, Backed, Given, Pc, Queued, Reserved
<1>6. Room'
  BY <1>1 DEF Inv, Room, Capacity, Pc, Grant, Queued
<1> QED BY <1>2, <1>3, <1>4, <1>5, <1>6 DEF Inv, Shapes

(* A call that takes a ticket, or is told that there is no room.           *)
LEMMA ReservesKeeps ==
  ASSUME Inv, NEW t \in Thread, NEW k \in Claim, k.by = t,
         k \notin Queued, k \notin Reserved, k # slot.active,
         UNCHANGED queue, Books, NEW pc \in {"queueing", "enqueueing"}, Reserves(t, k, pc),
         \/ Pc(t) \in {"idle", "await"} /\ slot' = slot /\ k # slot.inflight
         \/ /\ Pc(t) = "granting" /\ slot' \in Slot /\ slot'.inflight = Nothing
            /\ slot'.active = slot.active
  PROVE  Inv'
<1>1. /\ job' \in [Thread -> Job] /\ \A u \in Thread \ {t} : job'[u] = job[u]
      /\ Distinct(Claim, reserved')
      /\ \/ /\ Capacity < MaxQueue /\ Len(reserved') = Len(reserved) + 1
            /\ Reserved' = Reserved \cup {k}
            /\ job'[t].pc = pc /\ job'[t].claim = k /\ ~job'[t].fifo
         \/ reserved' = reserved /\ job'[t] = Idle /\ job'[t].pc = "idle" /\ ~job'[t].fifo
  BY InvGives, ReservesDoes DEF PcSet, Reserved
<1>2. slot' \in Slot /\ slot'.active = slot.active /\ k # slot'.inflight
  BY InvGives, ClaimIs
<1>3. Types'
  BY <1>1, <1>2 DEF Inv, Types, Books
<1>4. \A u \in Thread \ {t} : slot' # slot => Pc(u) \notin Grant
  BY DEF Inv, Alone, Grant
<1>5. ASSUME NEW u \in Thread PROVE Shapes(u)'
  <2>1. CASE u = t
    BY <1>1, <1>2, <2>1, ClaimIs
    DEF Inv, Shapes, About, Coming, Flies, Pc, Fresh, Grant, Queued
  <2>2. CASE u # t
    BY <1>1, <1>2, <1>4, <2>2, InvGives
    DEF Inv, Shapes, About, Coming, Flies, Pc, Fresh, Grant, Queued, PcSet
  <2> QED BY <2>1, <2>2
<1>6. Alone' /\ Flown'
  BY <1>1 DEF Inv, Alone, Flown, Pc, Grant
<1>7. Backed' /\ Given'
  BY <1>1, <1>2, InvGives DEF Inv, Backed, Given, Pc, Queued, Reserved
<1>8. Room'
  <2>1. /\ Capacity \in Nat /\ Capacity' \in Nat /\ Capacity' <= Capacity + 1
        /\ Capacity' # Capacity => Capacity < MaxQueue
    BY <1>1, InvGives DEF Capacity
  <2> QED BY <1>1, <2>1, InvGives DEF Inv, Room, Pc, Grant, Queued
<1> QED BY <1>3, <1>5, <1>6, <1>7, <1>8 DEF Inv, Shapes

(* A call that ends with nothing in hand.                                  *)
LEMMA EndsKeeps ==
  ASSUME Inv, NEW t \in Thread, UNCHANGED <<queue, reserved, slot>>, Books,
         Pc(t) \in {"idle", "await", "waiting"}, Done(t)
  PROVE  Inv'
<1>1. /\ job' \in [Thread -> Job] /\ \A u \in Thread \ {t} : job'[u] = job[u]
      /\ job'[t] = Idle /\ job'[t].pc = "idle" /\ ~job'[t].fifo
  BY InvGives, DoneDoes
<1>2. Types'
  BY <1>1 DEF Inv, Types, Books
<1>3. ASSUME NEW u \in Thread PROVE Shapes(u)'
  BY <1>1 DEF Inv, Shapes, About, Coming, Flies, Pc, Fresh, Grant, Queued
<1>4. Alone' /\ Flown'
  BY <1>1 DEF Inv, Alone, Flown, Pc, Grant
<1>5. Backed' /\ Given'
  BY <1>1, InvGives DEF Inv, Backed, Given, Pc, Queued, Reserved
<1>6. Room'
  BY <1>1 DEF Inv, Room, Capacity, Pc, Grant, Queued
<1> QED BY <1>2, <1>3, <1>4, <1>5, <1>6 DEF Inv, Shapes

(* A grant at once.                                                        *)
LEMMA DirectKeeps ==
  ASSUME Inv, NEW t \in Thread, NEW k \in Claim, k.by = t, k \notin Live, SlotIdle,
         UNCHANGED <<queue, reserved>>, Books, Pc(t) \in {"idle", "await"},
         slot' = [slot EXCEPT !.inflight = k, !.disturbed = FALSE], Go(t, "granting", k, FALSE)
  PROVE  Inv'
<1>1. /\ job' \in [Thread -> Job] /\ \A u \in Thread \ {t} : job'[u] = job[u]
      /\ job'[t].pc = "granting" /\ job'[t].claim = k /\ ~job'[t].fifo
  BY InvGives, GoDoes, ZenonT(40) DEF PcSet, ClaimOrNothing
<1>2. slot' \in Slot /\ slot'.active = Nothing /\ slot'.inflight = k
  BY InvGives DEF Slot, SlotIdle, ClaimOrNothing
<1>3. Types'
  BY <1>1, <1>2 DEF Inv, Types, Books
<1>4. \A u \in Thread : Pc(u) \notin Grant
  BY InvGives, ClaimIs DEF Inv, Flies, SlotIdle, Grant, About, Pc
<1>5. k \notin Queued /\ k # Nothing /\ slot.active = Nothing
  BY ClaimIs DEF Live, SlotIdle
<1>6. \A u \in Thread \ {t} : Pc(u) \in Fresh => job[u].claim # k
  BY DEF Inv, Coming
<1>7. ASSUME NEW u \in Thread PROVE Shapes(u)'
  BY <1>1, <1>2, <1>4, <1>5, <1>6, ClaimIs
  DEF Inv, Shapes, About, Coming, Flies, Pc, Fresh, Grant, Queued, SlotIdle
<1>8. Alone' /\ Flown'
  BY <1>1, <1>4 DEF Alone, Flown, Pc, Grant
<1>9. Backed' /\ Given'
  BY <1>1, <1>2, InvGives, NothingIs DEF Inv, Backed, Given, Pc, Queued, Reserved
<1>10. Room'
  BY <1>1, <1>4 DEF Inv, Room, Capacity, Pc, Grant, Queued
<1> QED BY <1>3, <1>7, <1>8, <1>9, <1>10 DEF Inv, Shapes

(* A ticket that leaves the reservations, for the queue or for nothing.    *)
Unreserves(t) ==
  /\ Done(t) /\ reserved' = Without(reserved, job[t].claim)
  /\ \/ UNCHANGED <<queue, slot>>
     \/ /\ job[t].claim \in Reserved /\ queue' = Append(queue, job[t].claim)
        /\ slot' = Bump(slot)

LEMMA UnreservesKeeps ==
  ASSUME Inv, NEW t \in Thread, Pc(t) \in {"queueing", "enqueueing"}, Books, Unreserves(t)
  PROVE  Inv'
<1> DEFINE k == job[t].claim
<1>1. /\ job' \in [Thread -> Job] /\ \A u \in Thread \ {t} : job'[u] = job[u]
      /\ job'[t] = Idle /\ job'[t].pc = "idle" /\ ~job'[t].fifo
  BY InvGives, DoneDoes DEF Unreserves
<1>2. /\ k \in Claim /\ k \notin Queued /\ k.by = t /\ k # slot.active /\ k # slot.inflight
      /\ k # Nothing
  BY ClaimIs DEF Inv, About, Coming, Pc, Fresh
<1> HIDE DEF k
<1>3. /\ Distinct(Claim, reserved') /\ Reserved' = Reserved \ {k} /\ Len(reserved') \in Nat
      /\ Len(reserved') = IF k \in Reserved THEN Len(reserved) - 1 ELSE Len(reserved)
  <2>1. reserved' = Without(reserved, k)
    BY DEF Unreserves, k
  <2> QED BY <2>1, InvGives, WithoutHolds DEF Reserved
<1>4. /\ slot' \in Slot /\ slot'.active = slot.active /\ slot'.inflight = slot.inflight
  BY InvGives DEF Unreserves, Bump, Slot
<1>5. \/ queue' = queue
      \/ /\ k \in Reserved /\ Distinct(Claim, queue') /\ Queued' = Queued \cup {k}
         /\ Len(queue') = Len(queue) + 1
  <2>1. queue' = queue \/ (k \in Reserved /\ queue' = Append(queue, k))
    BY DEF Unreserves, k
  <2>2. /\ Distinct(Claim, Append(queue, k)) /\ ToSet(Append(queue, k)) = Queued \cup {k}
        /\ Len(Append(queue, k)) = Len(queue) + 1
    BY <1>2, InvGives, AppendHolds DEF Queued
  <2> QED BY <2>1, <2>2 DEF Queued
<1>6. Types'
  BY <1>1, <1>3, <1>4, <1>5 DEF Inv, Types, Books
<1>7. ASSUME NEW u \in Thread PROVE Shapes(u)'
  <2>1. CASE u = t
    BY <1>1, <2>1 DEF Shapes, About, Coming, Flies, Pc, Fresh, Grant
  <2>2. CASE u # t
    BY <1>1, <1>2, <1>4, <1>5, <2>2
    DEF Inv, Shapes, About, Coming, Flies, Pc, Fresh, Grant, Queued
  <2> QED BY <2>1, <2>2
<1>8. Alone' /\ Flown'
  BY <1>1, <1>4 DEF Inv, Alone, Flown, Pc, Grant
<1>9. Backed' /\ Given'
  <2>1. \A l \in Reserved : l.by = t => l = k
    BY DEF Inv, Backed, Reserved, k
  <2> QED BY <1>1, <1>2, <1>3, <1>4, <1>5, <2>1, InvGives
      DEF Inv, Backed, Given, Pc, Queued, Reserved
<1>10. Room'
  <2>1. Capacity \in Nat /\ Capacity' \in Nat /\ Capacity' <= Capacity
    BY <1>3, <1>5, InvGives DEF Capacity
  <2>2. Queued \subseteq Queued'
    BY <1>5 DEF Queued
  <2> QED BY <1>1, <2>1, <2>2, InvGives DEF Inv, Room, Pc, Grant
<1> QED BY <1>6, <1>7, <1>8, <1>9, <1>10 DEF Inv, Shapes

LEMMA WaitKeeps ==
  ASSUME Inv, NEW t \in Thread, NEW k \in Queued, Wait(t, k)
  PROVE  Inv'
<1>1. /\ job' \in [Thread -> Job] /\ \A u \in Thread \ {t} : job'[u] = job[u]
      /\ job'[t].pc = "waiting" /\ job'[t].claim = k /\ ~job'[t].fifo
      /\ UNCHANGED <<queue, reserved, slot, tomb, grace, used, taken, streak>>
      /\ Pc(t) = "idle" /\ Whose(k) = Of[t]
  BY InvGives, GoDoes DEF Wait, PcSet, ClaimOrNothing
<1>2. Types'
  BY <1>1 DEF Inv, Types
<1>3. ASSUME NEW u \in Thread PROVE Shapes(u)'
  BY <1>1, InvGives DEF Inv, Shapes, About, Coming, Flies, Pc, Fresh, Grant, Queued
<1>4. Alone' /\ Flown'
  BY <1>1 DEF Inv, Alone, Flown, Pc, Grant
<1>5. Backed' /\ Given'
  BY <1>1, InvGives DEF Inv, Backed, Given, Pc, Queued, Reserved
<1>6. Room'
  BY <1>1 DEF Inv, Room, Capacity, Pc, Grant, Queued
<1> QED BY <1>2, <1>3, <1>4, <1>5, <1>6 DEF Inv, Shapes

(* The queue with one of its tickets moved to the head.                    *)
LEMMA MovedHolds ==
  ASSUME NEW s, Distinct(Claim, s), NEW k \in ToSet(s)
  PROVE  /\ Distinct(Claim, <<k>> \o Without(s, k)) /\ ToSet(<<k>> \o Without(s, k)) = ToSet(s)
         /\ Len(<<k>> \o Without(s, k)) = Len(s)
         /\ \A x, y : Before(<<k>> \o Without(s, k), x, y) =>
              y # k /\ (x = k \/ Before(s, x, y))
<1> DEFINE w == Without(s, k)
<1>1. /\ Distinct(Claim, w) /\ ToSet(w) = ToSet(s) \ {k} /\ Len(w) = Len(s) - 1
      /\ Ordered(w, s) /\ Len(s) \in Nat
  BY WithoutHolds
<1>2. k \in Claim
  BY Entries
<1> HIDE DEF w
<1>3. /\ Distinct(Claim, <<k>> \o w) /\ ToSet(<<k>> \o w) = ToSet(w) \cup {k}
      /\ Len(<<k>> \o w) = Len(w) + 1
      /\ \A x, y : Before(<<k>> \o w, x, y) => y # k /\ (x = k \/ Before(w, x, y))
  BY <1>1, <1>2, PushHolds
<1>4. ToSet(<<k>> \o w) = ToSet(s) /\ Len(<<k>> \o w) = Len(s)
  <2> DEFINE r == <<k>> \o w
  <2>1. ToSet(r) = ToSet(w) \cup {k} /\ Len(r) = Len(w) + 1
    BY <1>3
  <2> HIDE DEF r
  <2>2. ToSet(r) = ToSet(s) /\ Len(r) = Len(s)
    BY <1>1, <2>1
  <2> QED BY <2>2 DEF r
<1> QED BY <1>1, <1>3, <1>4 DEF w, Ordered

LEMMA WaitClaimsKeeps ==
  ASSUME Inv, NEW t \in Thread, WaitClaims(t)
  PROVE  Inv'
<1> DEFINE k == job[t].claim
<1>1. /\ Pc(t) = "waiting" /\ k \in Queued /\ SlotIdle /\ queue' = <<k>> \o Without(queue, k)
      /\ slot' = [slot EXCEPT !.inflight = k, !.disturbed = FALSE] /\ Go(t, "claiming", k, TRUE)
      /\ UNCHANGED <<reserved, tomb, grace, used, taken, streak>>
  BY DEF WaitClaims, CanClaim, Queued
<1>2. k \in Claim /\ k # Nothing /\ Whose(k) = Of[t] /\ k \notin Reserved
  BY <1>1, InvGives DEF Inv, About
<1> HIDE DEF k
<1>3. /\ job' \in [Thread -> Job] /\ \A u \in Thread \ {t} : job'[u] = job[u]
      /\ job'[t].pc = "claiming" /\ job'[t].claim = k /\ job'[t].fifo
  BY <1>1, <1>2, InvGives, GoDoes DEF PcSet, ClaimOrNothing
<1>4. slot' \in Slot /\ slot'.active = Nothing /\ slot'.inflight = k
  BY <1>1, <1>2, InvGives DEF Slot, SlotIdle, ClaimOrNothing
<1>5. Distinct(Claim, queue') /\ Queued' = Queued /\ Len(queue') = Len(queue)
  BY <1>1, InvGives, MovedHolds DEF Queued
<1>6. Types'
  BY <1>1, <1>3, <1>4, <1>5 DEF Inv, Types
<1>7. \A u \in Thread : Pc(u) \notin Grant
  BY <1>1, InvGives, ClaimIs DEF Inv, Flies, SlotIdle, Grant, About, Pc
<1>8. \A u \in Thread : Pc(u) \in Fresh => job[u].claim # k /\ job[u].claim # Nothing
  BY <1>1, ClaimIs DEF Inv, Coming, About, Fresh
<1>9. ASSUME NEW u \in Thread PROVE Shapes(u)'
  <2>1. CASE u = t
    BY <1>2, <1>3, <1>4, <2>1 DEF Shapes, About, Coming, Flies, Pc, Fresh, Grant
  <2>2. CASE u # t
    BY <1>3, <1>4, <1>5, <1>7, <1>8, <2>2
    DEF Inv, Shapes, About, Coming, Flies, Pc, Fresh, Grant
  <2> QED BY <2>1, <2>2
<1>10. Alone' /\ Flown'
  BY <1>3, <1>7 DEF Alone, Flown, Pc, Grant
<1>11. Backed' /\ Given'
  BY <1>1, <1>3, <1>4, <1>5, InvGives DEF Inv, Backed, Given, Pc, Reserved
<1>12. Room'
  BY <1>1, <1>3, <1>5, <1>7 DEF Inv, Room, Capacity, Pc, Grant
<1> QED BY <1>6, <1>9, <1>10, <1>11, <1>12 DEF Inv, Shapes

(* The end of a grant: refused, taken back or settled.  The ticket of one  *)
(* that is taken back may stand at the head of the queue again.            *)
Lands(t) ==
  /\ Done(t) /\ UNCHANGED reserved
  /\ slot' \in Slot /\ slot'.inflight = Nothing
  /\ slot'.active = Nothing \/ (Pc(t) = "publishing" /\ slot'.active = slot.active)
  /\ \/ queue' = queue
     \/ /\ slot'.active = Nothing /\ job[t].fifo /\ job[t].claim \notin Queued
        /\ queue' = <<job[t].claim>> \o queue

LEMMA LandsKeeps ==
  ASSUME Inv, NEW t \in Thread, Pc(t) \in Grant, Books, Lands(t)
  PROVE  Inv'
<1> DEFINE k == job[t].claim
<1>1. /\ k \in Claim /\ k # Nothing /\ k = slot.inflight /\ k \notin Reserved
      /\ slot.active \in {Nothing, k} /\ (Pc(t) = "publishing" => k \notin Queued)
      /\ \A u \in Thread : Pc(u) \in {"await", "queueing", "enqueueing"} => job[u].claim # k
  BY InvGives, ClaimIs DEF Inv, About, Flies, Coming, Grant, Fresh, Pc
<1>2. /\ job' \in [Thread -> Job] /\ \A u \in Thread \ {t} : job'[u] = job[u]
      /\ job'[t] = Idle /\ job'[t].pc = "idle" /\ ~job'[t].fifo
  BY InvGives, DoneDoes DEF Lands
<1>3. \A u \in Thread \ {t} : Pc(u) \notin Grant
  BY DEF Inv, Alone
<1>4. \/ queue' = queue
      \/ /\ slot'.active = Nothing /\ Distinct(Claim, queue') /\ Queued' = Queued \cup {k}
         /\ Len(queue') = Len(queue) + 1 /\ Capacity <= MaxQueue
  <2>1. \/ queue' = queue
        \/ slot'.active = Nothing /\ job[t].fifo /\ k \notin Queued /\ queue' = <<k>> \o queue
    BY DEF Lands
  <2>2. job[t].fifo /\ k \notin Queued => Capacity <= MaxQueue
    BY DEF Inv, Room
  <2> HIDE DEF k
  <2>3. k \notin Queued =>
          /\ Distinct(Claim, <<k>> \o queue) /\ ToSet(<<k>> \o queue) = Queued \cup {k}
          /\ Len(<<k>> \o queue) = Len(queue) + 1
    BY <1>1, InvGives, PushHolds DEF Queued
  <2> DEFINE r == <<k>> \o queue
  <2> HIDE DEF r
  <2>4. \/ queue' = queue
        \/ slot'.active = Nothing /\ job[t].fifo /\ k \notin Queued /\ queue' = r
    BY <2>1 DEF r
  <2>5. k \notin Queued =>
          Distinct(Claim, r) /\ ToSet(r) = Queued \cup {k} /\ Len(r) = Len(queue) + 1
    BY <2>3 DEF r
  <2> QED BY <2>2, <2>4, <2>5 DEF Queued
<1> HIDE DEF k
<1>5. /\ slot' \in Slot /\ slot'.inflight = Nothing /\ reserved' = reserved
      /\ slot'.active = Nothing \/ (Pc(t) = "publishing" /\ slot'.active = slot.active)
  BY DEF Lands
<1>6. Types'
  BY <1>2, <1>4, <1>5 DEF Inv, Types, Books
<1>7. ASSUME NEW u \in Thread PROVE Shapes(u)'
  <2>1. CASE u = t
    BY <1>2, <2>1 DEF Shapes, About, Coming, Flies, Pc, Fresh, Grant
  <2>2. CASE u # t
    BY <1>1, <1>2, <1>3, <1>4, <1>5, <2>2, ClaimIs
    DEF Inv, Shapes, About, Coming, Flies, Pc, Fresh, Grant, Queued
  <2> QED BY <2>1, <2>2
<1>8. Alone' /\ Flown'
  BY <1>2, <1>3, <1>5 DEF Inv, Alone, Flown, Pc, Grant
<1>9. Backed' /\ Given'
  <2>1. \A l \in Reserved : l.by # t
    BY DEF Inv, Backed, Reserved, Grant
  <2>2. Backed'
    BY <1>2, <1>5, <2>1, InvGives DEF Inv, Backed, Pc, Reserved
  <2>3. Given'
    <3>1. Nothing \notin Queued /\ Nothing # k
      BY <1>1, InvGives
    <3> QED BY <1>1, <1>4, <1>5, <3>1 DEF Given, Queued, Inv
  <2> QED BY <2>2, <2>3
<1>10. Room'
  <2>1. /\ Capacity \in Nat /\ Capacity' \in Nat /\ Capacity' <= Capacity + 1
        /\ Capacity' # Capacity => Capacity <= MaxQueue
    BY <1>4, <1>5, InvGives DEF Capacity
  <2> QED BY <1>2, <1>3, <2>1, InvGives DEF Inv, Room, Pc, Grant
<1> QED BY <1>6, <1>7, <1>8, <1>9, <1>10 DEF Inv, Shapes

LEMMA PublishKeeps ==
  ASSUME Inv, NEW t \in Thread, Publish(t)
  PROVE  Inv'
<1> DEFINE k == job[t].claim
<1>1. /\ Pc(t) \in {"granting", "claiming"} /\ Go(t, "publishing", k, job[t].fifo)
      /\ slot' = [slot EXCEPT !.active = k, !.disturbed = FALSE]
      /\ UNCHANGED <<reserved, tomb, grace, used, taken, streak>>
      /\ IF job[t].fifo THEN queue' = Tail(queue) /\ queue # <<>> /\ Head(queue) = k
         ELSE queue' = queue
  BY DEF Publish, Exact
<1>2. /\ k \in Claim /\ k # Nothing /\ Whose(k) = Of[t] /\ k = slot.inflight /\ k \notin Reserved
      /\ (~job[t].fifo => k \notin Queued) /\ job[t].fifo \in BOOLEAN
      /\ \A u \in Thread \ {t} : Pc(u) \in Fresh => job[u].claim # k
  BY <1>1, InvGives, ClaimIs DEF Inv, About, Flies, Coming, Grant, Fresh, Pc, Alone
<1> HIDE DEF k
<1>3. /\ job' \in [Thread -> Job] /\ \A u \in Thread \ {t} : job'[u] = job[u]
      /\ job'[t].pc = "publishing" /\ job'[t].claim = k /\ (job'[t].fifo <=> job[t].fifo)
  BY <1>1, <1>2, InvGives, GoDoes DEF PcSet, ClaimOrNothing
<1>4. slot' \in Slot /\ slot'.active = k /\ slot'.inflight = k
  BY <1>1, <1>2, InvGives DEF Slot, ClaimOrNothing
<1>5. /\ Distinct(Claim, queue') /\ Queued' = Queued \ {k} /\ Len(queue') \in Nat
      /\ IF job[t].fifo THEN Len(queue') = Len(queue) - 1 ELSE queue' = queue
  <2>1. CASE job[t].fifo
    <3>1. /\ Distinct(Claim, Tail(queue)) /\ ToSet(Tail(queue)) = Queued \ {k}
          /\ Len(Tail(queue)) = Len(queue) - 1 /\ Len(queue) \in Nat
      BY <1>1, <2>1, InvGives, HeadHolds DEF Queued
    <3>2. Distinct(Claim, queue') => Len(queue') \in Nat
      BY Entries
    <3> QED BY <1>1, <2>1, <3>1, <3>2 DEF Queued
  <2>2. CASE ~job[t].fifo
    BY <1>1, <1>2, <2>2, InvGives DEF Queued
  <2> QED BY <2>1, <2>2
<1>6. Types'
  BY <1>1, <1>3, <1>4, <1>5 DEF Inv, Types
<1>7. \A u \in Thread \ {t} : Pc(u) \notin Grant
  BY <1>1 DEF Inv, Alone, Grant
<1>8. ASSUME NEW u \in Thread PROVE Shapes(u)'
  <2>1. CASE u = t
    BY <1>2, <1>3, <1>4, <1>5, <2>1 DEF Shapes, About, Coming, Flies, Pc, Fresh, Grant
  <2>2. CASE u # t
    BY <1>2, <1>3, <1>4, <1>5, <1>7, <2>2
    DEF Inv, Shapes, About, Coming, Flies, Pc, Fresh, Grant
  <2> QED BY <2>1, <2>2
<1>9. Alone' /\ Flown'
  BY <1>3, <1>7 DEF Alone, Flown, Pc, Grant
<1>10. Backed' /\ Given'
  <2>1. \A l \in Reserved : l.by # t
    BY <1>1 DEF Inv, Backed, Reserved
  <2> QED BY <1>1, <1>3, <1>4, <1>5, <2>1, InvGives DEF Inv, Backed, Given, Pc, Reserved
<1>11. Room'
  <2>1. /\ Capacity \in Nat /\ Capacity' \in Nat
        /\ IF job[t].fifo THEN Capacity' = Capacity - 1 ELSE Capacity' = Capacity
    <3>1. Len(reserved') = Len(reserved) /\ Len(queue') \in Nat
      BY <1>1, <1>5
    <3> QED BY <1>5, <3>1, InvGives DEF Capacity
  <2> QED BY <1>2, <1>3, <1>7, <2>1, InvGives DEF Inv, Room, Pc, Grant
<1> QED BY <1>6, <1>8, <1>9, <1>10, <1>11 DEF Inv, Shapes

(* Steps that are not of a thread: the lease ends, tickets go.             *)
Shrinks ==
  /\ UNCHANGED job
  /\ Distinct(Claim, queue') /\ Queued' \subseteq Queued
  /\ Distinct(Claim, reserved') /\ Reserved' \subseteq Reserved
  /\ Len(queue') <= Len(queue) /\ Len(reserved') <= Len(reserved)
  /\ Queued' # Queued => Len(queue') < Len(queue)
  /\ slot' \in Slot /\ slot'.inflight = slot.inflight
  /\ slot'.active = slot.active \/ (slot.inflight = Nothing /\ slot'.active = Nothing)

LEMMA ShrinksKeeps ==
  ASSUME Inv, Shrinks, Books
  PROVE  Inv'
<1>1. Types'
  BY DEF Inv, Types, Books, Shrinks
<1>2. ASSUME NEW u \in Thread PROVE Shapes(u)'
  BY ClaimIs DEF Inv, Shapes, About, Coming, Flies, Pc, Fresh, Grant, Shrinks
<1>3. Alone' /\ Flown'
  BY DEF Inv, Alone, Flown, Pc, Grant, Shrinks
<1>4. Backed' /\ Given'
  BY InvGives DEF Inv, Backed, Given, Pc, Reserved, Shrinks
<1>5. Room'
  <2>1. /\ Capacity \in Nat /\ Capacity' \in Nat /\ Capacity' <= Capacity
        /\ Queued' # Queued => Capacity' < Capacity
    BY InvGives, Entries DEF Capacity, Shrinks
  <2> QED BY <2>1, InvGives DEF Inv, Room, Pc, Shrinks
<1> QED BY <1>1, <1>2, <1>3, <1>4, <1>5 DEF Inv, Shapes

-----------------------------------------------------------------------------
(* The ghosts and the counters keep their types.                           *)

LEMMA NewBooks ==
  ASSUME Inv, NEW k, New(k), UNCHANGED <<tomb, grace, used>>
  PROVE  Books
<1>1. taken' \subseteq Claim
  BY DEF Inv, Types, New
<1>2. streak' \in Streaks
  <2>1. streak \in Streaks /\ streak' = [streak EXCEPT !.past = @ \ {k}]
    BY DEF Inv, Types, New
  <2> QED BY <2>1 DEF Streaks
<1> QED BY <1>1, <1>2 DEF Inv, Types, Books

LEMMA SameBooks ==
  ASSUME Inv, UNCHANGED <<tomb, grace, used, taken, streak>>
  PROVE  Books
BY DEF Inv, Types, Books

(* What a token given out does to the count of returns and to the streak.  *)
LEMMA ConsumeIs ==
  ASSUME Inv, NEW c \in Client, Consume(c)
  PROVE  /\ grace' = Nobody /\ used' \in [Client -> 0 .. MaxPref] /\ MaxPref \in Nat
         /\ used[c] \in 0 .. MaxPref /\ used'[c] \in 0 .. MaxPref
         /\ grace = c /\ (\E k \in Queued : Whose(k) # c) =>
              used'[c] = IF used[c] < MaxPref THEN used[c] + 1 ELSE MaxPref
<1>1. MaxPref \in Nat /\ used \in [Client -> 0 .. MaxPref]
  BY QueueAssumption DEF Inv, Types
<1>2. used[c] \in Nat /\ used[c] + 1 \in Nat /\ used[c] <= MaxPref
  BY <1>1
<1> DEFINE n == Min({used[c] + 1, MaxPref})
           strangers == \E k \in ToSet(queue) \cup ToSet(reserved) : Whose(k) # c
<1>3. n = IF used[c] < MaxPref THEN used[c] + 1 ELSE MaxPref
  BY <1>1, <1>2, MinOf
<1>4. /\ grace' = Nobody
      /\ used' = IF grace # c THEN [d \in Client |-> 0]
                 ELSE [used EXCEPT ![c] = IF strangers THEN n ELSE 0]
  BY <1>1 DEF Consume
<1> HIDE DEF n
<1>5. (\E k \in Queued : Whose(k) # c) => strangers
  BY DEF Queued
<1> HIDE DEF strangers
<1>6. n \in 0 .. MaxPref /\ 0 \in 0 .. MaxPref
  BY <1>1, <1>2, <1>3
<1> QED BY <1>1, <1>2, <1>3, <1>4, <1>5, <1>6

LEMMA StreakIs ==
  ASSUME Inv, NEW c \in Client, Streak(c)
  PROVE  /\ streak' \in Streaks /\ streak'.client = c /\ streak.length \in Nat
         /\ \/ /\ streak.client = c /\ streak.past \cap Passed(c) # {}
               /\ streak'.past = streak.past \cap Passed(c) /\ streak'.late = streak.late
               /\ streak'.length = IF streak.length + 1 <= MaxPref + 2
                                   THEN streak.length + 1 ELSE MaxPref + 2
            \/ streak'.past = Passed(c) /\ streak'.length = 1
<1>1. /\ MaxPref \in Nat /\ streak \in Streaks /\ streak.length \in Nat
      /\ MaxPref + 2 \in Nat /\ streak.length + 1 \in Nat
  BY QueueAssumption DEF Inv, Types, Streaks
<1>2. Passed(c) \subseteq Claim
  BY InvGives DEF Passed, Queued
<1> DEFINE n == Min({streak.length + 1, MaxPref + 2})
<1>3. n = IF streak.length + 1 <= MaxPref + 2 THEN streak.length + 1 ELSE MaxPref + 2
  BY <1>1, MinOf
<1>4. streak' = IF streak.client = c /\ streak.past \cap Passed(c) # {}
                THEN [streak EXCEPT !.length = n, !.past = streak.past \cap Passed(c)]
                ELSE [client |-> c, length |-> 1, past |-> Passed(c), late |-> FALSE]
  BY DEF Streak
<1> HIDE DEF n
<1>5. n \in 0 .. MaxPref + 2 /\ 1 \in 0 .. MaxPref + 2
  BY <1>1, <1>3
<1> QED BY <1>1, <1>2, <1>3, <1>4, <1>5 DEF Streaks

-----------------------------------------------------------------------------
(* What each action does.                                                  *)

LEMMA Unmet ==
  ASSUME Inv, NEW k \in Claim, k \in Live
  PROVE  k \in Claims(Whose(k))
BY DEF Live, Claims, Queued

LEMMA DecideKeeps ==
  ASSUME Inv, NEW t \in Thread, NEW k \in Claim, k.by = t, k \notin Live,
         Pc(t) \in {"idle", "await"}, Books, UNCHANGED queue, Decide(t, k)
  PROVE  Inv'
<1>1. k \notin Queued /\ k \notin Reserved /\ k # slot.active /\ k # slot.inflight
  BY ClaimIs DEF Live, Reserved
<1>2. CASE SlotIdle /\ (Preferred(Of[t]) \/ (~Busy /\ ~Blocks(Of[t])))
  BY <1>2, DirectKeeps DEF Decide
<1>3. CASE ~(SlotIdle /\ (Preferred(Of[t]) \/ (~Busy /\ ~Blocks(Of[t]))))
  BY <1>1, <1>3, ReservesKeeps DEF Decide
<1> QED BY <1>2, <1>3

LEMMA AcquireKeeps ==
  ASSUME Inv, NEW t \in Thread, NEW op \in Op, Acquire(t, op)
  PROVE  Inv'
<1> DEFINE k == [by |-> t, op |-> op]
<1>1. /\ Pc(t) = "idle" /\ Claims(Of[t]) = {} /\ New(k) /\ UNCHANGED <<queue, tomb, grace, used>>
      /\ \/ Go(t, "await", k, FALSE) /\ UNCHANGED <<reserved, slot>>
         \/ Decide(t, k)
  BY DEF Acquire
<1>2. k \in Claim /\ k.by = t
  BY ClaimOf
<1> HIDE DEF k
<1>3. k \notin Live
  BY <1>1, <1>2, ClaimIs, Unmet
<1>4. Books
  BY <1>1, NewBooks
<1> QED BY <1>1, <1>2, <1>3, <1>4, AwaitKeeps, DecideKeeps

LEMMA Awaited ==
  ASSUME Inv, NEW t \in Thread, Pc(t) = "await"
  PROVE  job[t].claim \in Claim /\ job[t].claim.by = t /\ job[t].claim \notin Live
<1>1. /\ job[t].claim \in Claim /\ job[t].claim.by = t /\ job[t].claim \notin Queued
      /\ job[t].claim # slot.active /\ job[t].claim # slot.inflight
  BY DEF Inv, About, Coming, Fresh
<1>2. job[t].claim \notin Reserved
  BY <1>1 DEF Inv, Backed, Reserved
<1> QED BY <1>1, <1>2 DEF Live, Reserved

LEMMA AwaitOverKeeps ==
  ASSUME Inv, NEW t \in Thread, AwaitOver(t)
  PROVE  Inv'
<1>1. /\ Pc(t) = "await" /\ UNCHANGED <<queue, tomb, grace, used, taken, streak>>
      /\ (Done(t) /\ UNCHANGED <<reserved, slot>>) \/ Decide(t, job[t].claim)
  BY DEF AwaitOver
<1>2. Books
  BY <1>1, SameBooks
<1> QED BY <1>1, <1>2, Awaited, EndsKeeps, DecideKeeps

LEMMA Enqueued ==
  ASSUME Inv, NEW t \in Thread, Enqueue(t)
  PROVE  \E k \in Claim : /\ k.by = t /\ k.op = "op" /\ k \notin Live /\ Claims(Of[t]) = {}
                          /\ Reserves(t, k, "enqueueing") /\ New(k) /\ Pc(t) = "idle"
                          /\ UNCHANGED <<queue, slot, tomb, grace, used>>
<1> DEFINE k == [by |-> t, op |-> "op"]
<1>1. /\ Pc(t) = "idle" /\ Admitted(Of[t]) /\ Reserves(t, k, "enqueueing") /\ New(k)
      /\ UNCHANGED <<queue, slot, tomb, grace, used>>
  BY DEF Enqueue
<1>2. k \in Claim /\ k.by = t /\ k.op = "op"
  BY ClaimOf DEF Op
<1> HIDE DEF k
<1>3. Claims(Of[t]) = {}
  <2>1. \A l \in Claims(Of[t]) : Whose(l) = Of[t] /\ l.op = "op" /\ l.op # "op"
    BY <1>1 DEF Admitted, Known, Other, Claims
  <2> QED BY <2>1
<1>4. k \notin Live
  BY <1>2, <1>3, ClaimIs, Unmet
<1> QED BY <1>1, <1>2, <1>3, <1>4

LEMMA EnqueueKeeps ==
  ASSUME Inv, NEW t \in Thread, Enqueue(t)
  PROVE  Inv'
<1>1. PICK k \in Claim : /\ k.by = t /\ k \notin Live /\ Reserves(t, k, "enqueueing") /\ New(k)
                         /\ Pc(t) = "idle" /\ UNCHANGED <<queue, slot, tomb, grace, used>>
  BY Enqueued
<1>2. k \notin Queued /\ k \notin Reserved /\ k # slot.active /\ k # slot.inflight
  BY <1>1, ClaimIs DEF Live, Reserved
<1> QED BY <1>1, <1>2, NewBooks, ReservesKeeps

LEMMA JoinQueueKeeps ==
  ASSUME Inv, NEW t \in Thread, JoinQueue(t)
  PROVE  Inv'
<1>1. Pc(t) \in {"queueing", "enqueueing"} /\ Unreserves(t)
  BY DEF JoinQueue, Unreserves, Reserved
<1>2. Books
  BY SameBooks DEF JoinQueue
<1> QED BY <1>1, <1>2, UnreservesKeeps

LEMMA ReservationFailsKeeps ==
  ASSUME Inv, NEW t \in Thread, ReservationFails(t)
  PROVE  Inv'
<1>1. Pc(t) \in {"queueing", "enqueueing"} /\ Unreserves(t)
  BY DEF ReservationFails, Unreserves
<1>2. Books
  BY SameBooks DEF ReservationFails
<1> QED BY <1>1, <1>2, UnreservesKeeps

LEMMA WaitReturnsKeeps ==
  ASSUME Inv, NEW t \in Thread, WaitReturns(t)
  PROVE  Inv'
BY SameBooks, EndsKeeps DEF WaitReturns

LEMMA GrantRefusedKeeps ==
  ASSUME Inv, NEW t \in Thread, GrantRefused(t)
  PROVE  Inv'
<1>1. /\ Pc(t) \in {"granting", "claiming"} /\ UNCHANGED <<queue, tomb, grace, used, taken, streak>>
      /\ slot' = [slot EXCEPT !.inflight = Nothing, !.disturbed = FALSE]
      /\ \/ Done(t) /\ UNCHANGED reserved
         \/ Pc(t) = "granting" /\ Reserves(t, job[t].claim, "queueing")
  BY DEF GrantRefused
<1>2. slot' \in Slot /\ slot'.inflight = Nothing /\ slot'.active = slot.active
  BY <1>1, InvGives DEF Slot, ClaimOrNothing
<1>3. slot.active = Nothing /\ Books /\ Pc(t) \in Grant
  BY <1>1, SameBooks DEF Inv, Flies, Grant
<1>4. CASE Done(t) /\ UNCHANGED reserved
  BY <1>1, <1>2, <1>3, <1>4, LandsKeeps DEF Lands
<1>5. CASE Pc(t) = "granting" /\ Reserves(t, job[t].claim, "queueing")
  <2>1. /\ job[t].claim \in Claim /\ job[t].claim.by = t /\ job[t].claim \notin Queued
        /\ job[t].claim # slot.active
    BY <1>5 DEF Inv, About, Coming, Fresh
  <2>2. job[t].claim \notin Reserved
    BY <1>5, <2>1 DEF Inv, Backed, Reserved
  <2> QED BY <1>1, <1>2, <1>3, <1>5, <2>1, <2>2, ReservesKeeps
<1> QED BY <1>1, <1>4, <1>5

LEMMA TakesBack ==
  ASSUME Inv, NEW t \in Thread, TakeBack(t)
  PROVE  Lands(t) /\ UNCHANGED <<tomb, grace, used, taken, streak>>
<1>1. PICK fault \in BOOLEAN :
      /\ slot' = [slot EXCEPT !.active = Nothing, !.inflight = Nothing, !.disturbed = FALSE,
                              !.fault = fault]
      /\ queue' = queue \/ (/\ queue' = <<job[t].claim>> \o queue /\ job[t].fifo
                            /\ job[t].claim \notin Queued)
      /\ Done(t) /\ UNCHANGED <<reserved, tomb, grace, used, taken, streak>>
  BY DEF TakeBack, Requeued, Queued
<1>2. slot' \in Slot /\ slot'.inflight = Nothing /\ slot'.active = Nothing
  BY <1>1, InvGives DEF Slot, ClaimOrNothing
<1> QED BY <1>1, <1>2 DEF Lands

LEMMA TakeBackKeeps ==
  ASSUME Inv, NEW t \in Thread, NotExact(t) \/ Compensate(t)
  PROVE  Inv'
<1>1. Pc(t) \in Grant /\ TakeBack(t)
  BY DEF NotExact, Compensate, Grant
<1> QED BY <1>1, TakesBack, SameBooks, LandsKeeps

LEMMA Settles ==
  ASSUME Inv, NEW t \in Thread, Settle(t)
  PROVE  /\ Pc(t) = "publishing" /\ ~slot.disturbed /\ slot.active = job[t].claim
         /\ slot.inflight = job[t].claim /\ job[t].claim \in Claim
         /\ Whose(job[t].claim) \in Client /\ job[t].claim \notin Queued
         /\ Consume(Whose(job[t].claim)) /\ Streak(Whose(job[t].claim)) /\ Done(t)
         /\ slot' \in Slot /\ slot'.inflight = Nothing /\ slot'.active = slot.active
         /\ UNCHANGED <<queue, reserved, tomb, taken>>
<1>1. /\ Pc(t) = "publishing" /\ ~slot.disturbed /\ slot' = [slot EXCEPT !.inflight = Nothing]
      /\ Consume(Whose(job[t].claim)) /\ Streak(Whose(job[t].claim)) /\ Done(t)
      /\ UNCHANGED <<queue, reserved, tomb, taken>>
  BY DEF Settle
<1>2. slot' \in Slot /\ slot'.inflight = Nothing /\ slot'.active = slot.active
  BY <1>1, InvGives DEF Slot, ClaimOrNothing
<1>3. /\ job[t].claim \in Claim /\ slot.active = job[t].claim /\ slot.inflight = job[t].claim
      /\ job[t].claim \notin Queued
  BY <1>1 DEF Inv, About, Flies, Grant
<1> QED BY <1>1, <1>2, <1>3, ClaimIs

LEMMA SettleKeeps ==
  ASSUME Inv, NEW t \in Thread, Settle(t)
  PROVE  Inv'
<1>1. Books
  BY Settles, ConsumeIs, StreakIs DEF Inv, Types, Books
<1>2. Lands(t) /\ Pc(t) \in Grant
  BY Settles DEF Lands, Grant
<1> QED BY <1>1, <1>2, LandsKeeps

LEMMA Unchanging ==
  ASSUME Inv, UNCHANGED <<queue, reserved, job>>, slot' \in Slot,
         slot'.inflight = slot.inflight,
         slot'.active = slot.active \/ (slot.inflight = Nothing /\ slot'.active = Nothing)
  PROVE  Shrinks
BY InvGives DEF Shrinks, Queued, Reserved

LEMMA BumpDoes ==
  ASSUME Inv, slot' = Bump(slot)
  PROVE  /\ slot' \in Slot /\ slot'.inflight = slot.inflight /\ slot'.active = slot.active
         /\ slot'.disturbed <=> slot.inflight # Nothing
         /\ slot'.releasing = slot.releasing
BY InvGives DEF Bump, Slot

LEMMA RetireDoes ==
  ASSUME Inv, Retire
  PROVE  slot' \in Slot /\ slot'.inflight = slot.inflight /\ slot'.active = Nothing
BY InvGives DEF Retire, Slot, ClaimOrNothing

(* One entry less in each of the two sequences, or none.                   *)
LEMMA DropsOne ==
  ASSUME Inv, UNCHANGED job, NEW k, NEW l,
         queue' = Without(queue, k), reserved' = Without(reserved, l),
         slot' \in Slot, slot'.inflight = slot.inflight,
         slot'.active = slot.active \/ (slot.inflight = Nothing /\ slot'.active = Nothing)
  PROVE  Shrinks /\ Queued' = Queued \ {k} /\ Reserved' = Reserved \ {l} /\ Ordered(queue', queue)
<1>1. /\ Distinct(Claim, queue') /\ Queued' = Queued \ {k} /\ Ordered(queue', queue)
      /\ Len(queue') = IF k \in Queued THEN Len(queue) - 1 ELSE Len(queue)
  BY InvGives, WithoutHolds DEF Queued
<1>2. /\ Distinct(Claim, reserved') /\ Reserved' = Reserved \ {l}
      /\ Len(reserved') = IF l \in Reserved THEN Len(reserved) - 1 ELSE Len(reserved)
  BY InvGives, WithoutHolds DEF Reserved
<1> QED BY <1>1, <1>2, InvGives DEF Shrinks

LEMMA WithoutNobody ==
  ASSUME NEW s, NEW k, k \notin ToSet(s)
  PROVE  Without(s, k) = s
BY DEF Without

(* A lease ends, its cleanup, its handoff, or a fault of either.           *)
Ends ==
  \/ Release \/ (\E attached \in BOOLEAN : Expire(attached))
  \/ CleanedUp \/ EndsUnsafe \/ Repair \/ HandedOff

LEMMA EndKeeps ==
  ASSUME Inv, Ends
  PROVE  Inv' /\ Shrinks
<1>1. UNCHANGED <<queue, reserved, job>> /\ Books
  <2>1. CASE Release \/ CleanedUp \/ EndsUnsafe \/ Repair \/ HandedOff
    BY <2>1, SameBooks DEF Release, CleanedUp, EndsUnsafe, Repair, HandedOff
  <2>2. CASE \E attached \in BOOLEAN : Expire(attached)
    <3>1. slot.active # Nothing => Whose(slot.active) \in Client
      BY InvGives, ClaimIs DEF Slot, ClaimOrNothing
    <3> QED BY <2>2, <3>1 DEF Expire, Settled, Inv, Types, Books
  <2> QED BY <2>1, <2>2 DEF Ends
<1>2. /\ slot' \in Slot /\ slot'.inflight = slot.inflight
      /\ slot'.active = slot.active \/ (slot.inflight = Nothing /\ slot'.active = Nothing)
  <2>1. CASE Release \/ (\E attached \in BOOLEAN : Expire(attached))
    BY <2>1, RetireDoes DEF Release, Expire, Settled
  <2>2. CASE CleanedUp \/ EndsUnsafe \/ Repair \/ HandedOff
    BY <2>2, InvGives DEF CleanedUp, EndsUnsafe, Repair, HandedOff, Slot, ClaimOrNothing
  <2> QED BY <2>1, <2>2 DEF Ends
<1> QED BY <1>1, <1>2, Unchanging, ShrinksKeeps

(* The cancelled operation is the first ticket of the client.              *)
LEMMA CancelsOperation ==
  ASSUME Inv, NEW c \in Client, CancelOperation(c)
  PROVE  \E r, q \in ClaimOrNothing :
           /\ queue' = Without(queue, q) /\ reserved' = Without(reserved, r)
           /\ taken' = taken \cup ({r, q} \ {Nothing})
           /\ r # Nothing => r \in Reserved /\ Whose(r) = c
           /\ q # Nothing => q \in Queued /\ Whose(q) = c
           /\ tomb' = tomb \cup {c} /\ UNCHANGED <<grace, used, job, streak>>
           /\ IF slot.active.op = "op" /\ Whose(slot.active) = c /\ slot.inflight = Nothing
              THEN Retire ELSE slot' = Bump(slot)
<1> DEFINE r == First(reserved, c)
           q == IF r = Nothing THEN First(queue, c) ELSE Nothing
<1>1. /\ queue' = Without(queue, q) /\ reserved' = Without(reserved, r)
      /\ taken' = taken \cup ({r, q} \ {Nothing})
      /\ tomb' = tomb \cup {c} /\ UNCHANGED <<grace, used, job, streak>>
      /\ IF slot.active.op = "op" /\ Whose(slot.active) = c /\ slot.inflight = Nothing
         THEN Retire ELSE slot' = Bump(slot)
  BY DEF CancelOperation
<1>2. r # Nothing => r \in Reserved /\ Whose(r) = c
  BY InvGives, FirstIs DEF Reserved
<1>3. q # Nothing => q \in Queued /\ Whose(q) = c
  BY InvGives, FirstIs DEF Queued
<1>4. r \in ClaimOrNothing /\ q \in ClaimOrNothing
  BY <1>2, <1>3, InvGives DEF ClaimOrNothing
<1> HIDE DEF r, q
<1> QED BY <1>1, <1>2, <1>3, <1>4

LEMMA CancelOperationKeeps ==
  ASSUME Inv, NEW c \in Client, CancelOperation(c)
  PROVE  Inv'
<1>1. PICK r \in ClaimOrNothing, q \in ClaimOrNothing :
           /\ queue' = Without(queue, q) /\ reserved' = Without(reserved, r)
           /\ taken' = taken \cup ({r, q} \ {Nothing})
           /\ tomb' = tomb \cup {c} /\ UNCHANGED <<grace, used, job, streak>>
           /\ IF slot.active.op = "op" /\ Whose(slot.active) = c /\ slot.inflight = Nothing
              THEN Retire ELSE slot' = Bump(slot)
  BY CancelsOperation
<1>2. /\ slot' \in Slot /\ slot'.inflight = slot.inflight
      /\ slot'.active = slot.active \/ (slot.inflight = Nothing /\ slot'.active = Nothing)
  BY <1>1, RetireDoes, BumpDoes
<1>3. Books
  BY <1>1 DEF Inv, Types, Books, ClaimOrNothing
<1> QED BY <1>1, <1>2, <1>3, DropsOne, ShrinksKeeps

LEMMA CancelTicketKeeps ==
  ASSUME Inv, NEW k \in Claim, CancelTicket(k)
  PROVE  Inv'
<1>1. /\ queue' = Without(queue, k) /\ reserved' = Without(reserved, k) /\ slot' = Bump(slot)
      /\ taken' = taken \cup {k} /\ UNCHANGED <<tomb, grace, used, job, streak>>
  BY DEF CancelTicket
<1>2. Books
  BY <1>1 DEF Inv, Types, Books
<1> QED BY <1>1, <1>2, BumpDoes, DropsOne, ShrinksKeeps

LEMMA TicketExpiresDoes ==
  ASSUME Inv, NEW k \in Claim, TicketExpires(k)
  PROVE  /\ Inv' /\ Shrinks /\ slot' = Bump(slot) /\ Queued' = Queued \ {k}
         /\ Ordered(queue', queue) /\ UNCHANGED <<reserved, tomb, grace, used, job, taken, streak>>
<1>1. /\ queue' = Without(queue, k) /\ slot' = Bump(slot)
      /\ UNCHANGED <<reserved, tomb, grace, used, job, taken, streak>>
  BY DEF TicketExpires
<1>2. reserved' = Without(reserved, Nothing)
  BY <1>1, InvGives, WithoutNobody DEF Reserved
<1>3. Shrinks /\ Queued' = Queued \ {k} /\ Ordered(queue', queue)
  BY <1>1, <1>2, BumpDoes, DropsOne
<1> QED BY <1>1, <1>3, SameBooks, ShrinksKeeps

LEMMA TombstoneExpiresKeeps ==
  ASSUME Inv, NEW c \in Client, TombstoneExpires(c)
  PROVE  Inv' /\ Shrinks
<1>1. /\ tomb' = tomb \ {c} /\ slot' = Bump(slot)
      /\ UNCHANGED <<queue, reserved, grace, used, job, taken, streak>>
  BY DEF TombstoneExpires
<1>2. Books
  BY <1>1 DEF Inv, Types, Books
<1> QED BY <1>1, <1>2, BumpDoes, Unchanging, ShrinksKeeps

LEMMA GraceEndsKeeps ==
  ASSUME Inv, GraceEnds
  PROVE  Inv' /\ Shrinks
<1>1. /\ grace' = Nobody /\ UNCHANGED <<queue, reserved, slot, tomb, used, job, taken>>
      /\ streak' = [streak EXCEPT !.late = streak.late \/ Returning(grace)]
  BY DEF GraceEnds
<1>2. streak' \in Streaks
  <2>1. streak \in Streaks /\ (streak.late \/ Returning(grace)) \in BOOLEAN
    BY DEF Inv, Types, Streaks
  <2> QED BY <1>1, <2>1 DEF Streaks
<1>3. Books
  BY <1>1, <1>2 DEF Inv, Types, Books
<1> QED BY <1>1, <1>3, InvGives, Unchanging, ShrinksKeeps

LEMMA StutterKeeps ==
  ASSUME Inv, UNCHANGED vars
  PROVE  Inv'
BY InvGives, SameBooks, Unchanging, ShrinksKeeps DEF vars

LEMMA InitHolds ==
  ASSUME Init
  PROVE  Inv
<1>1. /\ queue = <<>> /\ reserved = <<>> /\ slot.active = Nothing /\ slot.inflight = Nothing
      /\ \A t \in Thread : job[t] = Idle /\ Pc(t) = "idle"
  BY DEF Init, Idle, Pc
<1>2. Types
  <2>1. 0 \in 0 .. MaxPref /\ 0 \in 0 .. MaxPref + 2
    BY QueueAssumption
  <2>2. Distinct(Claim, queue) /\ Distinct(Claim, reserved)
    BY <1>1, Empty
  <2>3. slot \in Slot /\ job \in [Thread -> Job]
    BY DEF Init, Slot, Job, Idle, PcSet, ClaimOrNothing
  <2> QED BY <2>1, <2>2, <2>3 DEF Init, Types, Streaks
<1>3. Queued = {} /\ Reserved = {} /\ Len(queue) = 0 /\ Len(reserved) = 0
  BY <1>1, Empty DEF Queued, Reserved
<1>4. \A t \in Thread : Shapes(t)
  BY <1>1 DEF Shapes, About, Coming, Flies, Fresh, Grant
<1>5. Room
  BY <1>1, <1>3, QueueAssumption DEF Room, Capacity, Grant
<1> QED BY <1>1, <1>2, <1>3, <1>4, <1>5
    DEF Inv, Shapes, Alone, Flown, Backed, Given, Grant, Reserved

LEMMA NextKeeps ==
  ASSUME Inv, [Next]_vars
  PROVE  Inv'
<1>1. ASSUME NEW t \in Thread, \E op \in Op : Acquire(t, op)
      PROVE  Inv'
  BY <1>1, AcquireKeeps
<1>2. ASSUME NEW t \in Thread, NEW k \in ToSet(queue), Wait(t, k)
      PROVE  Inv'
  BY <1>2, WaitKeeps DEF Queued
<1>3. ASSUME NEW t \in Thread,
             \/ Enqueue(t) \/ ReservationFails(t) \/ WaitReturns(t) \/ GrantRefused(t)
             \/ Publish(t) \/ Settle(t) \/ ThreadStep(t)
      PROVE  Inv'
  BY <1>3, EnqueueKeeps, ReservationFailsKeeps, WaitReturnsKeeps, GrantRefusedKeeps,
     PublishKeeps, SettleKeeps, AwaitOverKeeps, JoinQueueKeeps, WaitClaimsKeeps, TakeBackKeeps
  DEF ThreadStep
<1>4. CASE Ends
  BY <1>4, EndKeeps
<1>5. ASSUME NEW c \in Client, CancelOperation(c) \/ TombstoneExpires(c)
      PROVE  Inv'
  BY <1>5, CancelOperationKeeps, TombstoneExpiresKeeps
<1>6. ASSUME NEW k \in Claim, CancelTicket(k) \/ TicketExpires(k)
      PROVE  Inv'
  BY <1>6, CancelTicketKeeps, TicketExpiresDoes
<1>7. CASE GraceEnds
  BY <1>7, GraceEndsKeeps
<1>8. CASE UNCHANGED vars
  BY <1>8, StutterKeeps
<1> QED BY <1>1, <1>2, <1>3, <1>4, <1>5, <1>6, <1>7, <1>8 DEF Next, Ends

(* Where every claim is, and who is about it, in every behaviour: what the *)
(* theorems below follow from.                                             *)
THEOREM QueueSafety == Spec => []Inv
<1>1. Init => Inv
  BY InitHolds
<1>2. Inv /\ [Next]_vars => Inv'
  BY NextKeeps
<1> QED BY <1>1, <1>2, PTL DEF Spec

(* Queue, reservations, slot, tombstones, grace, counts and jobs keep      *)
(* their types, and no ticket stands twice in the queue or the             *)
(* reservations: not the one of a grant that was taken back, either.       *)
THEOREM QueueTyped == Spec => []TypeOK
<1>1. Inv => TypeOK
  BY DEF Inv, Types, TypeOK, Distinct, Slot, Job, PcSet, Streaks
<1> QED BY <1>1, QueueSafety, PTL

(* Queue and reservations never exceed MAX_SESSION_QUEUE by more than the  *)
(* ticket of one grant that was taken back.                                *)
THEOREM QueueRoom == Spec => []RoomKept
<1>1. Inv => RoomKept
  BY DEF Inv, Room, Capacity, RoomKept
<1> QED BY <1>1, QueueSafety, PTL

-----------------------------------------------------------------------------
(* What is cancelled, when every claim has an operation.                   *)

LEMMA AllOps ==
  ASSUME ~Plain, NEW k \in Claim
  PROVE  k.op = "op" /\ (Cancelled(k) <=> Whose(k) \in tomb)
BY ClaimIs DEF Op, Cancelled

LEMMA GrantIs ==
  ASSUME Inv, NEW t \in Thread, Pc(t) \in Grant
  PROVE  /\ job[t].claim \in Claim /\ job[t].claim # Nothing /\ job[t].claim = slot.inflight
         /\ job[t].claim \notin Reserved /\ \A u \in Thread \ {t} : Pc(u) \notin Grant
         /\ Pc(t) = "granting" => ~job[t].fifo /\ job[t].claim \notin Queued
         /\ Pc(t) # "publishing" => slot.active = Nothing
         /\ Pc(t) = "publishing" => slot.active = job[t].claim /\ job[t].claim \notin Queued
BY InvGives, ClaimIs DEF Inv, About, Flies, Coming, Alone, Grant, Fresh

(* A call that asks for a claim that is not cancelled.                     *)
LEMMA ComesCancels ==
  ASSUME Inv, Cancels, NEW t \in Thread, NEW k, k \notin taken', taken' \subseteq taken,
         UNCHANGED <<queue, tomb>>, Reserved' \subseteq Reserved \cup {k},
         k \in Reserved' \ Reserved => k \notin Queued,
         \A u \in Thread \ {t} : job'[u] = job[u],
         job'[t].pc \in {"idle", "await", "queueing", "enqueueing", "granting"},
         job'[t].pc # "idle" => job'[t].claim = k,
         slot' = slot \/ (slot'.active = Nothing /\ \A u \in Thread \ {t} : Pc(u) \notin Grant)
  PROVE  Cancels'
<1>1. (taken \cap (Queued \cup Reserved) = {})'
  BY DEF Cancels, Queued, Reserved
<1>2. ASSUME NEW u \in Thread PROVE Gone(u)'
  BY DEF Cancels, Gone, Pc, Cancelled, Grant
<1>3. (Settled => slot.active \notin taken /\ ~Cancelled(slot.active))'
  BY DEF Cancels, Settled, Cancelled
<1> QED BY <1>1, <1>2, <1>3 DEF Cancels, Reserved

LEMMA DecideCancels ==
  ASSUME Inv, Cancels, NEW t \in Thread, NEW k \in Claim, k.by = t, k \notin Live,
         k \notin taken', taken' \subseteq taken, Pc(t) \in {"idle", "await"},
         UNCHANGED <<queue, tomb>>, Decide(t, k)
  PROVE  Cancels'
<1>1. k \notin Queued /\ k \notin Reserved
  BY ClaimIs DEF Live, Reserved
<1>2. CASE SlotIdle /\ (Preferred(Of[t]) \/ (~Busy /\ ~Blocks(Of[t])))
  <2>1. /\ slot' = [slot EXCEPT !.inflight = k, !.disturbed = FALSE] /\ reserved' = reserved
        /\ Go(t, "granting", k, FALSE) /\ slot.active = Nothing /\ slot.inflight = Nothing
    BY <1>2 DEF Decide, SlotIdle
  <2>2. slot'.active = Nothing
    BY <2>1, InvGives DEF Slot
  <2>3. \A u \in Thread : Pc(u) \notin Grant
    BY <2>1, GrantIs
  <2>4. /\ \A u \in Thread \ {t} : job'[u] = job[u]
        /\ job'[t].pc = "granting" /\ job'[t].claim = k
    BY <2>1, InvGives DEF Go
  <2> QED BY <2>1, <2>2, <2>3, <2>4, ComesCancels DEF Reserved
<1>3. CASE ~(SlotIdle /\ (Preferred(Of[t]) \/ (~Busy /\ ~Blocks(Of[t]))))
  <2>1. Reserves(t, k, "queueing") /\ slot' = slot
    BY <1>3 DEF Decide
  <2>2. /\ \A u \in Thread \ {t} : job'[u] = job[u] /\ Reserved' \subseteq Reserved \cup {k}
        /\ job'[t].pc = "idle" \/ (job'[t].pc = "queueing" /\ job'[t].claim = k)
    BY <1>1, <2>1, InvGives, ReservesDoes DEF PcSet, Reserved
  <2>3. \A u \in Thread \ {t} : job'[u] = job[u]
    BY <2>2
  <2>4. Reserved' \subseteq Reserved \cup {k}
    BY <1>1, <2>1, InvGives, ReservesDoes DEF PcSet, Reserved
  <2> QED BY <1>1, <2>1, <2>2, <2>3, <2>4, ComesCancels
<1> QED BY <1>2, <1>3

LEMMA AcquireCancels ==
  ASSUME Inv, Cancels, NEW t \in Thread, NEW op \in Op, Acquire(t, op)
  PROVE  Cancels'
<1> DEFINE k == [by |-> t, op |-> op]
<1>1. /\ Pc(t) = "idle" /\ Claims(Of[t]) = {} /\ New(k) /\ UNCHANGED <<queue, tomb, grace, used>>
      /\ \/ Go(t, "await", k, FALSE) /\ UNCHANGED <<reserved, slot>>
         \/ Decide(t, k)
  BY DEF Acquire
<1>2. k \in Claim /\ k.by = t
  BY ClaimOf
<1> HIDE DEF k
<1>3. k \notin Live
  BY <1>1, <1>2, ClaimIs, Unmet
<1>4. k \notin taken' /\ taken' \subseteq taken
  BY <1>1 DEF New
<1>5. CASE Go(t, "await", k, FALSE) /\ UNCHANGED <<reserved, slot>>
  <2>1. /\ \A u \in Thread \ {t} : job'[u] = job[u]
        /\ job'[t].pc = "await" /\ job'[t].claim = k
    BY <1>2, <1>5, InvGives DEF Go
  <2> QED BY <1>1, <1>4, <1>5, <2>1, ComesCancels DEF Reserved
<1>6. CASE Decide(t, k)
  BY <1>1, <1>2, <1>3, <1>4, <1>6, DecideCancels
<1> QED BY <1>1, <1>5, <1>6

LEMMA AwaitOverCancels ==
  ASSUME Inv, Cancels, NEW t \in Thread, AwaitOver(t)
  PROVE  Cancels'
<1>1. /\ Pc(t) = "await" /\ UNCHANGED <<queue, tomb, grace, used, taken, streak>>
      /\ (Done(t) /\ UNCHANGED <<reserved, slot>>) \/ Decide(t, job[t].claim)
  BY DEF AwaitOver
<1>2. job[t].claim \notin taken
  BY <1>1 DEF Cancels, Gone
<1>3. CASE Done(t) /\ UNCHANGED <<reserved, slot>>
  <2>1. (\A u \in Thread \ {t} : job'[u] = job[u]) /\ job'[t].pc = "idle"
    BY <1>3, InvGives, DoneDoes
  <2> QED BY <1>1, <1>2, <1>3, <2>1, ComesCancels DEF Reserved
<1>4. CASE Decide(t, job[t].claim)
  BY <1>1, <1>2, <1>4, Awaited, DecideCancels
<1> QED BY <1>1, <1>3, <1>4

LEMMA EnqueueCancels ==
  ASSUME Inv, Cancels, NEW t \in Thread, Enqueue(t)
  PROVE  Cancels'
<1>1. PICK k \in Claim : /\ k.by = t /\ k \notin Live /\ Reserves(t, k, "enqueueing") /\ New(k)
                         /\ Pc(t) = "idle" /\ UNCHANGED <<queue, slot, tomb, grace, used>>
  BY Enqueued
<1>2. k \notin Queued /\ k \notin Reserved
  BY <1>1, ClaimIs DEF Live, Reserved
<1>3. /\ \A u \in Thread \ {t} : job'[u] = job[u]
      /\ job'[t].pc = "idle" \/ (job'[t].pc = "enqueueing" /\ job'[t].claim = k)
  BY <1>1, <1>2, InvGives, ReservesDoes DEF PcSet, Reserved
<1>4. Reserved' \subseteq Reserved \cup {k}
  BY <1>1, <1>2, InvGives, ReservesDoes DEF PcSet, Reserved
<1>5. k \notin taken' /\ taken' \subseteq taken
  BY <1>1 DEF New
<1> QED BY <1>1, <1>2, <1>3, <1>4, <1>5, ComesCancels

(* Steps after which less is queued, and only a grant may be disturbed.    *)
LEMMA EasesCancels ==
  ASSUME Inv, Cancels, taken' = taken, tomb' \subseteq tomb,
         Queued' \cup Reserved' \subseteq Queued \cup Reserved,
         \A u \in Thread : job'[u] = job[u] \/ job'[u].pc \in {"idle", "waiting"},
         \A u \in Thread : job'[u] = job[u] /\ Pc(u) \in {"claiming", "publishing"} =>
           (Cancelled(job[u].claim) => Cancelled(job[u].claim)'),
         slot'.active \in {slot.active, Nothing}, slot'.inflight = slot.inflight,
         slot'.disturbed = slot.disturbed \/ (slot'.disturbed <=> slot.inflight # Nothing)
  PROVE  Cancels'
<1>1. (taken \cap (Queued \cup Reserved) = {})'
  BY DEF Cancels, Reserved
<1>2. ASSUME NEW u \in Thread PROVE Gone(u)'
  <2>1. CASE job'[u] # job[u]
    BY <2>1 DEF Gone, Pc
  <2>2. CASE job'[u] = job[u]
    BY <2>2, GrantIs DEF Cancels, Gone, Pc, Cancelled, Grant
  <2> QED BY <2>1, <2>2
<1>3. (Settled => slot.active \notin taken /\ ~Cancelled(slot.active))'
  BY DEF Cancels, Settled, Cancelled
<1> QED BY <1>1, <1>2, <1>3 DEF Cancels, Reserved

LEMMA UnreservesCancels ==
  ASSUME Inv, Cancels, NEW t \in Thread, JoinQueue(t) \/ ReservationFails(t)
  PROVE  Cancels'
<1>1. /\ Unreserves(t) /\ UNCHANGED <<taken, tomb>> /\ Pc(t) \in {"queueing", "enqueueing"}
  BY DEF JoinQueue, ReservationFails, Unreserves, Reserved
<1>2. \A u \in Thread : job'[u] = job[u] \/ job'[u].pc \in {"idle", "waiting"}
  BY <1>1, InvGives, DoneDoes DEF Unreserves
<1>3. /\ slot'.active = slot.active /\ slot'.inflight = slot.inflight
      /\ slot'.disturbed = slot.disturbed \/ (slot'.disturbed <=> slot.inflight # Nothing)
  BY <1>1, BumpDoes DEF Unreserves
<1>4. Reserved' \subseteq Reserved
  BY <1>1, InvGives, WithoutHolds DEF Unreserves, Reserved
<1>5. Queued' \subseteq Queued \cup Reserved
  <2>1. CASE queue' = queue
    BY <2>1 DEF Queued
  <2>2. CASE job[t].claim \in Reserved /\ queue' = Append(queue, job[t].claim)
    BY <2>2, InvGives, AppendHolds DEF Queued
  <2> QED BY <1>1, <2>1, <2>2 DEF Unreserves
<1> QED BY <1>1, <1>2, <1>3, <1>4, <1>5, EasesCancels DEF Cancelled

LEMMA WaitCancels ==
  ASSUME Inv, Cancels, NEW t \in Thread, WaitReturns(t) \/ \E k \in Queued : Wait(t, k)
  PROVE  Cancels'
<1>1. UNCHANGED <<queue, reserved, slot, tomb, taken>>
  BY DEF WaitReturns, Wait
<1>2. \A u \in Thread : job'[u] = job[u] \/ job'[u].pc \in {"idle", "waiting"}
  <2>1. CASE WaitReturns(t)
    BY <2>1, InvGives, DoneDoes DEF WaitReturns
  <2>2. ASSUME NEW k \in Queued, Wait(t, k)
        PROVE  \A u \in Thread : job'[u] = job[u] \/ job'[u].pc \in {"idle", "waiting"}
    BY <2>2, InvGives DEF Wait, Go
  <2> QED BY <2>1, <2>2
<1> QED BY <1>1, <1>2, EasesCancels DEF Cancelled, Queued, Reserved

LEMMA WaitClaimsCancels ==
  ASSUME Inv, Cancels, NEW t \in Thread, WaitClaims(t)
  PROVE  Cancels'
<1> DEFINE k == job[t].claim
<1>1. /\ Pc(t) = "waiting" /\ k \in Queued /\ SlotIdle /\ queue' = <<k>> \o Without(queue, k)
      /\ slot' = [slot EXCEPT !.inflight = k, !.disturbed = FALSE] /\ Go(t, "claiming", k, TRUE)
      /\ UNCHANGED <<reserved, tomb, grace, used, taken, streak>>
  BY DEF WaitClaims, CanClaim, Queued
<1> HIDE DEF k
<1>2. /\ \A u \in Thread \ {t} : job'[u] = job[u]
      /\ job'[t].pc = "claiming" /\ job'[t].claim = k
  BY <1>1, InvGives DEF Go
<1>3. slot'.active = Nothing /\ slot.inflight = Nothing
  BY <1>1, InvGives DEF Slot, SlotIdle
<1>4. Queued' = Queued
  BY <1>1, InvGives, MovedHolds DEF Queued
<1>5. \A u \in Thread : Pc(u) \notin Grant
  BY <1>3, GrantIs
<1>6. ASSUME NEW u \in Thread PROVE Gone(u)'
  BY <1>1, <1>2, <1>5 DEF Cancels, Gone, Pc, Cancelled, Grant
<1> QED BY <1>1, <1>3, <1>4, <1>6 DEF Cancels, Settled

LEMMA LandsCancels ==
  ASSUME Inv, Cancels, NEW t \in Thread, Pc(t) \in Grant, Lands(t), UNCHANGED <<tomb, taken>>,
         queue' = queue \/ ~Cancelled(job[t].claim),
         slot'.active # Nothing => ~slot.disturbed
  PROVE  Cancels'
<1> DEFINE k == job[t].claim
<1>1. /\ k \notin Reserved /\ \A u \in Thread \ {t} : Pc(u) \notin Grant
      /\ Pc(t) = "granting" => ~job[t].fifo
      /\ Pc(t) = "publishing" => slot.active = k
  BY GrantIs
<1>2. (\A u \in Thread \ {t} : job'[u] = job[u]) /\ job'[t].pc = "idle"
  BY InvGives, DoneDoes DEF Lands
<1>3. /\ slot'.inflight = Nothing /\ reserved' = reserved
      /\ slot'.active = Nothing \/ (Pc(t) = "publishing" /\ slot'.active = slot.active)
  BY DEF Lands
<1>4. Queued' \subseteq Queued \cup {k} /\ (k \in taken => Queued' = Queued)
  <2>1. CASE queue' = queue
    BY <2>1 DEF Queued
  <2>2. CASE /\ queue' # queue /\ job[t].fifo /\ k \notin Queued
             /\ queue' = <<k>> \o queue
    <3>1. k \notin taken
      BY <1>1, <2>2 DEF Cancels, Gone, Grant
    <3>2. k \in Claim
      BY GrantIs
    <3> HIDE DEF k
    <3> QED BY <2>2, <3>1, <3>2, InvGives, PushHolds DEF Queued
  <2> QED BY <2>1, <2>2 DEF Lands
<1>5. ASSUME NEW u \in Thread PROVE Gone(u)'
  BY <1>1, <1>2 DEF Cancels, Gone, Pc, Cancelled, Grant
<1>6. (Settled => slot.active \notin taken /\ ~Cancelled(slot.active))'
  BY <1>1, <1>3 DEF Cancels, Gone, Settled, Cancelled
<1> QED BY <1>3, <1>4, <1>5, <1>6 DEF Cancels

LEMMA GrantRefusedCancels ==
  ASSUME Inv, Cancels, NEW t \in Thread, GrantRefused(t)
  PROVE  Cancels'
<1>1. /\ Pc(t) \in {"granting", "claiming"} /\ UNCHANGED <<queue, tomb, grace, used, taken, streak>>
      /\ slot' = [slot EXCEPT !.inflight = Nothing, !.disturbed = FALSE]
      /\ \/ Done(t) /\ UNCHANGED reserved
         \/ Pc(t) = "granting" /\ Reserves(t, job[t].claim, "queueing")
  BY DEF GrantRefused
<1>2. Pc(t) \in Grant /\ slot.active = Nothing
  BY <1>1, GrantIs DEF Grant
<1>3. slot' \in Slot /\ slot'.inflight = Nothing /\ slot'.active = Nothing
  BY <1>1, <1>2, InvGives DEF Slot, ClaimOrNothing
<1>4. CASE Done(t) /\ UNCHANGED reserved
  BY <1>1, <1>2, <1>3, <1>4, LandsCancels DEF Lands
<1>5. CASE Pc(t) = "granting" /\ Reserves(t, job[t].claim, "queueing")
  <2> DEFINE k == job[t].claim
  <2>1. k \notin taken /\ k \in Claim /\ k \notin Reserved /\ k \notin Queued
    BY <1>2, <1>5, GrantIs DEF Cancels, Gone
  <2>2. Reserves(t, k, "queueing")
    BY <1>5
  <2> HIDE DEF k
  <2>3. /\ \A u \in Thread \ {t} : job'[u] = job[u]
        /\ job'[t].pc = "idle" \/ (job'[t].pc = "queueing" /\ job'[t].claim = k)
    BY <2>1, <2>2, InvGives, ReservesDoes DEF PcSet, Reserved
  <2>4. Reserved' \subseteq Reserved \cup {k}
    BY <2>1, <2>2, InvGives, ReservesDoes DEF PcSet, Reserved
  <2>5. \A u \in Thread \ {t} : Pc(u) \notin Grant
    BY <1>2, GrantIs
  <2> QED BY <1>1, <1>3, <2>1, <2>3, <2>4, <2>5, ComesCancels
<1> QED BY <1>1, <1>4, <1>5

LEMMA TakeBackCancels ==
  ASSUME Inv, Cancels, NEW t \in Thread, NotExact(t) \/ Compensate(t)
  PROVE  Cancels'
<1>1. Pc(t) \in Grant /\ TakeBack(t)
  BY DEF NotExact, Compensate, Grant
<1>2. queue' = queue \/ ~Cancelled(job[t].claim)
  BY <1>1 DEF TakeBack, Requeued
<1>3. slot'.active = Nothing
  BY <1>1, InvGives DEF TakeBack, Slot
<1> QED BY <1>1, <1>2, <1>3, TakesBack, LandsCancels

LEMMA SettleCancels ==
  ASSUME Inv, Cancels, NEW t \in Thread, Settle(t)
  PROVE  Cancels'
<1>1. Lands(t) /\ Pc(t) \in Grant
  BY Settles DEF Lands, Grant
<1> QED BY <1>1, Settles, LandsCancels

LEMMA PublishCancels ==
  ASSUME Inv, Cancels, NEW t \in Thread, Publish(t)
  PROVE  Cancels'
<1> DEFINE k == job[t].claim
<1>1. /\ Pc(t) \in {"granting", "claiming"} /\ Go(t, "publishing", k, job[t].fifo)
      /\ slot' = [slot EXCEPT !.active = k, !.disturbed = FALSE] /\ ~Cancelled(k)
      /\ UNCHANGED <<reserved, tomb, grace, used, taken, streak>>
      /\ IF job[t].fifo THEN queue' = Tail(queue) /\ queue # <<>>
         ELSE queue' = queue
  BY DEF Publish, Exact
<1>2. /\ k \in Claim /\ k # Nothing /\ k = slot.inflight
      /\ \A u \in Thread \ {t} : Pc(u) \notin Grant
  BY <1>1, GrantIs DEF Grant
<1>3. k \notin taken
  BY <1>1 DEF Cancels, Gone
<1>4. Queued' \subseteq Queued
  BY <1>1, InvGives, HeadHolds DEF Queued
<1> HIDE DEF k
<1>5. /\ \A u \in Thread \ {t} : job'[u] = job[u]
      /\ job'[t].pc = "publishing" /\ job'[t].claim = k
  BY <1>1, <1>2, InvGives DEF Go
<1>6. slot'.inflight = k
  BY <1>1, <1>2, InvGives DEF Slot
<1>7. ASSUME NEW u \in Thread PROVE Gone(u)'
  BY <1>1, <1>2, <1>3, <1>5 DEF Cancels, Gone, Pc, Cancelled, Grant
<1> QED BY <1>1, <1>2, <1>4, <1>6, <1>7 DEF Cancels, Settled

LEMMA EndCancels ==
  ASSUME Inv, Cancels,
         Ends
  PROVE  Cancels'
<1>1. UNCHANGED <<queue, reserved, tomb, job, taken>>
  BY DEF Ends, Release, Expire, CleanedUp, EndsUnsafe, Repair, HandedOff
<1>2. slot'.active \in {slot.active, Nothing} /\ slot'.inflight = slot.inflight
  BY EndKeeps DEF Shrinks
<1>3. slot'.disturbed = slot.disturbed
  BY InvGives DEF Ends, Release, Expire, CleanedUp, EndsUnsafe, Repair, HandedOff, Retire, Slot
<1> QED BY <1>1, <1>2, <1>3, EasesCancels DEF Cancelled, Queued, Reserved

LEMMA CancelOperationCancels ==
  ASSUME ~Plain, Inv, Cancels, NEW c \in Client, CancelOperation(c)
  PROVE  Cancels'
<1>1. PICK r \in ClaimOrNothing, q \in ClaimOrNothing :
           /\ queue' = Without(queue, q) /\ reserved' = Without(reserved, r)
           /\ taken' = taken \cup ({r, q} \ {Nothing})
           /\ r # Nothing => r \in Reserved /\ Whose(r) = c
           /\ q # Nothing => q \in Queued /\ Whose(q) = c
           /\ tomb' = tomb \cup {c} /\ UNCHANGED <<grace, used, job, streak>>
           /\ IF slot.active.op = "op" /\ Whose(slot.active) = c /\ slot.inflight = Nothing
              THEN Retire ELSE slot' = Bump(slot)
  BY CancelsOperation
<1>2. Queued' = Queued \ {q} /\ Reserved' = Reserved \ {r}
  BY <1>1, InvGives, WithoutHolds DEF Queued, Reserved
<1>3. /\ slot'.inflight = slot.inflight
      /\ \/ slot'.active = Nothing /\ slot.inflight = Nothing
         \/ /\ slot'.active = slot.active /\ (slot'.disturbed <=> slot.inflight # Nothing)
            /\ ~(slot.active.op = "op" /\ Whose(slot.active) = c /\ slot.inflight = Nothing)
  BY <1>1, RetireDoes, BumpDoes
<1>4. (taken \cap (Queued \cup Reserved) = {})'
  BY <1>1, <1>2, InvGives DEF Cancels, Reserved
<1>5. ASSUME NEW u \in Thread PROVE Gone(u)'
  <2>1. CASE Pc(u) = "await"
    <3>1. job[u].claim \notin Queued /\ job[u].claim \notin Reserved
      BY <2>1, Awaited, ClaimIs DEF Live, Reserved
    <3> QED BY <1>1, <2>1, <3>1 DEF Cancels, Gone, Pc
  <2>2. CASE Pc(u) = "granting"
    <3>1. job[u].claim \notin Queued /\ job[u].claim \notin Reserved
      BY <2>2, GrantIs DEF Grant
    <3> QED BY <1>1, <2>2, <3>1 DEF Cancels, Gone, Pc
  <2>3. CASE Pc(u) \in {"claiming", "publishing"}
    <3>1. job[u].claim \in Claim /\ slot.inflight # Nothing
      BY <2>3, GrantIs DEF Grant
    <3>2. /\ Cancelled(job[u].claim) <=> Whose(job[u].claim) \in tomb
          /\ Cancelled(job[u].claim)' <=> Whose(job[u].claim) \in tomb'
      BY <1>1, <3>1, AllOps DEF Cancelled
    <3> QED BY <1>1, <1>3, <2>3, <3>1, <3>2 DEF Cancels, Gone, Pc
  <2>4. CASE Pc(u) \notin {"await", "granting", "claiming", "publishing"}
    BY <1>1, <2>4 DEF Gone, Pc
  <2> QED BY <2>1, <2>2, <2>3, <2>4
<1>6. (Settled => slot.active \notin taken /\ ~Cancelled(slot.active))'
  <2>1. SUFFICES ASSUME Settled' PROVE slot.active \notin taken' /\ ~Cancelled(slot.active)'
    BY <1>3 DEF Settled, Cancelled
  <2>2. slot'.active = slot.active /\ slot.active # Nothing /\ slot.inflight = Nothing /\ Settled
    BY <1>3, <2>1 DEF Settled
  <2>3. slot.active \in Claim /\ slot.active \notin Queued /\ slot.active \notin Reserved
    BY <2>2, InvGives DEF Inv, Given, Slot, ClaimOrNothing
  <2>4. slot.active.op = "op" /\ Whose(slot.active) # c /\ Whose(slot.active) \notin tomb
    BY <1>3, <2>2, <2>3, AllOps DEF Cancels
  <2> QED BY <1>1, <2>2, <2>3, <2>4 DEF Cancels, Cancelled, Whose
<1> QED BY <1>4, <1>5, <1>6 DEF Cancels, Reserved

LEMMA TombstoneExpiresCancels ==
  ASSUME Inv, Cancels, NEW c \in Client, TombstoneExpires(c)
  PROVE  Cancels'
<1>1. /\ tomb' = tomb \ {c} /\ slot' = Bump(slot)
      /\ \A t \in Thread : Pc(t) # "idle" => Whose(job[t].claim) # c
      /\ UNCHANGED <<queue, reserved, grace, used, job, taken, streak>>
  BY DEF TombstoneExpires
<1>2. \A u \in Thread : Pc(u) # "idle" =>
        (Cancelled(job[u].claim) => Cancelled(job[u].claim)')
  BY <1>1 DEF Cancelled, Whose
<1> QED BY <1>1, <1>2, BumpDoes, EasesCancels DEF Queued, Reserved

LEMMA TicketExpiresCancels ==
  ASSUME Inv, Cancels, NEW k \in Claim, TicketExpires(k)
  PROVE  Cancels'
BY TicketExpiresDoes, BumpDoes, EasesCancels DEF Cancelled, Reserved

LEMMA NextCancels ==
  ASSUME ~Plain, Inv, Cancels, [Next]_vars
  PROVE  Cancels'
<1>1. ASSUME NEW t \in Thread, \E op \in Op : Acquire(t, op)
      PROVE  Cancels'
  BY <1>1, AcquireCancels
<1>2. ASSUME NEW t \in Thread, NEW k \in ToSet(queue), Wait(t, k)
      PROVE  Cancels'
  BY <1>2, WaitCancels DEF Queued
<1>3. ASSUME NEW t \in Thread,
             \/ Enqueue(t) \/ ReservationFails(t) \/ WaitReturns(t) \/ GrantRefused(t)
             \/ Publish(t) \/ Settle(t) \/ ThreadStep(t)
      PROVE  Cancels'
  BY <1>3, EnqueueCancels, UnreservesCancels, WaitCancels, GrantRefusedCancels,
     PublishCancels, SettleCancels, AwaitOverCancels, WaitClaimsCancels, TakeBackCancels
  DEF ThreadStep
<1>4. CASE Ends
  BY <1>4, EndCancels
<1>5. ASSUME NEW c \in Client, CancelOperation(c) \/ TombstoneExpires(c)
      PROVE  Cancels'
  BY <1>5, CancelOperationCancels, TombstoneExpiresCancels
<1>6. ASSUME NEW k \in Claim, CancelTicket(k) \/ TicketExpires(k)
      PROVE  Cancels'
  <2>1. ~CancelTicket(k)
    BY AllOps DEF CancelTicket
  <2> QED BY <1>6, <2>1, TicketExpiresCancels
<1>7. CASE GraceEnds \/ UNCHANGED vars
  <2>1. UNCHANGED <<queue, reserved, slot, tomb, job, taken>>
    BY <1>7 DEF GraceEnds, vars
  <2> QED BY <2>1, EasesCancels DEF Cancelled, Queued, Reserved
<1> QED BY <1>1, <1>2, <1>3, <1>4, <1>5, <1>6, <1>7 DEF Next, Ends

(* Among operations, one whose cancel was answered never stands in the     *)
(* queue again and is never given the lease, whatever grant or             *)
(* reservation of it was under way, and no lease outlives the cancel of    *)
(* its operation.  A plain ticket has no tombstone, hence the assumption.  *)
THEOREM CancelsHold ==
  ASSUME ~Plain
  PROVE  Spec => []CancelHolds
<1>1. Init => Inv /\ Cancels
  <2>1. ASSUME Init PROVE Cancels
    BY <2>1 DEF Init, Idle, Cancels, Gone, Pc, Settled
  <2> QED BY <2>1, InitHolds
<1>2. Inv /\ Cancels /\ [Next]_vars => Inv' /\ Cancels'
  BY NextKeeps, NextCancels
<1>3. Inv /\ Cancels => CancelHolds
  BY DEF Cancels, CancelHolds, Queued
<1> QED BY <1>1, <1>2, <1>3, PTL DEF Spec

-----------------------------------------------------------------------------
(* The order of the queue.                                                 *)

Entering == \A k \in Reserved : k \in Queued' \ Queued => Head(reserved) = k
Overtaking == \A k \in Queued, l \in Queued :
  Before(queue, k, l) /\ Before(queue', l, k) => Whose(l) = grace

LEMMA LeavingOrder ==
  ASSUME Inv, Queued' \subseteq Queued, Ordered(queue', queue)
  PROVE  Entering /\ Overtaking
BY InvGives, OneWay DEF Entering, Overtaking, Ordered

LEMMA SameOrder ==
  ASSUME Inv, queue' = queue
  PROVE  Entering /\ Overtaking
BY LeavingOrder DEF Queued, Ordered

LEMMA JoinQueueOrder ==
  ASSUME Inv, NEW t \in Thread, JoinQueue(t)
  PROVE  Entering /\ Overtaking
<1> DEFINE k == job[t].claim
<1>1. /\ Pc(t) \in {"queueing", "enqueueing"} /\ (k \in Reserved => Head(reserved) = k)
      /\ queue' = queue \/ (k \in Reserved /\ queue' = Append(queue, k))
  BY DEF JoinQueue, FirstReserved, Reserved
<1>2. CASE queue' = queue
  BY <1>2, SameOrder
<1>3. CASE k \in Reserved /\ queue' = Append(queue, k)
  <2>1. k \in Claim /\ k \notin Queued
    BY <1>3, InvGives
  <2> HIDE DEF k
  <2>2. Queued' = Queued \cup {k} /\ \A x, y : Before(queue', x, y) => Before(queue, x, y) \/ y = k
    BY <1>3, <2>1, InvGives, AppendHolds DEF Queued
  <2> QED BY <1>1, <1>3, <2>1, <2>2, InvGives, OneWay DEF Entering, Overtaking
<1> QED BY <1>1, <1>2, <1>3

LEMMA WaitClaimsOrder ==
  ASSUME Inv, NEW t \in Thread, WaitClaims(t)
  PROVE  Entering /\ Overtaking
<1> DEFINE k == job[t].claim
<1>1. /\ k \in Queued /\ queue' = <<k>> \o Without(queue, k)
      /\ Head(queue) = k \/ grace = Whose(k)
  BY DEF WaitClaims, CanClaim, Preferred, Queued
<1> HIDE DEF k
<1>2. /\ Queued' = Queued
      /\ \A x, y : Before(queue', x, y) => y # k /\ (x = k \/ Before(queue, x, y))
  BY <1>1, InvGives, MovedHolds DEF Queued
<1>3. Head(queue) = k => \A x : ~Before(queue, x, k)
  <2>1. queue # <<>>
    BY <1>1, InvGives, Entries DEF Queued
  <2> QED BY <2>1, InvGives, HeadHolds
<1>4. Entering
  BY <1>2 DEF Entering
<1>5. Overtaking
  BY <1>1, <1>2, <1>3, InvGives, OneWay DEF Overtaking
<1> QED BY <1>4, <1>5

LEMMA LandsOrder ==
  ASSUME Inv, NEW t \in Thread, Pc(t) \in Grant, Lands(t)
  PROVE  Entering /\ Overtaking
<1> DEFINE k == job[t].claim
<1>1. k \in Claim /\ k \notin Reserved
  BY GrantIs
<1>2. queue' = queue \/ (k \notin Queued /\ queue' = <<k>> \o queue)
  BY DEF Lands
<1> HIDE DEF k
<1>3. CASE queue' = queue
  BY <1>3, SameOrder
<1>4. CASE k \notin Queued /\ queue' = <<k>> \o queue
  <2>1. /\ Queued' = Queued \cup {k}
        /\ \A x, y : Before(queue', x, y) => x = k \/ Before(queue, x, y)
    BY <1>1, <1>4, InvGives, PushHolds DEF Queued
  <2>2. Entering
    BY <1>1, <2>1 DEF Entering
  <2>3. Overtaking
    BY <1>4, <2>1, InvGives, OneWay DEF Overtaking
  <2> QED BY <2>2, <2>3
<1> QED BY <1>2, <1>3, <1>4

(* One that leaves the head, or any place.                                 *)
LEMMA PublishLeaves ==
  ASSUME Inv, NEW t \in Thread, Publish(t)
  PROVE  Queued' \subseteq Queued /\ Ordered(queue', queue)
<1>1. queue' = queue \/ (queue' = Tail(queue) /\ queue # <<>>)
  BY DEF Publish, Exact
<1>2. CASE queue' = queue
  BY <1>2 DEF Queued, Ordered
<1>3. CASE queue' = Tail(queue) /\ queue # <<>>
  BY <1>3, InvGives, HeadHolds DEF Queued
<1> QED BY <1>1, <1>2, <1>3

LEMMA CancelLeaves ==
  ASSUME Inv, \/ \E c \in Client : CancelOperation(c)
              \/ \E k \in Claim : CancelTicket(k)
  PROVE  Queued' \subseteq Queued /\ Ordered(queue', queue)
<1>1. \E k : queue' = Without(queue, k)
  BY CancelsOperation DEF CancelTicket
<1> QED BY <1>1, InvGives, WithoutHolds DEF Queued

LEMMA NextOrder ==
  ASSUME Inv, [Next]_vars
  PROVE  Entering /\ Overtaking
<1>1. ASSUME NEW t \in Thread,
             \/ (\E op \in Op : Acquire(t, op)) \/ AwaitOver(t) \/ Enqueue(t)
             \/ ReservationFails(t) \/ (\E k \in ToSet(queue) : Wait(t, k)) \/ WaitReturns(t)
             \/ GrantRefused(t) \/ Settle(t)
      PROVE  Entering /\ Overtaking
  <2>1. queue' = queue
    BY <1>1 DEF Acquire, AwaitOver, Enqueue, ReservationFails, Wait, WaitReturns, GrantRefused,
                Settle
  <2> QED BY <2>1, SameOrder
<1>2. ASSUME NEW t \in Thread, NotExact(t) \/ Compensate(t)
      PROVE  Entering /\ Overtaking
  <2>1. Pc(t) \in Grant /\ TakeBack(t)
    BY <1>2 DEF NotExact, Compensate, Grant
  <2> QED BY <2>1, TakesBack, LandsOrder
<1>3. ASSUME NEW t \in Thread, Publish(t) \/ JoinQueue(t) \/ WaitClaims(t)
      PROVE  Entering /\ Overtaking
  BY <1>3, PublishLeaves, LeavingOrder, JoinQueueOrder, WaitClaimsOrder
<1>4. CASE \/ Ends
           \/ (\E c \in Client : TombstoneExpires(c)) \/ GraceEnds \/ UNCHANGED vars
  <2>1. queue' = queue
    BY <1>4 DEF Ends, Release, Expire, CleanedUp, EndsUnsafe, Repair, HandedOff, TombstoneExpires,
       GraceEnds, vars
  <2> QED BY <2>1, SameOrder
<1>5. CASE (\E c \in Client : CancelOperation(c)) \/ \E k \in Claim : CancelTicket(k)
  BY <1>5, CancelLeaves, LeavingOrder
<1>6. CASE \E k \in Claim : TicketExpires(k)
  BY <1>6, TicketExpiresDoes, LeavingOrder
<1> QED BY <1>1, <1>2, <1>3, <1>4, <1>5, <1>6 DEF Next, Ends, ThreadStep

(* Tickets join the queue in the order of their reservations, and one that *)
(* stands there is overtaken only by the owner in whose grace it stands.   *)
THEOREM InOrder == Spec => OrderKept
<1> DEFINE Orderly ==
      /\ \A k \in ToSet(reserved) :
           k \in ToSet(queue') \ ToSet(queue) => Head(reserved) = k
      /\ \A k \in ToSet(queue), l \in ToSet(queue) :
           Before(queue, k, l) /\ Before(queue', l, k) => Whose(l) = grace
<1>1. Inv /\ [Next]_vars => [Orderly]_vars
  BY NextOrder DEF Entering, Overtaking, Queued, Reserved
<1> QED BY <1>1, QueueSafety, PTL DEF Spec, OrderKept

-----------------------------------------------------------------------------
(* Whom the lease goes past, with one thread for each client.              *)

LEMMA SingleShrinks ==
  ASSUME Single, Live' \subseteq Live,
         \A u \in Thread : job'[u].pc # "idle" => Pc(u) # "idle" /\ job'[u].claim = job[u].claim
  PROVE  Single'
BY DEF Single, Pc, Whose

LEMMA SingleComes ==
  ASSUME Single, IsInjective(Of), NEW t \in Thread, NEW k \in Claim, Whose(k) = Of[t],
         \A l \in Live : Whose(l) = Of[t] => l = k, Live' \subseteq Live \cup {k},
         \A u \in Thread \ {t} : job'[u] = job[u],
         job'[t].pc = "idle" \/ job'[t].claim = k
  PROVE  Single'
<1>1. \A u \in Thread : Of[u] = Of[t] => u = t
  BY QueueAssumption DEF IsInjective
<1>2. \A l, m \in Live' : Whose(l) = Whose(m) => l = m
  BY DEF Single
<1>3. ASSUME NEW u \in Thread, job'[u].pc # "idle", NEW l \in Live', Whose(l) = Of[u]
      PROVE  l = job'[u].claim
  <2>1. CASE u = t
    BY <1>3, <2>1
  <2>2. CASE u # t
    <3>1. l \in Live /\ job'[u] = job[u]
      BY <1>1, <1>3, <2>2
    <3> QED BY <1>3, <3>1 DEF Single, Pc
  <2> QED BY <2>1, <2>2
<1> QED BY <1>2, <1>3 DEF Single, Pc, Whose

(* A step that gives out no lease.                                         *)
Goes ==
  /\ used' = used /\ streak'.client = streak.client /\ streak'.length = streak.length
  /\ streak'.late = streak.late /\ streak'.past \subseteq streak.past
  /\ \A x \in streak'.past :
       x \in Queued' \cup {slot'.inflight} => x \in Queued \cup {slot.inflight}
  /\ \A u \in Thread : job'[u].pc \in Fresh => job'[u].claim \notin streak'.past
  /\ Settled' => Settled /\ slot'.active = slot.active

LEMMA GoesOn ==
  ASSUME Passing, Goes
  PROVE  Bounds' /\ Stood'
<1>1. Bounds'
  BY DEF Passing, Bounds, Goes
<1>2. Stood'
  BY DEF Passing, Stood, Goes, Pc, Whose
<1> QED BY <1>1, <1>2

LEMMA AheadOn ==
  ASSUME Passing, Goes, grace' = grace,
         \A a, x : ~streak.late /\ x \in streak'.past /\ Whose(a) = streak.client
                     /\ Before(queue', a, x) /\ a \in Queued' /\ x \in Queued' =>
           \/ a \in Queued /\ x \in Queued /\ Before(queue, a, x)
           \/ Returns(streak.client),
         ~streak.late /\ streak'.past \cap Queued' # {} /\ slot'.inflight # Nothing
             /\ Whose(slot'.inflight) = streak.client =>
           \/ streak'.past \cap Queued # {} /\ slot'.inflight = slot.inflight
           \/ Returns(streak.client)
  PROVE  Ahead'
<1>0. SUFFICES ASSUME ~streak.late PROVE Ahead'
  BY DEF Goes, Ahead
<1>1. streak'.client = streak.client /\ (Returns(streak.client) => Returns(streak.client)')
  BY DEF Goes, Returns
<1>2. streak'.past \subseteq streak.past
  BY DEF Goes
<1>3. streak'.past \cap Queued' # {} /\ slot'.inflight # Nothing
        /\ Whose(slot'.inflight) = streak'.client => Returns(streak.client)'
  BY <1>0, <1>1, <1>2 DEF Passing, Ahead
<1>4. \A k \in Queued', x \in Queued' \cap streak'.past :
        Whose(k) = streak'.client /\ Before(queue', k, x) => Returns(streak.client)'
  BY <1>0, <1>1, <1>2 DEF Passing, Ahead
<1> QED BY <1>3, <1>4 DEF Ahead, Whose, Before

(* Less is queued, in the same order, and the same grant is in flight.     *)
LEMMA EasesRest ==
  ASSUME Inv, Passing, UNCHANGED <<used, grace, streak>>, Queued' \subseteq Queued,
         Ordered(queue', queue), slot'.inflight \in {slot.inflight, Nothing},
         \A u \in Thread : job'[u] = job[u] \/ job'[u].pc \notin Fresh,
         Settled' => Settled /\ slot'.active = slot.active
  PROVE  Bounds' /\ Ahead' /\ Stood'
<1>1. streak.past \subseteq Claim /\ Nothing \notin Claim
  BY NothingIs DEF Inv, Types, Streaks
<1>2. \A u \in Thread : job'[u].pc \in Fresh => job'[u].claim \notin streak'.past
  BY DEF Passing, Stood, Pc
<1>3. Goes
  BY <1>1, <1>2 DEF Goes
<1>4. Ahead'
  BY <1>3, AheadOn DEF Ordered
<1> QED BY <1>3, <1>4, GoesOn

LEMMA EasesPassing ==
  ASSUME Inv, Passing, UNCHANGED <<used, grace, streak>>, Queued' \subseteq Queued,
         Ordered(queue', queue), Reserved' \subseteq Reserved,
         slot'.inflight \in {slot.inflight, Nothing},
         slot'.active \in {slot.active, slot.inflight, Nothing},
         \A u \in Thread : \/ job'[u] = job[u] \/ job'[u].pc = "idle"
                           \/ /\ Pc(u) # "idle" /\ job'[u].pc \notin Fresh
                              /\ job'[u].claim = job[u].claim,
         Settled' => Settled /\ slot'.active = slot.active
  PROVE  Passing'
<1>1. Live' \subseteq Live
  BY DEF Live, Reserved
<1>2. Single'
  BY <1>1, SingleShrinks DEF Passing, Pc
<1>3. Bounds' /\ Ahead' /\ Stood'
  BY EasesRest DEF Fresh
<1> QED BY <1>2, <1>3 DEF Passing

(* A call that asks for a claim of its own.                                *)
LEMMA ComesPassing ==
  ASSUME Inv, Passing, IsInjective(Of), NEW t \in Thread, NEW k \in Claim, Whose(k) = Of[t],
         k \notin streak'.past, \A l \in Live : Whose(l) = Of[t] => l = k,
         UNCHANGED <<queue, used, grace>>, streak'.client = streak.client,
         streak'.length = streak.length, streak'.late = streak.late,
         streak'.past \subseteq streak.past,
         Reserved' \subseteq Reserved \cup {k}, slot'.active \in {slot.active, Nothing},
         slot'.inflight \in {slot.inflight, Nothing, k},
         slot'.inflight = k /\ Queued # {} => Returns(Of[t]),
         \A u \in Thread \ {t} : job'[u] = job[u],
         job'[t].pc = "idle" \/ job'[t].claim = k,
         Settled' => Settled /\ slot'.active = slot.active
  PROVE  Passing'
<1>1. streak.past \subseteq Claim /\ Nothing \notin Claim
  BY NothingIs DEF Inv, Types, Streaks
<1>2. Queued' = Queued /\ Live' \subseteq Live \cup {k}
  BY DEF Live, Queued, Reserved
<1>3. Single'
  BY <1>2, SingleComes DEF Passing
<1>4. \A u \in Thread : job'[u].pc \in Fresh => job'[u].claim \notin streak'.past
  BY DEF Passing, Stood, Pc, Fresh
<1>5. Goes
  BY <1>1, <1>2, <1>4 DEF Goes
<1>6. Ahead'
  BY <1>1, <1>2, <1>5, AheadOn
<1> QED BY <1>3, <1>5, <1>6, GoesOn DEF Passing

LEMMA DecidePassing ==
  ASSUME Inv, Passing, IsInjective(Of), NEW t \in Thread, NEW k \in Claim, Whose(k) = Of[t],
         k \notin Live, k \notin streak'.past, \A l \in Live : Whose(l) = Of[t] => l = k,
         UNCHANGED <<queue, used, grace>>, streak'.client = streak.client,
         streak'.length = streak.length, streak'.late = streak.late,
         streak'.past \subseteq streak.past, Decide(t, k)
  PROVE  Passing'
<1>1. k \notin Queued /\ k \notin Reserved
  BY ClaimIs DEF Live, Reserved
<1>2. CASE SlotIdle /\ (Preferred(Of[t]) \/ (~Busy /\ ~Blocks(Of[t])))
  <2>1. /\ slot' = [slot EXCEPT !.inflight = k, !.disturbed = FALSE] /\ reserved' = reserved
        /\ Go(t, "granting", k, FALSE)
    BY <1>2 DEF Decide
  <2>2. slot'.active = slot.active /\ slot'.inflight = k /\ k # Nothing
    BY <2>1, InvGives, ClaimIs DEF Slot
  <2>3. (\A u \in Thread \ {t} : job'[u] = job[u]) /\ job'[t].claim = k
    BY <2>1, InvGives DEF Go
  <2>4. Queued # {} => Busy
    BY InvGives, Entries DEF Busy, Queued
  <2>5. Queued # {} => Returns(Of[t])
    <3>1. used[Of[t]] \in Nat /\ MaxPref \in Nat
      BY QueueAssumption DEF Inv, Types
    <3> QED BY <1>2, <2>4, <3>1 DEF Preferred, Returns
  <2>6. ~Settled'
    BY <2>2 DEF Settled
  <2> QED BY <2>1, <2>2, <2>3, <2>5, <2>6, ComesPassing DEF Reserved
<1>3. CASE ~(SlotIdle /\ (Preferred(Of[t]) \/ (~Busy /\ ~Blocks(Of[t]))))
  <2>1. Reserves(t, k, "queueing") /\ slot' = slot
    BY <1>3 DEF Decide
  <2>2. /\ \A u \in Thread \ {t} : job'[u] = job[u]
        /\ job'[t].pc = "idle" \/ job'[t].claim = k
    BY <1>1, <2>1, InvGives, ReservesDoes DEF PcSet, Reserved
  <2>3. Reserved' \subseteq Reserved \cup {k}
    BY <1>1, <2>1, InvGives, ReservesDoes DEF PcSet, Reserved
  <2>4. slot'.inflight # k
    BY <2>1, ClaimIs DEF Live
  <2> QED BY <2>1, <2>2, <2>3, <2>4, ComesPassing DEF Settled
<1> QED BY <1>2, <1>3

(* What New leaves of the streak.                                          *)
LEMMA NewDoes ==
  ASSUME Inv, NEW k, New(k)
  PROVE  /\ streak'.client = streak.client /\ streak'.length = streak.length
         /\ streak'.late = streak.late /\ streak'.past = streak.past \ {k}
BY DEF New, Inv, Types, Streaks

LEMMA AcquirePassing ==
  ASSUME Inv, Passing, IsInjective(Of), NEW t \in Thread, NEW op \in Op, Acquire(t, op)
  PROVE  Passing'
<1> DEFINE k == [by |-> t, op |-> op]
<1>1. /\ Pc(t) = "idle" /\ Claims(Of[t]) = {} /\ New(k) /\ UNCHANGED <<queue, tomb, grace, used>>
      /\ \/ Go(t, "await", k, FALSE) /\ UNCHANGED <<reserved, slot>>
         \/ Decide(t, k)
  BY DEF Acquire
<1>2. k \in Claim /\ k.by = t
  BY ClaimOf
<1> HIDE DEF k
<1>3. Whose(k) = Of[t]
  BY <1>2, ClaimIs
<1>4. \A l \in Live : Whose(l) # Of[t]
  <2>1. Live \subseteq Claim
    BY InvGives DEF Live, Reserved, Slot, ClaimOrNothing
  <2> QED BY <1>1, <2>1, Unmet
<1>5. /\ streak'.client = streak.client /\ streak'.length = streak.length
      /\ streak'.late = streak.late /\ streak'.past \subseteq streak.past
      /\ k \notin streak'.past /\ k \notin Live
  BY <1>1, <1>3, <1>4, NewDoes
<1>6. CASE Go(t, "await", k, FALSE) /\ UNCHANGED <<reserved, slot>>
  <2>1. (\A u \in Thread \ {t} : job'[u] = job[u]) /\ job'[t].claim = k
    BY <1>2, <1>6, InvGives DEF Go
  <2>2. slot'.inflight # k
    BY <1>2, <1>5, <1>6, ClaimIs DEF Live
  <2> QED BY <1>1, <1>2, <1>3, <1>4, <1>5, <1>6, <2>1, <2>2, ComesPassing DEF Reserved, Settled
<1>7. CASE Decide(t, k)
  BY <1>1, <1>2, <1>3, <1>4, <1>5, <1>7, DecidePassing
<1> QED BY <1>1, <1>6, <1>7

LEMMA AwaitOverPassing ==
  ASSUME Inv, Passing, IsInjective(Of), NEW t \in Thread, AwaitOver(t)
  PROVE  Passing'
<1> DEFINE k == job[t].claim
<1>1. /\ Pc(t) = "await" /\ UNCHANGED <<queue, tomb, grace, used, taken, streak>>
      /\ (Done(t) /\ UNCHANGED <<reserved, slot>>) \/ Decide(t, k)
  BY DEF AwaitOver
<1>2. k \in Claim /\ Whose(k) = Of[t] /\ k \notin Live
  BY <1>1, Awaited, ClaimIs
<1>3. k \notin streak.past /\ \A l \in Live : Whose(l) = Of[t] => l = k
  BY <1>1 DEF Passing, Stood, Single, Fresh
<1>4. CASE Done(t) /\ UNCHANGED <<reserved, slot>>
  <2>1. \A u \in Thread : job'[u] = job[u] \/ job'[u].pc = "idle"
    BY <1>4, InvGives, DoneDoes
  <2>2. Queued' = Queued /\ Ordered(queue', queue)
    BY <1>1 DEF Queued, Ordered
  <2> QED BY <1>1, <1>4, <2>1, <2>2, EasesPassing DEF Reserved, Settled
<1>5. CASE Decide(t, k)
  BY <1>1, <1>2, <1>3, <1>5, DecidePassing
<1> QED BY <1>1, <1>4, <1>5

LEMMA EnqueuePassing ==
  ASSUME Inv, Passing, IsInjective(Of), NEW t \in Thread, Enqueue(t)
  PROVE  Passing'
<1>1. PICK k \in Claim : /\ k.by = t /\ k \notin Live /\ Claims(Of[t]) = {}
                         /\ Reserves(t, k, "enqueueing") /\ New(k)
                         /\ Pc(t) = "idle" /\ UNCHANGED <<queue, slot, tomb, grace, used>>
  BY Enqueued
<1>2. k \notin Queued /\ k \notin Reserved /\ Whose(k) = Of[t] /\ slot'.inflight # k
  BY <1>1, ClaimIs DEF Live, Reserved
<1>3. \A l \in Live : Whose(l) # Of[t]
  <2>1. Live \subseteq Claim
    BY InvGives DEF Live, Reserved, Slot, ClaimOrNothing
  <2> QED BY <1>1, <2>1, Unmet
<1>4. /\ streak'.client = streak.client /\ streak'.length = streak.length
      /\ streak'.late = streak.late /\ streak'.past \subseteq streak.past /\ k \notin streak'.past
  BY <1>1, NewDoes
<1>5. /\ \A u \in Thread \ {t} : job'[u] = job[u]
      /\ job'[t].pc = "idle" \/ job'[t].claim = k
  BY <1>1, <1>2, InvGives, ReservesDoes DEF PcSet, Reserved
<1>6. Reserved' \subseteq Reserved \cup {k}
  BY <1>1, <1>2, InvGives, ReservesDoes DEF PcSet, Reserved
<1> QED BY <1>1, <1>2, <1>3, <1>4, <1>5, <1>6, ComesPassing DEF Settled

LEMMA JoinQueuePassing ==
  ASSUME Inv, Passing, NEW t \in Thread, JoinQueue(t) \/ ReservationFails(t)
  PROVE  Passing'
<1> DEFINE k == job[t].claim
<1>1. /\ Unreserves(t) /\ Pc(t) \in {"queueing", "enqueueing"}
      /\ UNCHANGED <<used, grace, streak>>
  BY DEF JoinQueue, ReservationFails, Unreserves, Reserved
<1>2. \A u \in Thread : job'[u] = job[u] \/ job'[u].pc = "idle"
  BY <1>1, InvGives, DoneDoes DEF Unreserves
<1>3. slot'.active = slot.active /\ slot'.inflight = slot.inflight
  BY <1>1, BumpDoes DEF Unreserves
<1>4. Reserved' \subseteq Reserved
  BY <1>1, InvGives, WithoutHolds DEF Unreserves, Reserved
<1>5. CASE queue' = queue
  <2>1. Queued' = Queued /\ Ordered(queue', queue)
    BY <1>5 DEF Queued, Ordered
  <2> QED BY <1>1, <1>2, <1>3, <1>4, <2>1, EasesPassing DEF Settled
<1>6. CASE k \in Reserved /\ queue' = Append(queue, k)
  <2>1. k \in Claim /\ k \notin Queued /\ k # slot.inflight /\ k \notin streak.past
    BY <1>1, <1>6, InvGives DEF Passing, Stood, Fresh
  <2> HIDE DEF k
  <2>2. Queued' = Queued \cup {k} /\ \A x, y : Before(queue', x, y) => Before(queue, x, y) \/ y = k
    BY <1>6, <2>1, InvGives, AppendHolds DEF Queued
  <2>3. Live' \subseteq Live
    BY <1>3, <1>4, <1>6, <2>2 DEF Live, Reserved
  <2>4. Single'
    BY <1>2, <2>3, SingleShrinks DEF Passing, Pc
  <2>5. \A u \in Thread : job'[u].pc \in Fresh => job'[u].claim \notin streak'.past
    BY <1>1, <1>2 DEF Passing, Stood, Pc, Fresh
  <2>6. Goes
    BY <1>1, <1>3, <2>1, <2>2, <2>5 DEF Goes, Settled
  <2>7. \A x, y : x \in Queued /\ Before(queue, y, x) => y \in Queued
    BY InvGives, OneWay DEF Queued
  <2>8. Ahead'
    BY <1>1, <1>3, <2>1, <2>2, <2>6, <2>7, AheadOn
  <2> QED BY <2>4, <2>6, <2>8, GoesOn DEF Passing
<1> QED BY <1>1, <1>5, <1>6 DEF Unreserves

LEMMA WaitPassing ==
  ASSUME Inv, Passing, IsInjective(Of), NEW t \in Thread, NEW k \in Queued, Wait(t, k)
  PROVE  Passing'
<1>1. /\ Whose(k) = Of[t] /\ Go(t, "waiting", k, FALSE)
      /\ UNCHANGED <<queue, reserved, slot, tomb, grace, used, taken, streak>>
  BY DEF Wait
<1>2. /\ \A u \in Thread \ {t} : job'[u] = job[u]
      /\ job'[t].pc = "waiting" /\ job'[t].claim = k
  BY <1>1, InvGives DEF Go
<1>3. k \in Claim /\ k \in Live /\ Live' = Live
  BY <1>1, InvGives DEF Live, Queued
<1>4. Single'
  BY <1>1, <1>2, <1>3, SingleComes DEF Passing, Single
<1>5. \A u \in Thread : job'[u] = job[u] \/ job'[u].pc \notin Fresh
  BY <1>2 DEF Fresh
<1>6. Bounds' /\ Ahead' /\ Stood'
  BY <1>1, <1>5, EasesRest DEF Queued, Ordered, Settled
<1> QED BY <1>4, <1>6 DEF Passing

LEMMA WaitReturnsPassing ==
  ASSUME Inv, Passing, NEW t \in Thread, WaitReturns(t)
  PROVE  Passing'
<1>1. Done(t) /\ UNCHANGED <<queue, reserved, slot, tomb, grace, used, taken, streak>>
  BY DEF WaitReturns
<1>2. \A u \in Thread : job'[u] = job[u] \/ job'[u].pc = "idle"
  BY <1>1, InvGives, DoneDoes
<1> QED BY <1>1, <1>2, EasesPassing DEF Queued, Ordered, Settled, Reserved

(* A ticket goes to the head: it stood there, or its owner is preferred.   *)
LEMMA WaitClaimsPassing ==
  ASSUME Inv, Passing, NEW t \in Thread, WaitClaims(t)
  PROVE  Passing'
<1> DEFINE k == job[t].claim
<1>1. /\ k \in Queued /\ SlotIdle /\ (Head(queue) = k \/ Preferred(Whose(k)))
      /\ Pc(t) = "waiting" /\ queue' = <<k>> \o Without(queue, k)
      /\ slot' = [slot EXCEPT !.inflight = k, !.disturbed = FALSE] /\ Go(t, "claiming", k, TRUE)
      /\ UNCHANGED <<reserved, tomb, grace, used, taken, streak>>
  BY DEF WaitClaims, CanClaim, Queued
<1>2. job'[t].claim = job[t].claim
  BY <1>1, InvGives DEF Go
<1> HIDE DEF k
<1>3. /\ \A u \in Thread \ {t} : job'[u] = job[u]
      /\ job'[t].pc = "claiming"
  BY <1>1, InvGives DEF Go
<1>4. slot'.active = slot.active /\ slot'.inflight = k /\ k # Nothing /\ k \in Claim
  BY <1>1, InvGives DEF Slot
<1>5. Queued' = Queued /\ \A x, y : Before(queue', x, y) => y # k /\ (x = k \/ Before(queue, x, y))
  BY <1>1, InvGives, MovedHolds DEF Queued
<1>6. Single'
  <2>1. Live' \subseteq Live
    BY <1>1, <1>4, <1>5 DEF Live
  <2> QED BY <1>1, <1>2, <1>3, <2>1, SingleShrinks DEF Passing, Pc
<1>7. \A u \in Thread : job'[u].pc \in Fresh => job'[u].claim \notin streak'.past
  BY <1>1, <1>3 DEF Passing, Stood, Pc, Fresh
<1>8. Goes
  BY <1>1, <1>4, <1>5, <1>7 DEF Goes, Settled
<1>9. ~streak.late /\ Whose(k) = streak.client /\ streak.past \cap Queued # {} =>
        Returns(streak.client)
  <2>1. SUFFICES ASSUME ~streak.late, Whose(k) = streak.client, NEW x \in streak.past \cap Queued
                 PROVE  Returns(streak.client)
    OBVIOUS
  <2>2. x # k /\ queue # <<>>
    BY <2>1, InvGives, Entries DEF Passing, Stood, Queued
  <2>3. CASE Head(queue) = k
    <3>1. Before(queue, k, x)
      BY <2>2, <2>3, InvGives, HeadHolds DEF Queued
    <3> QED BY <1>1, <2>1, <3>1 DEF Passing, Ahead
  <2>4. CASE Preferred(Whose(k))
    <3>1. used[Whose(k)] \in Nat /\ MaxPref \in Nat
      BY <1>4, QueueAssumption, ClaimIs DEF Inv, Types
    <3> QED BY <2>1, <2>2, <2>4, <3>1 DEF Preferred, Busy, Returns
  <2> QED BY <1>1, <2>3, <2>4
<1>10. \A x, y : x \in Queued /\ Before(queue, y, x) => y \in Queued
  BY InvGives, OneWay DEF Queued
<1>11. Ahead'
  BY <1>1, <1>4, <1>5, <1>8, <1>9, <1>10, AheadOn
<1> QED BY <1>6, <1>8, <1>11, GoesOn DEF Passing

(* A grant that is not given out: its ticket may head the queue again.     *)
LEMMA LandsPassing ==
  ASSUME Inv, Passing, NEW t \in Thread, Pc(t) \in Grant, Lands(t), slot'.active = Nothing,
         UNCHANGED <<grace, used, streak>>
  PROVE  Passing'
<1> DEFINE k == job[t].claim
<1>1. k \in Claim /\ k = slot.inflight /\ k # Nothing
  BY GrantIs
<1>2. \A u \in Thread : job'[u] = job[u] \/ job'[u].pc = "idle"
  BY InvGives, DoneDoes DEF Lands
<1>3. slot'.inflight = Nothing /\ reserved' = reserved /\ ~Settled'
  BY DEF Lands, Settled
<1>4. CASE queue' = queue
  BY <1>2, <1>3, <1>4, EasesPassing DEF Queued, Ordered, Reserved
<1>5. CASE k \notin Queued /\ queue' = <<k>> \o queue
  <2> HIDE DEF k
  <2>1. /\ Queued' = Queued \cup {k}
        /\ \A x, y : Before(queue', x, y) => y # k /\ (x = k \/ Before(queue, x, y))
    BY <1>1, <1>5, InvGives, PushHolds DEF Queued
  <2>2. Single'
    <3>1. Live' \subseteq Live
      BY <1>1, <1>3, <2>1 DEF Live
    <3> QED BY <1>2, <3>1, SingleShrinks DEF Passing, Pc
  <2>3. \A u \in Thread : job'[u].pc \in Fresh => job'[u].claim \notin streak'.past
    BY <1>2 DEF Passing, Stood, Pc, Fresh
  <2>4. Nothing \notin streak.past
    BY NothingIs DEF Inv, Types, Streaks
  <2>5. Goes
    BY <1>1, <1>3, <2>1, <2>3, <2>4 DEF Goes
  <2>6. ~streak.late /\ Whose(k) = streak.client /\ streak.past \cap Queued # {} =>
          Returns(streak.client)
    BY <1>1 DEF Passing, Ahead
  <2>7. \A x, y : x \in Queued /\ Before(queue, y, x) => y \in Queued
    BY InvGives, OneWay DEF Queued
  <2>8. Ahead'
    BY <1>3, <2>1, <2>5, <2>6, <2>7, AheadOn
  <2> QED BY <2>2, <2>5, <2>8, GoesOn DEF Passing
<1> QED BY <1>4, <1>5 DEF Lands

LEMMA TakeBackPassing ==
  ASSUME Inv, Passing, NEW t \in Thread, NotExact(t) \/ Compensate(t)
  PROVE  Passing'
<1>1. Pc(t) \in Grant /\ TakeBack(t)
  BY DEF NotExact, Compensate, Grant
<1>2. slot'.active = Nothing
  BY <1>1, InvGives DEF TakeBack, Slot
<1> QED BY <1>1, <1>2, TakesBack, LandsPassing

LEMMA GrantRefusedPassing ==
  ASSUME Inv, Passing, IsInjective(Of), NEW t \in Thread, GrantRefused(t)
  PROVE  Passing'
<1>1. /\ Pc(t) \in {"granting", "claiming"} /\ UNCHANGED <<queue, tomb, grace, used, taken, streak>>
      /\ slot' = [slot EXCEPT !.inflight = Nothing, !.disturbed = FALSE]
      /\ \/ Done(t) /\ UNCHANGED reserved
         \/ Pc(t) = "granting" /\ Reserves(t, job[t].claim, "queueing")
  BY DEF GrantRefused
<1>2. Pc(t) \in Grant /\ slot.active = Nothing
  BY <1>1, GrantIs DEF Grant
<1>3. slot' \in Slot /\ slot'.inflight = Nothing /\ slot'.active = Nothing
  BY <1>1, <1>2, InvGives DEF Slot, ClaimOrNothing
<1>4. CASE Done(t) /\ UNCHANGED reserved
  BY <1>1, <1>2, <1>3, <1>4, LandsPassing DEF Lands
<1>5. CASE Pc(t) = "granting" /\ Reserves(t, job[t].claim, "queueing")
  <2> DEFINE k == job[t].claim
  <2>1. /\ k \in Claim /\ k \notin Reserved /\ k \notin Queued /\ k # Nothing
        /\ k = slot.inflight
    BY <1>2, <1>5, GrantIs
  <2>2. Whose(k) = Of[t] /\ k \notin streak.past
    BY <1>5 DEF Inv, About, Passing, Stood, Fresh
  <2>3. \A l \in Live : Whose(l) = Of[t] => l = k
    BY <2>1, <2>2 DEF Passing, Single, Live
  <2>4. Reserves(t, k, "queueing")
    BY <1>5
  <2> HIDE DEF k
  <2>5. /\ \A u \in Thread \ {t} : job'[u] = job[u]
        /\ job'[t].pc = "idle" \/ job'[t].claim = k
    BY <2>1, <2>4, InvGives, ReservesDoes DEF PcSet, Reserved
  <2>6. Reserved' \subseteq Reserved \cup {k}
    BY <2>1, <2>4, InvGives, ReservesDoes DEF PcSet, Reserved
  <2>7. ~Settled' /\ slot'.inflight # k
    BY <1>3, <2>1 DEF Settled
  <2> QED BY <1>1, <1>2, <1>3, <2>1, <2>2, <2>3, <2>5, <2>6, <2>7, ComesPassing
<1> QED BY <1>1, <1>4, <1>5

LEMMA PublishPassing ==
  ASSUME Inv, Passing, NEW t \in Thread, Publish(t)
  PROVE  Passing'
<1> DEFINE k == job[t].claim
<1>1. /\ Pc(t) \in {"granting", "claiming"} /\ Go(t, "publishing", k, job[t].fifo)
      /\ slot' = [slot EXCEPT !.active = k, !.disturbed = FALSE]
      /\ UNCHANGED <<reserved, tomb, grace, used, taken, streak>>
  BY DEF Publish
<1>2. k \in Claim /\ k # Nothing /\ k = slot.inflight
  BY <1>1, GrantIs DEF Grant
<1>3. /\ \A u \in Thread \ {t} : job'[u] = job[u]
      /\ job'[t].pc = "publishing" /\ job'[t].claim = job[t].claim
  BY <1>1, InvGives DEF Go
<1> HIDE DEF k
<1>4. slot'.inflight = slot.inflight /\ slot'.active = k /\ ~Settled'
  BY <1>1, <1>2, InvGives DEF Slot, Settled
<1>5. Queued' \subseteq Queued /\ Ordered(queue', queue)
  BY PublishLeaves
<1>6. \A u \in Thread : \/ job'[u] = job[u] \/ job'[u].pc = "idle"
                        \/ /\ Pc(u) # "idle" /\ job'[u].pc \notin Fresh
                           /\ job'[u].claim = job[u].claim
  BY <1>1, <1>3 DEF Fresh
<1> QED BY <1>1, <1>2, <1>4, <1>5, <1>6, EasesPassing DEF Reserved

(* The lease is given out: the count of those it went past is kept by the  *)
(* grace, which counts whom it brought back.                               *)
LEMMA SettlePassing ==
  ASSUME Inv, Passing, NEW t \in Thread, Settle(t)
  PROVE  Passing'
<1> DEFINE k == job[t].claim
           c == Whose(k)
<1>1. /\ slot.active = k /\ slot.inflight = k /\ k \in Claim /\ c \in Client /\ k \notin Queued
      /\ Consume(c) /\ Streak(c) /\ Done(t) /\ slot'.inflight = Nothing
      /\ slot'.active = slot.active /\ UNCHANGED <<queue, reserved, tomb, taken>>
  BY Settles
<1>2. k # Nothing /\ c # Nobody
  BY <1>1, ClaimIs
<1> HIDE DEF k
<1>3. Queued' = Queued /\ Live' \subseteq Live
  BY <1>1 DEF Live, Queued
<1>4. \A u \in Thread : job'[u] = job[u] \/ job'[u].pc = "idle"
  BY <1>1, InvGives, DoneDoes
<1>5. Single'
  BY <1>3, <1>4, SingleShrinks DEF Passing, Pc
<1> HIDE DEF c
<1>6. /\ streak'.client = c /\ streak'.past \subseteq Passed(c)
      /\ \A x \in Passed(c) : x \in Queued /\ Whose(x) # c
  BY <1>1, StreakIs DEF Passed, Queued
<1>7. Stood'
  <2>1. \A x \in streak'.past : Whose(x) # streak'.client
    BY <1>6
  <2>2. ASSUME NEW u \in Thread, job'[u].pc \in Fresh PROVE job'[u].claim \notin streak'.past
    <3>1. job'[u] = job[u] /\ Pc(u) \in Fresh
      BY <1>4, <2>2 DEF Pc, Fresh
    <3> QED BY <1>6, <3>1 DEF Inv, Coming
  <2>3. Settled' => streak'.client = Whose(slot'.active)
    BY <1>1, <1>6 DEF c
  <2> QED BY <1>2, <1>6, <2>1, <2>2, <2>3 DEF Stood, Pc, Whose
<1>8. Ahead'
  <2>1. \A x \in Queued' : Whose(x) # c
    BY <1>1, <1>2, <1>3, InvGives DEF Passing, Single, Live, c
  <2> QED BY <1>1, <1>6, <2>1 DEF Ahead, Whose
<1>9. Bounds'
  <2>0. SUFFICES ASSUME ~streak'.late PROVE Bounds'
    BY DEF Bounds
  <2>1. /\ used[c] \in Nat /\ used[c] <= MaxPref /\ used'[c] \in Nat /\ MaxPref \in Nat
        /\ grace = c /\ (\E x \in Queued : Whose(x) # c) =>
             used'[c] = IF used[c] < MaxPref THEN used[c] + 1 ELSE MaxPref
    BY <1>1, ConsumeIs
  <2>2. CASE /\ streak.client = c /\ streak.past \cap Passed(c) # {}
             /\ streak'.late = streak.late
             /\ streak'.length = IF streak.length + 1 <= MaxPref + 2
                                 THEN streak.length + 1 ELSE MaxPref + 2
    <3>1. PICK x \in streak.past \cap Queued : Whose(x) # c
      BY <1>6, <2>2
    <3>2. Returns(c)
      BY <1>1, <1>2, <2>0, <2>2, <3>1 DEF Passing, Ahead, c
    <3>3. used'[c] = used[c] + 1 /\ used[c] < MaxPref
      BY <2>1, <3>1, <3>2 DEF Returns
    <3>4. streak.length <= used[c] + 1
      BY <2>0, <2>2, <3>1 DEF Passing, Bounds
    <3>5. streak.length \in Nat
      BY <1>1, StreakIs
    <3>6. streak'.length <= used'[c] + 1 /\ streak'.length <= MaxPref + 1
      BY <2>1, <2>2, <3>3, <3>4, <3>5
    <3> QED BY <1>6, <3>6 DEF Bounds
  <2>3. CASE streak'.length = 1
    <3>1. streak'.length <= used'[c] + 1 /\ streak'.length <= MaxPref + 1
      BY <2>1, <2>3
    <3> QED BY <1>6, <3>1 DEF Bounds
  <2> QED BY <1>1, <2>2, <2>3, StreakIs
<1> QED BY <1>5, <1>7, <1>8, <1>9 DEF Passing

(* The lease ends, perhaps into a grace of its owner, who has no ticket.   *)
LEMMA EndPassing ==
  ASSUME Inv, Passing,
         Ends
  PROVE  Passing'
<1>1. UNCHANGED <<queue, reserved, tomb, used, job, taken, streak>>
  BY DEF Ends, Release, Expire, CleanedUp, EndsUnsafe, Repair, HandedOff
<1>2. slot'.active \in {slot.active, Nothing} /\ slot'.inflight = slot.inflight
  BY EndKeeps DEF Shrinks
<1>3. Settled' => Settled /\ slot'.active = slot.active
  BY <1>2 DEF Settled
<1>4. Queued' = Queued /\ Ordered(queue', queue) /\ Reserved' = Reserved
  BY <1>1 DEF Queued, Ordered, Reserved
<1>5. CASE grace' = grace
  BY <1>1, <1>2, <1>3, <1>4, <1>5, EasesPassing
<1>6. CASE grace' # grace
  <2>1. Settled
    BY <1>6 DEF Ends, Release, Expire, CleanedUp, EndsUnsafe, Repair, HandedOff
  <2>2. Single'
    <3>1. Live' \subseteq Live
      BY <1>2, <1>4 DEF Live, Reserved
    <3> QED BY <1>1, <3>1, SingleShrinks DEF Passing, Pc
  <2>3. Goes
    BY <1>1, <1>2, <1>3, <1>4 DEF Goes, Passing, Stood, Pc
  <2>4. \A x \in Queued : Whose(x) # streak.client
    <3>1. slot.active \in Live /\ slot.active \notin Queued /\ streak.client = Whose(slot.active)
      BY <2>1 DEF Live, Settled, Inv, Given, Passing, Stood
    <3> QED BY <3>1, InvGives DEF Passing, Single, Live
  <2>5. slot'.inflight = Nothing
    BY <1>2, <2>1 DEF Settled
  <2>6. Ahead'
    BY <1>1, <1>4, <2>4, <2>5 DEF Ahead, Whose
  <2> QED BY <2>2, <2>3, <2>6, GoesOn DEF Passing
<1> QED BY <1>5, <1>6

(* Tickets leave.                                                          *)
LEMMA LeavePassing ==
  ASSUME Inv, Passing, NEW k, NEW l, UNCHANGED <<grace, used, job, streak>>,
         queue' = Without(queue, k), reserved' = Without(reserved, l),
         slot'.inflight = slot.inflight, slot'.active \in {slot.active, Nothing}
  PROVE  Passing'
<1>1. Queued' \subseteq Queued /\ Ordered(queue', queue) /\ Reserved' \subseteq Reserved
  BY InvGives, WithoutHolds DEF Queued, Reserved
<1> QED BY <1>1, EasesPassing DEF Settled

LEMMA CancelOperationPassing ==
  ASSUME Inv, Passing, NEW c \in Client, CancelOperation(c)
  PROVE  Passing'
<1>1. PICK r \in ClaimOrNothing, q \in ClaimOrNothing :
           /\ queue' = Without(queue, q) /\ reserved' = Without(reserved, r)
           /\ UNCHANGED <<grace, used, job, streak>>
           /\ Retire \/ slot' = Bump(slot)
  BY CancelsOperation
<1> QED BY <1>1, RetireDoes, BumpDoes, LeavePassing

LEMMA CancelTicketPassing ==
  ASSUME Inv, Passing, NEW k \in Claim, CancelTicket(k)
  PROVE  Passing'
<1>1. /\ queue' = Without(queue, k) /\ reserved' = Without(reserved, k) /\ slot' = Bump(slot)
      /\ UNCHANGED <<grace, used, job, streak>>
  BY DEF CancelTicket
<1> QED BY <1>1, BumpDoes, LeavePassing

LEMMA ExpiresPassing ==
  ASSUME Inv, Passing, \/ \E c \in Client : TombstoneExpires(c)
                       \/ \E k \in Claim : TicketExpires(k)
  PROVE  Passing'
<1>1. /\ slot' = Bump(slot) /\ Queued' \subseteq Queued /\ Ordered(queue', queue)
      /\ UNCHANGED <<reserved, grace, used, job, streak>>
  BY TicketExpiresDoes DEF TombstoneExpires, Queued, Ordered
<1> QED BY <1>1, BumpDoes, EasesPassing DEF Settled, Reserved

(* The grace ends late, or its owner has overtaken nobody.                 *)
LEMMA GraceEndsPassing ==
  ASSUME Inv, Passing, GraceEnds
  PROVE  Passing'
<1>1. /\ grace' = Nobody /\ UNCHANGED <<queue, reserved, slot, tomb, used, job, taken>>
      /\ streak' = [streak EXCEPT !.late = streak.late \/ Returning(grace)]
  BY DEF GraceEnds
<1>2. /\ streak'.client = streak.client /\ streak'.length = streak.length
      /\ streak'.past = streak.past /\ (streak'.late <=> streak.late \/ Returning(grace))
  BY <1>1 DEF Inv, Types, Streaks
<1>3. Queued' = Queued /\ Live' = Live
  BY <1>1 DEF Queued, Live
<1>4. Single'
  BY <1>1, <1>3, SingleShrinks DEF Passing, Pc
<1>5. Stood'
  BY <1>1, <1>2 DEF Passing, Stood, Pc, Settled, Whose
<1>6. Bounds'
  BY <1>1, <1>2, <1>3 DEF Passing, Bounds
<1>7. Ahead'
  <2>1. SUFFICES ASSUME ~streak.late, ~Returning(grace)
                 PROVE  Ahead'
    BY <1>2 DEF Ahead
  <2>2. ASSUME NEW x \in streak.past \cap Queued, Returns(streak.client)
        PROVE  /\ Whose(slot.inflight) # streak.client
               /\ \A k \in Queued : Whose(k) = streak.client => ~Before(queue, k, x)
    BY <2>1, <2>2 DEF Returning, Returns, Queued
  <2> QED BY <1>1, <1>2, <1>3, <2>1, <2>2 DEF Passing, Ahead, Whose, Before
<1> QED BY <1>4, <1>5, <1>6, <1>7 DEF Passing

LEMMA NextPassing ==
  ASSUME IsInjective(Of), Inv, Passing, [Next]_vars
  PROVE  Passing'
<1>1. ASSUME NEW t \in Thread, \E op \in Op : Acquire(t, op)
      PROVE  Passing'
  BY <1>1, AcquirePassing
<1>2. ASSUME NEW t \in Thread, NEW k \in ToSet(queue), Wait(t, k)
      PROVE  Passing'
  BY <1>2, WaitPassing DEF Queued
<1>3. ASSUME NEW t \in Thread,
             \/ Enqueue(t) \/ ReservationFails(t) \/ WaitReturns(t) \/ GrantRefused(t)
             \/ Publish(t) \/ Settle(t) \/ ThreadStep(t)
      PROVE  Passing'
  BY <1>3, EnqueuePassing, JoinQueuePassing, WaitReturnsPassing, GrantRefusedPassing,
     PublishPassing, SettlePassing, AwaitOverPassing, WaitClaimsPassing, TakeBackPassing
  DEF ThreadStep
<1>4. CASE Ends
  BY <1>4, EndPassing
<1>5. ASSUME NEW c \in Client, CancelOperation(c) \/ TombstoneExpires(c)
      PROVE  Passing'
  BY <1>5, CancelOperationPassing, ExpiresPassing
<1>6. ASSUME NEW k \in Claim, CancelTicket(k) \/ TicketExpires(k)
      PROVE  Passing'
  BY <1>6, CancelTicketPassing, ExpiresPassing
<1>7. CASE GraceEnds
  BY <1>7, GraceEndsPassing
<1>8. CASE UNCHANGED vars
  <2>1. UNCHANGED <<queue, reserved, slot, grace, used, job, streak>>
    BY <1>8 DEF vars
  <2> QED BY <2>1, EasesPassing DEF Queued, Ordered, Reserved, Settled
<1> QED BY <1>1, <1>2, <1>3, <1>4, <1>5, <1>6, <1>7, <1>8 DEF Next, Ends

(* Past a ticket that keeps its place the lease goes to one and the same   *)
(* client at most once more than MAX_PREF_RENEWALS, as long as no grace    *)
(* runs out under an owner that has overtaken it already.  A client must   *)
(* have one thread: with two, a second ticket of its own, further back,    *)
(* gets the lease without the grace and starts the count over.             *)
THEOREM PreferenceHolds ==
  ASSUME IsInjective(Of)
  PROVE  Spec => []PreferenceBounded
<1>1. Init => Inv /\ Passing
  <2>1. ASSUME Init PROVE Passing
    <3>1. /\ streak = [client |-> Nobody, length |-> 0, past |-> {}, late |-> FALSE] /\ Queued = {} /\ Live = {}
          /\ \A t \in Thread : Pc(t) = "idle"
          /\ ~Settled
      BY <2>1, Empty DEF Init, Idle, Pc, Settled, Queued, Live
    <3> QED BY <3>1 DEF Passing, Single, Bounds, Ahead, Stood, Fresh
  <2> QED BY <2>1, InitHolds
<1>2. Inv /\ Passing /\ [Next]_vars => Inv' /\ Passing'
  BY NextKeeps, NextPassing
<1>3. Inv /\ Passing => PreferenceBounded
  BY DEF Passing, Bounds, PreferenceBounded
<1> QED BY <1>1, <1>2, <1>3, PTL DEF Spec
=============================================================================
