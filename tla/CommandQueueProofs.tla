------------------------- MODULE CommandQueueProofs -------------------------
(***************************************************************************)
(* Proofs about CommandQueue, for any number of commands, instances,       *)
(* leases and restarts and any choice of what a command is.                *)
(*                                                                         *)
(* First, what is left of a sequence when entries are taken out of it      *)
(* (Without).  Then two inductive invariants: Inv is about the books and   *)
(* says nothing of what is in the queue; QInv adds the queue to it, the    *)
(* type of the whole state, and who has been handed what.                  *)
(***************************************************************************)
EXTENDS CommandQueue, FiniteSetTheorems, WellFoundedInduction, TLAPS

-----------------------------------------------------------------------------
(* What Without leaves of a sequence.  It is a recursive function, which   *)
(* the CHOOSE of its definition yields only once one is known to exist;    *)
(* that, and all that follows, is by induction over a set of naturals or   *)
(* of sequences.                                                           *)
LEMMA Inductive ==
  ASSUME NEW X, 0 \in X, \A n \in Nat : n \in X => n + 1 \in X
  PROVE  Nat \subseteq X
<1> DEFINE Y == Nat \ X
<1>1. SUFFICES ASSUME Y # {} PROVE FALSE
  OBVIOUS
<1>2. PICK n \in Y : \A m \in Y : <<m, n>> \notin OpToRel(<, Nat)
  BY <1>1, WFMin, NatLessThanWellFounded
<1>3. \A m \in Nat : m < n => <<m, n>> \in OpToRel(<, Nat)
  BY Zenon DEF OpToRel
<1>4. n # 0 /\ n - 1 \in Nat /\ n - 1 < n /\ n \in Nat
  OBVIOUS
<1>5. n - 1 \notin Y
  <2>1. <<n - 1, n>> \in OpToRel(<, Nat)
    BY <1>3, <1>4
  <2> HIDE DEF Y
  <2> QED BY <1>2, <2>1
<1> QED BY <1>4, <1>5

(* One step of the recursion, and a function that takes each of n steps.   *)
Step(q, S, k, before) ==
  IF k = 0 THEN <<>> ELSE IF q[k] \in S THEN before ELSE Append(before, q[k])
Filters(f, q, S, n) == f = [k \in 0 .. n |-> Step(q, S, k, f[k - 1])]

LEMMA WithoutIs ==
  ASSUME NEW q, NEW S
  PROVE  Without(q, S) = (CHOOSE f : Filters(f, q, S, Len(q)))[Len(q)]
BY DEF Without, Filters, Step


LEMMA Filtering ==
  ASSUME NEW q, NEW S, NEW n \in Nat
  PROVE  \E f : Filters(f, q, S, n)
<1> DEFINE X == {m \in Nat : \E f : Filters(f, q, S, m)}
<1>1. 0 \in X
  <2>1. Filters([k \in 0 .. 0 |-> <<>>], q, S, 0)
    BY DEF Filters, Step
  <2> QED BY <2>1
<1>2. ASSUME NEW m \in Nat, m \in X
      PROVE  m + 1 \in X
  <2>1. PICK f : Filters(f, q, S, m)
    BY <1>2
  <2> DEFINE g == [k \in 0 .. m + 1 |-> IF k = m + 1 THEN Step(q, S, k, f[m]) ELSE f[k]]
  <2>2. \A k \in 0 .. m : f[k] = Step(q, S, k, f[k - 1])
    BY <2>1 DEF Filters
  <2>3. \A k \in 0 .. m + 1 : g[k] = Step(q, S, k, g[k - 1])
    <3>1. ASSUME NEW k \in 0 .. m + 1 PROVE g[k] = Step(q, S, k, g[k - 1])
      <4>1. CASE k = m + 1
        BY <4>1
      <4>2. CASE k = 0
        BY <2>2, <4>2 DEF Step
      <4>3. CASE k \in 1 .. m
        BY <2>2, <4>3
      <4> QED BY <4>1, <4>2, <4>3
    <3> QED BY <3>1
  <2>4. Filters(g, q, S, m + 1)
    BY <2>3 DEF Filters
  <2> QED BY <2>4
<1> HIDE DEF X
<1>3. n \in X
  BY <1>1, <1>2, Inductive
<1> QED BY <1>3 DEF X

(* Sequences that start alike are filtered alike.                          *)
LEMMA FiltersAlike ==
  ASSUME NEW f, NEW g, NEW q, NEW r, NEW S, NEW n \in Nat, NEW m \in Nat, n <= m,
         Filters(f, q, S, n), Filters(g, r, S, m), \A k \in 1 .. n : q[k] = r[k]
  PROVE  f[n] = g[n]
<1> DEFINE X == {k \in Nat : k <= n => f[k] = g[k]}
<1>1. \A k \in 0 .. n : f[k] = Step(q, S, k, f[k - 1]) /\ g[k] = Step(r, S, k, g[k - 1])
  BY DEF Filters
<1>2. 0 \in X
  BY <1>1 DEF Step
<1>3. ASSUME NEW k \in Nat, k \in X
      PROVE  k + 1 \in X
  BY <1>1, <1>3 DEF Step
<1> HIDE DEF X
<1>4. n \in X
  BY <1>2, <1>3, Inductive
<1> QED BY <1>4 DEF X

LEMMA Filtered ==
  ASSUME NEW q, NEW S, Len(q) \in Nat
  PROVE  \E f : Filters(f, q, S, Len(q)) /\ Without(q, S) = f[Len(q)]
BY WithoutIs, Filtering

(* The two equations a recursive definition would be.                      *)
LEMMA WithoutNone ==
  ASSUME NEW S PROVE Without(<<>>, S) = <<>>
<1>1. PICK f : Filters(f, <<>>, S, Len(<<>>)) /\ Without(<<>>, S) = f[Len(<<>>)]
  BY Filtered
<1> QED BY <1>1 DEF Filters, Step

LEMMA WithoutAppend ==
  ASSUME NEW T, NEW q \in Seq(T), NEW x \in T, NEW S
  PROVE  Without(Append(q, x), S) = IF x \in S THEN Without(q, S) ELSE Append(Without(q, S), x)
<1> DEFINE r == Append(q, x)
           n == Len(q)
<1>1. /\ n \in Nat /\ Len(q) = n /\ Len(r) = n + 1 /\ r[n + 1] = x /\ \A k \in 1 .. n : q[k] = r[k]
  OBVIOUS
<1> HIDE DEF r, n
<1>2. PICK f : Filters(f, q, S, n) /\ Without(q, S) = f[n]
  BY <1>1, Filtered
<1>3. PICK g : Filters(g, r, S, n + 1) /\ Without(r, S) = g[n + 1]
  BY <1>1, Filtered
<1>4. f[n] = g[n]
  <2>1. n + 1 \in Nat /\ n <= n + 1
    BY <1>1
  <2> QED BY <1>1, <1>2, <1>3, <2>1, FiltersAlike, ZenonT(40)
<1>5. g[n + 1] = Step(r, S, n + 1, g[n])
  BY <1>1, <1>3 DEF Filters
<1> QED BY <1>1, <1>2, <1>3, <1>4, <1>5 DEF Step, r

(* Induction over the sequences of T, from the empty one by Append.        *)
LEMMA SeqInduction ==
  ASSUME NEW T, NEW X, <<>> \in X,
         \A q \in Seq(T), x \in T : q \in X => Append(q, x) \in X
  PROVE  Seq(T) \subseteq X
<1> DEFINE Y == {n \in Nat : \A q \in Seq(T) : Len(q) = n => q \in X}
<1>1. 0 \in Y
  OBVIOUS
<1>2. ASSUME NEW n \in Nat, n \in Y
      PROVE  n + 1 \in Y
  <2>1. ASSUME NEW q \in Seq(T), Len(q) = n + 1
        PROVE  q \in X
    <3> DEFINE p == [k \in 1 .. n |-> q[k]]
    <3>1. p \in Seq(T) /\ Len(p) = n
      BY <2>1
    <3>2. q = Append(p, q[n + 1]) /\ q[n + 1] \in T
      BY <2>1, <3>1
    <3> HIDE DEF p
    <3>3. p \in X
      BY <1>2, <3>1
    <3> QED BY <3>1, <3>2, <3>3
  <2> QED BY <2>1
<1> HIDE DEF Y
<1>3. Nat \subseteq Y
  BY <1>1, <1>2, Inductive
<1> QED BY <1>3 DEF Y

(* What is left are the entries not in S ...                               *)
Entries(q) == {q[k] : k \in DOMAIN q}

LEMMA EntriesAppend ==
  ASSUME NEW T, NEW q \in Seq(T), NEW x \in T
  PROVE  Entries(Append(q, x)) = Entries(q) \cup {x}
<1>1. DOMAIN q = 1 .. Len(q) /\ DOMAIN Append(q, x) = 1 .. Len(q) + 1 /\ Len(q) \in Nat
  OBVIOUS
<1>2. Append(q, x)[Len(q) + 1] = x /\ \A k \in DOMAIN q : Append(q, x)[k] = q[k]
  OBVIOUS
<1> QED BY <1>1, <1>2 DEF Entries

LEMMA WithoutHolds ==
  ASSUME NEW T, NEW S, NEW q \in Seq(T)
  PROVE  /\ Without(q, S) \in Seq(T) /\ Len(Without(q, S)) <= Len(q)
         /\ Entries(Without(q, S)) = Entries(q) \ S
<1> DEFINE Good(r) == /\ Without(r, S) \in Seq(T) /\ Len(Without(r, S)) <= Len(r)
                      /\ Entries(Without(r, S)) = Entries(r) \ S
           X == {r \in Seq(T) : Good(r)}
<1>1. <<>> \in X
  <2>1. Entries(<<>>) = {}
    BY DEF Entries
  <2>2. <<>> \in Seq(T) /\ Len(<<>>) <= Len(<<>>)
    OBVIOUS
  <2> QED BY <2>1, <2>2, WithoutNone
<1>2. ASSUME NEW r \in Seq(T), NEW x \in T, r \in X
      PROVE  Append(r, x) \in X
  <2>1. Append(r, x) \in Seq(T) /\ Good(r)
    BY <1>2
  <2> HIDE <1>2
  <2>2. ASSUME NEW s \in Seq(T)
        PROVE  /\ Append(s, x) \in Seq(T) /\ Len(Append(s, x)) = Len(s) + 1 /\ Len(s) \in Nat
               /\ Entries(Append(s, x)) = Entries(s) \cup {x}
    BY EntriesAppend
  <2>3. CASE x \in S
    <3>1. Without(Append(r, x), S) = Without(r, S)
      BY <2>3, WithoutAppend
    <3> QED BY <2>1, <2>2, <2>3, <3>1
  <2>4. CASE x \notin S
    <3>1. Without(Append(r, x), S) = Append(Without(r, S), x)
      BY <2>4, WithoutAppend
    <3> DEFINE w == Without(r, S)
    <3>2. /\ Append(w, x) \in Seq(T) /\ Len(Append(w, x)) = Len(w) + 1 /\ Len(w) \in Nat
          /\ Entries(Append(w, x)) = Entries(w) \cup {x}
      BY <2>1, <2>2
    <3>3. w \in Seq(T) /\ Len(w) <= Len(r) /\ Entries(w) = Entries(r) \ S
      BY <2>1
    <3> HIDE DEF w
    <3>4. Good(Append(r, x))
      BY <2>2, <2>4, <3>1, <3>2, <3>3 DEF w
    <3> QED BY <2>1, <3>4
  <2> QED BY <2>3, <2>4
<1> HIDE DEF X
<1>3. q \in X
  BY <1>1, <1>2, SeqInduction
<1> QED BY <1>3 DEF X

(* ... and taking more out first leaves no more behind.                    *)
LEMMA WithoutTwice ==
  ASSUME NEW T, NEW S, NEW C, NEW q \in Seq(T)
  PROVE  Len(Without(Without(q, S), C)) <= Len(Without(q, C))
<1> DEFINE Good(r) == Len(Without(Without(r, S), C)) <= Len(Without(r, C))
           X == {r \in Seq(T) : Good(r)}
<1>1. <<>> \in X
  BY WithoutNone
<1>2. ASSUME NEW r \in Seq(T), NEW x \in T, r \in X
      PROVE  Append(r, x) \in X
  <2>1. Append(r, x) \in Seq(T) /\ Good(r)
    BY <1>2
  <2>2. /\ Without(r, S) \in Seq(T) /\ Without(r, C) \in Seq(T)
        /\ Without(Without(r, S), C) \in Seq(T)
    BY WithoutHolds
  <2>3. ASSUME NEW s \in Seq(T)
        PROVE  Append(s, x) \in Seq(T) /\ Len(Append(s, x)) = Len(s) + 1 /\ Len(s) \in Nat
    OBVIOUS
  <2>4. /\ x \in S => Without(Append(r, x), S) = Without(r, S)
        /\ x \notin S => Without(Append(r, x), S) = Append(Without(r, S), x)
        /\ x \in C => Without(Append(r, x), C) = Without(r, C)
        /\ x \notin C => Without(Append(r, x), C) = Append(Without(r, C), x)
    BY WithoutAppend
  <2>5. Without(Append(Without(r, S), x), C)
          = IF x \in C THEN Without(Without(r, S), C)
            ELSE Append(Without(Without(r, S), C), x)
    BY <2>2, WithoutAppend
  <2>6. /\ Len(Append(Without(r, C), x)) = Len(Without(r, C)) + 1 /\ Len(Without(r, C)) \in Nat
        /\ Len(Append(Without(Without(r, S), C), x)) = Len(Without(Without(r, S), C)) + 1
        /\ Len(Without(Without(r, S), C)) \in Nat
    BY <2>2, <2>3
  <2> DEFINE m(p) == Len(Without(Without(p, S), C))
             n(p) == Len(Without(p, C))
  <2>7. m(Append(r, x)) = m(r) \/ (m(Append(r, x)) = m(r) + 1 /\ x \notin C)
    <3>1. CASE x \in S
      BY <2>4, <3>1
    <3>2. CASE x \notin S
      BY <2>4, <2>5, <2>6, <3>2
    <3> QED BY <3>1, <3>2
  <2>8. n(Append(r, x)) = IF x \in C THEN n(r) ELSE n(r) + 1
    BY <2>4, <2>6
  <2>9. m(r) \in Nat /\ n(r) \in Nat /\ m(r) <= n(r)
    BY <2>1, <2>6
  <2>10. Good(Append(r, x))
    <3>1. m(Append(r, x)) <= n(Append(r, x))
      <4> HIDE DEF m, n
      <4> QED BY <2>7, <2>8, <2>9
    <3> QED BY <3>1
  <2> QED BY <2>1, <2>10
<1> HIDE DEF X
<1>3. q \in X
  BY <1>1, <1>2, SeqInduction
<1> QED BY <1>3 DEF X

-----------------------------------------------------------------------------
(* The inductive invariant.                                                *)

Fields == {"queue", "reserved", "row", "enqueued", "owner", "seal", "result"}
BrokerOK(b) ==
  /\ DOMAIN b = Fields
  /\ b.row \in [Id -> {"none", "queued", "delivered"}]
  /\ b.seal \in [Id -> Nat]
  /\ b.result \in [Id -> {"none", "stored", "discarded"}]

(* What awaits a result is sealed for an instance; a row has an owner.     *)
BooksOK(b) ==
  /\ \A id \in Id : id \in b.enqueued => b.seal[id] # None
  /\ \A c \in Command : b.row[c] # "none" => c \in b.owner

Leases == [active : Nat, releasing : Nat, pending : SUBSET Command,
           committed : SUBSET Command, pins : SUBSET Command]
Calls == [pc : {"new", "authorizing", "authorized", "auditing",
                "aborting", "stranded", "over"},
          lease : Nat, expects : Nat, stale : BOOLEAN]
USE DEF Leases, Calls

Shape ==
  /\ lease \in Leases
  /\ call \in [Command -> Calls]
  /\ BrokerOK(broker)
  /\ DOMAIN peer = {"bound", "last", "retired"} /\ peer.bound \in Nat /\ peer.last \in Nat
  /\ granted \in Nat
  /\ lease.active = None \/ lease.releasing = None
  /\ poll.pc = "snapped" => peer.bound # None

(* A command knows the lease it was authorized under, and that lease holds *)
(* every command it committed.                                             *)
Authority ==
  \A c \in Command :
    /\ call[c].pc = "new" => c \notin lease.pending \cup lease.committed \cup lease.pins
    /\ call[c].pc # "new" => call[c].lease # None
    /\ c \in lease.committed \cup lease.pins => Exact(c)

(* A result on its way is of a command this daemon handed to the instance  *)
(* that posts it, or the instance is from before this daemon: it is not    *)
(* bound, never will be, and no command is sealed for it.                  *)
Outlived(i) == peer.bound # i /\ \A id \in Id : broker.seal[id] # i
Posts ==
  /\ peer.bound <= peer.last
  /\ \A r \in wire :
       /\ r.from \in Nat \ {None} /\ r.from <= peer.last
       /\ r.id \in Command => [id |-> r.id, from |-> r.from] \in handed \/ Outlived(r.from)

Inv == Shape /\ BooksOK(broker) /\ Authority /\ CommittedIsTracked /\ Posts

-----------------------------------------------------------------------------
(* The ids of commands, releases and closes do not meet.                   *)
LEMMA Ids ==
  /\ Command \subseteq Id
  /\ \A c \in Command : Release(c) \in Id \ Command
  /\ Closes \cap Command = {}
  /\ \A l \in Nat : Close(l) \notin Command \/ l = None
<1>1. MaxCommand \in Nat /\ MaxLease \in Nat
  BY CommandQueueAssumption
<1> QED
  BY <1>1 DEF Command, Id, Release, Close, Closes, Lease, None

(* How a step may change the books: seals are kept, dropped, or are those  *)
(* of the bound instance, and no result is stored.                         *)
Moves(b, b2) ==
  /\ BrokerOK(b2) /\ BooksOK(b2)
  /\ \A id \in Id : b2.seal[id] \in {b.seal[id], None, peer.bound}
  /\ \A c \in Command : b2.result[c] = "stored" => b.result[c] = "stored"

Lost(b, b2) == {c \in Command : b.row[c] # "none" /\ b2.row[c] = "none"}

LEMMA ForgetMoves ==
  ASSUME NEW b, NEW S, BrokerOK(b), BooksOK(b)
  PROVE  /\ Moves(b, Forget(b, S))
         /\ Lost(b, Forget(b, S)) \subseteq S
         /\ Forget(b, S).result = b.result
<1>1. /\ DOMAIN Forget(b, S) = Fields
      /\ Forget(b, S).row = [id \in Id |-> IF id \in S THEN "none" ELSE b.row[id]]
      /\ Forget(b, S).enqueued = b.enqueued \ S
      /\ Forget(b, S).owner = b.owner \ S
      /\ Forget(b, S).seal = [id \in Id |-> IF id \in S THEN None ELSE b.seal[id]]
      /\ Forget(b, S).result = b.result
  BY DEF Forget, BrokerOK, Fields
<1> DEFINE b2 == Forget(b, S)
<1> HIDE DEF b2
<1>2. BrokerOK(b2) /\ BooksOK(b2)
  BY <1>1, Ids DEF BrokerOK, BooksOK, None, b2
<1> QED
  BY <1>1, <1>2, Ids DEF Moves, Lost, BrokerOK, b2

LEMMA DiscardMoves ==
  ASSUME NEW b, NEW S, BrokerOK(b), BooksOK(b)
  PROVE  /\ Moves(b, Discard(b, S))
         /\ Lost(b, Discard(b, S)) \subseteq Owned(b, S)
<1> DEFINE f == Forget(b, S)
           b2 == Discard(b, S)
<1>1. Moves(b, f) /\ Lost(b, f) \subseteq S /\ f.result = b.result
  BY ForgetMoves
<1> HIDE DEF f
<1>2. /\ DOMAIN b2 = Fields
      /\ b2.row = f.row /\ b2.enqueued = f.enqueued
      /\ b2.owner = f.owner /\ b2.seal = f.seal
      /\ b2.result = [id \in Id |-> IF id \in S \cap Command /\ f.result[id] = "none"
                                    THEN "discarded" ELSE f.result[id]]
  BY <1>1 DEF f, Discard, Moves, BrokerOK, Fields
<1> HIDE DEF b2
<1>3. BrokerOK(b2) /\ BooksOK(b2)
  BY <1>1, <1>2 DEF Moves, BrokerOK, BooksOK
<1>4. Moves(b, b2)
  BY <1>1, <1>2, <1>3, Ids DEF Moves
<1>5. Lost(b, b2) \subseteq Owned(b, S)
  BY <1>1, <1>2 DEF Lost, Owned, BooksOK
<1> QED
  BY <1>4, <1>5 DEF b2

LEMMA DropMoves ==
  ASSUME NEW b, NEW i, BrokerOK(b), BooksOK(b)
  PROVE  /\ Moves(b, Drop(b, i))
         /\ Lost(b, Drop(b, i)) \subseteq Owned(b, {i})
<1> DEFINE b2 == Drop(b, i)
<1>1. /\ DOMAIN b2 = Fields
      /\ b2.row = [b.row EXCEPT ![i] = "none"]
      /\ b2.enqueued = b.enqueued \ {i} /\ b2.owner = b.owner \ {i}
      /\ b2.seal = b.seal /\ b2.result = [b.result EXCEPT ![i] = "none"]
  BY DEF Drop, BrokerOK, Fields
<1> HIDE DEF b2
<1>2. BrokerOK(b2)
  BY <1>1, ZenonT(40) DEF BrokerOK
<1>3. BooksOK(b2)
  BY <1>1, Ids DEF BrokerOK, BooksOK
<1>4. Moves(b, b2)
  BY <1>1, <1>2, <1>3, Ids DEF Moves, BrokerOK
<1>5. Lost(b, b2) \subseteq Owned(b, {i})
  BY <1>1, Ids DEF Lost, Owned, BrokerOK, BooksOK
<1> QED
  BY <1>4, <1>5 DEF b2

LEMMA AppendMoves ==
  ASSUME NEW b, NEW i \in Id, BrokerOK(b), BooksOK(b), peer.bound \in Nat \ {None}
  PROVE  /\ Moves(b, Append2(b, i))
         /\ Lost(b, Append2(b, i)) = {}
         /\ Append2(b, i).row[i] = "queued"
         /\ Append2(b, i).result = b.result
<1> DEFINE b2 == Append2(b, i)
<1>1. /\ DOMAIN b2 = Fields
      /\ b2.row = [b.row EXCEPT ![i] = "queued"]
      /\ b2.enqueued = b.enqueued \cup {i} /\ b2.owner = b.owner \cup {i}
      /\ b2.seal = [b.seal EXCEPT ![i] = peer.bound] /\ b2.result = b.result
  BY DEF Append2, BrokerOK, Fields
<1> HIDE DEF b2
<1>2. BrokerOK(b2)
  BY <1>1 DEF BrokerOK
<1>3. BooksOK(b2)
  BY <1>1, Ids DEF BrokerOK, BooksOK
<1>4. Moves(b, b2)
  BY <1>1, <1>2, <1>3, Ids DEF Moves, BrokerOK
<1>5. Lost(b, b2) = {} /\ b2.row[i] = "queued"
  BY <1>1, Ids DEF Lost, BrokerOK
<1> QED
  BY <1>1, <1>4, <1>5 DEF b2

LEMMA ReserveMoves ==
  ASSUME NEW b, NEW c, BrokerOK(b), BooksOK(b)
  PROVE  /\ Moves(b, Reserve(b, c)) /\ Lost(b, Reserve(b, c)) = {}
         /\ Moves(b, Unreserve(b, c)) /\ Lost(b, Unreserve(b, c)) = {}
         /\ Unreserve(b, c).row = b.row /\ Unreserve(b, c).result = b.result
<1> DEFINE Same(b2) == /\ DOMAIN b2 = Fields
                       /\ b2.row = b.row /\ b2.enqueued = b.enqueued
                       /\ b2.owner = b.owner /\ b2.seal = b.seal
                       /\ b2.result = b.result
<1>1. Same(Reserve(b, c)) /\ Same(Unreserve(b, c))
  BY DEF Reserve, Unreserve, BrokerOK, Fields
<1>2. ASSUME NEW b2, Same(b2) PROVE Moves(b, b2) /\ Lost(b, b2) = {}
  <2>1. BrokerOK(b2) /\ BooksOK(b2)
    BY <1>2 DEF BrokerOK, BooksOK
  <2> QED
    BY <1>2, <2>1 DEF Moves, Lost
<1> QED
  BY <1>1, <1>2

(* Moves is transitive.                                                    *)
LEMMA MovesTwice ==
  ASSUME NEW b, NEW b2, NEW b3, Moves(b, b2), Moves(b2, b3)
  PROVE  Moves(b, b3)
BY DEF Moves, BrokerOK, None

-----------------------------------------------------------------------------
(* Kinds of steps.                                                         *)
Keeps == Inv' /\ Moves(broker, broker')

(* The books change, and nothing else the invariant speaks of; a command   *)
(* that loses its row is finished.                                         *)
BrokerStep ==
  /\ UNCHANGED <<lease, call, peer, granted>>
  /\ Moves(broker, broker')
  /\ Lost(broker, broker') \subseteq finishing' /\ finishing \subseteq finishing'
  /\ poll'.pc = "snapped" => peer.bound # None

LEMMA PostsKept ==
  ASSUME Shape, Posts, Moves(broker, broker'), wire' \subseteq wire,
         handed \subseteq handed', UNCHANGED peer
  PROVE  Posts'
<1>1. \A i \in Nat : Outlived(i) /\ i # None => Outlived(i)'
  BY DEF Outlived, Moves, Shape
<1>2. ASSUME NEW r \in wire'
      PROVE  /\ r.from \in Nat \ {None} /\ r.from <= peer.last
             /\ r.id \in Command =>
                  [id |-> r.id, from |-> r.from] \in handed' \/ Outlived(r.from)'
  <2>1. /\ r.from \in Nat \ {None} /\ r.from <= peer.last
        /\ r.id \in Command => [id |-> r.id, from |-> r.from] \in handed \/ Outlived(r.from)
    BY <1>2 DEF Posts
  <2> QED
    BY <1>1, <2>1
<1> QED
  BY <1>2 DEF Posts

LEMMA BrokerStepKeeps ==
  ASSUME Inv, BrokerStep, Posts' PROVE Keeps
<1> USE DEF BrokerStep
<1>1. Shape' /\ BooksOK(broker)'
  BY DEF Inv, Shape, Moves
<1>2. Authority'
  BY DEF Inv, Authority, Exact
<1>3. CommittedIsTracked'
  BY DEF Inv, Shape, CommittedIsTracked, Lost
<1> QED
  BY <1>1, <1>2, <1>3 DEF Inv, Keeps

(* A call goes on: of the lease it changes nothing but reservations, of    *)
(* the books nothing that another command has.                             *)
LEMMA CallStepKeeps ==
  ASSUME Inv, NEW c \in Command, call[c].pc # "stranded",
         Shape', Authority', Moves(broker, broker'), Lost(broker, broker') = {},
         \A d \in Command \ {c} : call'[d] = call[d],
         lease'.committed \cup lease'.pins
           \subseteq lease.committed \cup lease.pins \cup {c},
         \/ lease'.committed \cup lease'.pins
               \subseteq lease.committed \cup lease.pins
         \/ broker'.row[c] # "none" \/ call'[c].pc = "stranded",
         UNCHANGED <<peer, wire, finishing, handed>>
  PROVE  Keeps
<1>1. BooksOK(broker)' /\ Posts'
  BY PostsKept DEF Inv, Moves
<1>2. CommittedIsTracked'
  BY DEF Inv, Shape, CommittedIsTracked, Lost
<1> QED
  BY <1>1, <1>2 DEF Inv, Keeps

(* The books left as they are.                                             *)
LEMMA SameMoves ==
  ASSUME NEW b, BrokerOK(b), BooksOK(b) PROVE Moves(b, b) /\ Lost(b, b) = {}
BY DEF Moves, Lost

LEMMA EndsKeeps ==
  ASSUME Shape, Authority, NEW c \in Command, NEW pc \in {"over", "stranded", "aborting",
             "authorized", "auditing"}, call[c].pc # "new", Go(c, pc) \/ Ends(c, pc)
  PROVE  /\ call' \in [Command -> Calls]
         /\ call'[c].pc = pc /\ \A d \in Command : call'[d].lease = call[d].lease
         /\ \A d \in Command \ {c} : call'[d] = call[d]
<1>1. call \in [Command -> Calls]
  BY DEF Shape
<1>2. CASE Go(c, pc)
  <2>1. call[c] \in Calls
    BY <1>1
  <2>2. /\ [call[c] EXCEPT !.pc = pc] \in Calls
        /\ [call[c] EXCEPT !.pc = pc].pc = pc
        /\ [call[c] EXCEPT !.pc = pc].lease = call[c].lease
    BY <2>1
  <2> QED
    BY <1>1, <1>2, <2>2 DEF Go
<1>3. CASE Ends(c, pc)
  <2> DEFINE ended == [NewCall EXCEPT !.pc = pc, !.lease = call[c].lease]
  <2>1. ended \in Calls /\ ended.pc = pc /\ ended.lease = call[c].lease
    BY <1>1 DEF NewCall, None
  <2> QED
    BY <1>1, <1>3, <2>1 DEF Ends
<1> QED
  BY <1>2, <1>3

-----------------------------------------------------------------------------
(* One lemma per action of Next.                                           *)

(* Broker and books of the state the step starts from.                     *)
LEMMA Start == ASSUME Inv PROVE Shape /\ Posts /\ Authority /\ BrokerOK(broker) /\ BooksOK(broker)
BY DEF Inv, Shape

LEMMA GrantKeeps == ASSUME Inv, Grant PROVE Inv'
<1> USE DEF Grant, NoLease, None
<1>1. Shape' /\ BooksOK(broker)'
  <2>1. granted + 1 \in Nat /\ lease'.active = granted + 1 /\ lease'.releasing = 0
        /\ lease'.pending = {} /\ lease'.committed = {} /\ lease'.pins = {}
    BY DEF Inv, Shape
  <2>2. lease' \in Leases
    BY <2>1
  <2> QED
    BY <2>1, <2>2 DEF Inv, Shape
<1>2. Authority'
  BY DEF Inv, Authority
<1>3. CommittedIsTracked'
  BY DEF CommittedIsTracked
<1>4. Posts'
  BY Start, PostsKept, SameMoves
<1> QED
  BY <1>1, <1>2, <1>3, <1>4 DEF Inv

LEMMA RetireKeeps == ASSUME Inv, NEW asked \in BOOLEAN, Retire(asked) PROVE Inv'
<1> USE DEF Retire
<1>1. /\ lease'.active = None /\ lease'.releasing = lease.active
      /\ lease'.pending = lease.pending /\ lease'.committed = lease.committed
      /\ lease'.pins = lease.pins
      /\ lease' \in Leases
  BY DEF Inv, Shape, None
<1>2. Shape' /\ BooksOK(broker)'
  BY <1>1 DEF Inv, Shape
<1>3. Authority'
  BY <1>1 DEF Inv, Shape, Authority, Exact
<1>4. CommittedIsTracked'
  BY <1>1 DEF Inv, CommittedIsTracked
<1>5. Posts'
  BY Start, PostsKept, SameMoves
<1> QED
  BY <1>2, <1>3, <1>4, <1>5 DEF Inv

LEMMA BeginAuthorizeKeeps ==
  ASSUME Inv, NEW c \in Command, BeginAuthorize(c) PROVE Inv'
<1> USE DEF BeginAuthorize
<1>1. /\ call[c].pc = "new" /\ lease.active \in Nat \ {None} /\ peer.bound \in Nat
  BY DEF Inv, Shape
<1>2. /\ call' \in [Command -> Calls]
      /\ call'[c].pc = "authorizing" /\ call'[c].lease = lease.active
      /\ \A d \in Command \ {c} : call'[d] = call[d]
  BY <1>1 DEF Inv, Shape, None
<1>3. Shape'
  BY <1>2 DEF Inv, Shape
<1>4. Authority'
  BY <1>1, <1>2 DEF Inv, Authority, Exact
<1> QED
  BY <1>1, <1>2, <1>3, <1>4, CallStepKeeps, Start, SameMoves DEF Keeps

LEMMA AuthorizeKeeps == ASSUME Inv, NEW c \in Command, Authorize(c) PROVE Inv'
<1> USE DEF Authorize
<1>1. CASE lease.active = call[c].lease /\ lease' = [lease EXCEPT !.pending = @ \cup {c}]
           /\ Go(c, "authorized")
  <2>1. /\ lease' \in Leases
        /\ lease'.active = lease.active /\ lease'.releasing = lease.releasing
        /\ lease'.pending = lease.pending \cup {c}
        /\ lease'.committed = lease.committed /\ lease'.pins = lease.pins
    BY <1>1 DEF Inv, Shape
  <2>2. call' \in [Command -> Calls]
        /\ call'[c].pc = "authorized" /\ (\A d \in Command : call'[d].lease = call[d].lease)
        /\ \A d \in Command \ {c} : call'[d] = call[d]
    BY <1>1, EndsKeeps, Start
  <2>3. Shape' /\ Authority'
    BY <2>1, <2>2 DEF Inv, Shape, Authority, Exact
  <2> QED
    BY <2>1, <2>2, <2>3, CallStepKeeps, Start, SameMoves DEF Keeps
<1>2. CASE Refuses(c) /\ UNCHANGED lease
  <2>1. call' \in [Command -> Calls]
        /\ call'[c].pc = "over" /\ (\A d \in Command : call'[d].lease = call[d].lease)
        /\ \A d \in Command \ {c} : call'[d] = call[d]
    BY <1>2, EndsKeeps, Start DEF Refuses
  <2>2. Shape' /\ Authority'
    BY <1>2, <2>1 DEF Inv, Shape, Authority, Exact
  <2> QED
    BY <1>2, <2>1, <2>2, CallStepKeeps, Start, SameMoves DEF Keeps
<1> QED
  BY <1>1, <1>2

(* commit_authorization: the lease holds what it commits.                  *)
LEMMA CommitKeeps ==
  ASSUME Inv, NEW c \in Command, Committable(c), call[c].pc # "new",
         lease' = Commit(c),
         call' \in [Command -> Calls], call'[c].pc \in {"over", "stranded"},
         \A d \in Command : call'[d].lease = call[d].lease,
         \A d \in Command \ {c} : call'[d] = call[d],
         Moves(broker, broker'), Lost(broker, broker') = {},
         broker'.row[c] # "none" \/ call'[c].pc = "stranded",
         call[c].pc # "stranded",
         UNCHANGED <<peer, wire, finishing, handed, granted, poll>>
  PROVE  Keeps
<1>1. /\ lease' \in Leases
      /\ lease'.active = lease.active /\ lease'.releasing = lease.releasing
      /\ lease'.pending = lease.pending \ {c}
      /\ lease'.committed = lease.committed \cup {c}
      /\ lease'.pins \subseteq lease.pins \cup {c}
  BY DEF Inv, Shape, Commit
<1>2. Shape'
  BY <1>1 DEF Inv, Shape, Moves
<1>3. Authority'
  <2>1. Exact(c) /\ call[c].lease # None
    BY DEF Inv, Authority, Exact, Committable
  <2> QED
    BY <1>1, <2>1 DEF Inv, Authority, Exact
<1> QED
  BY <1>1, <1>2, <1>3, CallStepKeeps

(* The call of a command does not commit: its reservation may go.          *)
LEMMA NoCommitKeeps ==
  ASSUME Inv, NEW c \in Command, call[c].pc \notin {"new", "stranded"},
         lease' \in {lease, [lease EXCEPT !.pending = @ \ {c}]},
         NEW pc \in {"over", "aborting", "auditing"}, Go(c, pc) \/ Ends(c, pc),
         Moves(broker, broker'), Lost(broker, broker') = {},
         UNCHANGED <<peer, wire, finishing, handed, granted, poll>>
  PROVE  Keeps
<1>1. /\ lease' \in Leases
      /\ lease'.active = lease.active /\ lease'.releasing = lease.releasing
      /\ lease'.pending \subseteq lease.pending
      /\ lease'.committed = lease.committed /\ lease'.pins = lease.pins
  BY SMTT(30) DEF Inv, Shape
<1>2. /\ call' \in [Command -> Calls] /\ call'[c].pc = pc
      /\ \A d \in Command : call'[d].lease = call[d].lease
      /\ \A d \in Command \ {c} : call'[d] = call[d]
  BY EndsKeeps, Start
<1>3. Shape'
  BY <1>1, <1>2 DEF Inv, Shape, Moves
<1>4. Authority'
  BY <1>1, <1>2 DEF Inv, Authority, Exact
<1> QED
  BY <1>1, <1>2, <1>3, <1>4, CallStepKeeps

(* A command that joins the queue is committed under its lease.            *)
LEMMA EnqueuesKeeps ==
  ASSUME Inv, NEW c \in Command, Committable(c), Target,
         call[c].pc \notin {"new", "stranded"}, NEW b, Enqueues(c, b),
         Moves(broker, b), Lost(broker, b) = {},
         UNCHANGED <<peer, wire, finishing, handed, granted, poll>>
  PROVE  Keeps
<1>1. peer.bound \in Nat \ {None}
  BY DEF Inv, Shape, Target
<1>2. /\ Moves(b, broker') /\ Lost(b, broker') = {} /\ broker'.row[c] = "queued"
  BY <1>1, Ids, AppendMoves DEF Enqueues, Moves
<1>3. Moves(broker, broker')
  BY <1>2, MovesTwice
<1>4. Lost(broker, broker') = {}
  BY <1>2 DEF Lost
<1>5. /\ call' \in [Command -> Calls] /\ call'[c].pc = "over"
      /\ \A d \in Command : call'[d].lease = call[d].lease
      /\ \A d \in Command \ {c} : call'[d] = call[d]
  BY EndsKeeps, Start DEF Enqueues
<1> QED
  BY <1>2, <1>3, <1>4, <1>5, CommitKeeps DEF Enqueues

LEMMA PublishKeeps == ASSUME Inv, NEW c \in Command, Publish(c) PROVE Keeps
<1> USE DEF Publish
<1>1. CASE Target /\ Committable(c) /\ Enqueues(c, broker)
  BY <1>1, EnqueuesKeeps, Start, SameMoves
<1>2. CASE Aborts(c, broker)
  BY <1>2, NoCommitKeeps, Start, SameMoves DEF Aborts
<1> QED
  BY <1>1, <1>2

LEMMA ReserveExecKeeps == ASSUME Inv, NEW c \in Command, ReserveExec(c) PROVE Keeps
<1> USE DEF ReserveExec
<1>1. CASE broker' = Reserve(broker, c) /\ Go(c, "auditing") /\ UNCHANGED lease
  <2>1. Moves(broker, broker') /\ Lost(broker, broker') = {}
    BY <1>1, ReserveMoves, Start
  <2> QED
    BY <1>1, <2>1, NoCommitKeeps
<1>2. CASE Aborts(c, broker)
  BY <1>2, NoCommitKeeps, Start, SameMoves DEF Aborts
<1> QED
  BY <1>1, <1>2

LEMMA PublishExecKeeps == ASSUME Inv, NEW c \in Command, PublishExec(c) PROVE Keeps
<1> DEFINE b == Unreserve(broker, c)
<1>1. Moves(broker, b) /\ Lost(broker, b) = {}
  BY ReserveMoves, Start
<1>2. call[c].pc = "auditing" /\ UNCHANGED <<peer, poll, wire, finishing, age, handed, granted>>
  BY DEF PublishExec
<1>3. CASE Aborts(c, b)
  BY <1>1, <1>2, <1>3, NoCommitKeeps DEF Aborts
<1>4. CASE Target /\ Committable(c) /\ Enqueues(c, b)
  <2> HIDE DEF b
  <2> QED
    BY <1>1, <1>2, <1>4, EnqueuesKeeps
<1>5. CASE Committable(c) /\ broker' = b /\ lease' = Commit(c) /\ Ends(c, "stranded")
  <2>1. /\ call' \in [Command -> Calls] /\ call'[c].pc = "stranded"
        /\ \A d \in Command : call'[d].lease = call[d].lease
        /\ \A d \in Command \ {c} : call'[d] = call[d]
    BY <1>2, <1>5, EndsKeeps, Start
  <2> QED
    BY <1>1, <1>2, <1>5, <2>1, CommitKeeps
<1> QED
  BY <1>3, <1>4, <1>5 DEF PublishExec

LEMMA AbortKeeps == ASSUME Inv, NEW c \in Command, AbortReservation(c) PROVE Inv'
BY NoCommitKeeps, Start, SameMoves DEF Keeps, AbortReservation, Refuses

(* The finish takes from the lease the command it is about, for that lease *)
(* is the one the command was committed under.                             *)
LEMMA FinishOperationKeeps == ASSUME Inv, NEW c \in Command, FinishOperation(c) PROVE Inv'
<1> USE DEF FinishOperation
<1>1. /\ lease' \in Leases
      /\ lease'.active = lease.active /\ lease'.releasing = lease.releasing
      /\ lease'.pending = lease.pending
      /\ lease'.committed \subseteq lease.committed /\ lease'.pins \subseteq lease.pins
  BY DEF Inv, Shape
<1>2. c \notin lease'.committed \cup lease'.pins
  BY DEF Inv, Shape, Authority
<1>3. Shape' /\ BooksOK(broker)'
  BY <1>1 DEF Inv, Shape
<1>4. Authority'
  BY <1>1 DEF Inv, Authority, Exact
<1>5. CommittedIsTracked'
  BY <1>1, <1>2 DEF Inv, CommittedIsTracked
<1>6. Posts'
  BY Start, PostsKept, SameMoves
<1> QED
  BY <1>3, <1>4, <1>5, <1>6 DEF Inv

LEMMA TakeResultKeeps == ASSUME Inv, NEW c \in Command, TakeResult(c) PROVE Keeps
<1> USE DEF TakeResult
<1>1. Moves(broker, broker') /\ Lost(broker, broker') \subseteq finishing'
  BY Start, DropMoves
<1>2. BrokerStep
  BY <1>1 DEF BrokerStep, Inv, Shape
<1> QED
  BY <1>1, <1>2, Start, PostsKept, BrokerStepKeeps

LEMMA UnqueueMoves ==
  ASSUME NEW b, NEW c \in Command, BrokerOK(b), BooksOK(b)
  PROVE  Moves(b, Unqueue(b, c)) /\ Lost(b, Unqueue(b, c)) \subseteq {c}
<1> DEFINE f == Forget(b, {c})
           b2 == Unqueue(b, c)
<1>1. Moves(b, f) /\ Lost(b, f) \subseteq {c} /\ f.result = b.result
  BY ForgetMoves
<1> HIDE DEF f
<1>2. /\ DOMAIN b2 = Fields
      /\ b2.row = f.row /\ b2.enqueued = f.enqueued
      /\ b2.owner = f.owner /\ b2.seal = f.seal
      /\ b2.result = [f.result EXCEPT ![c] = "none"]
  BY <1>1 DEF f, Unqueue, Moves, BrokerOK, Fields
<1> HIDE DEF b2
<1>3. BrokerOK(b2)
  BY <1>1, <1>2, ZenonT(40) DEF Moves, BrokerOK
<1>4. BooksOK(b2)
  BY <1>1, <1>2 DEF Moves, BooksOK
<1>5. Moves(b, b2)
  BY <1>1, <1>2, <1>3, <1>4, Ids DEF Moves, BrokerOK
<1>6. Lost(b, b2) \subseteq {c}
  BY <1>1, <1>2 DEF Lost
<1> QED
  BY <1>5, <1>6 DEF b2

LEMMA AbandonKeeps == ASSUME Inv, NEW c \in Command, Abandon(c) PROVE Keeps
<1>1. Moves(broker, broker') /\ Lost(broker, broker') \subseteq {c}
  <2> DEFINE f == Forget(broker, {c})
  <2>1. Moves(broker, f) /\ Lost(broker, f) \subseteq {c}
    BY Start, ForgetMoves
  <2>2. CASE broker' = Unqueue(broker, c)
    BY <2>2, Start, UnqueueMoves
  <2>3. CASE broker' = f
    BY <2>1, <2>3
  <2>4. CASE MayRelease(c) /\ broker' = Append2(f, Release(c))
    <3>1. peer.bound \in Nat \ {None}
      BY <2>4, Start DEF MayRelease, Bound, Shape, None
    <3> HIDE DEF f
    <3>2. Moves(f, broker') /\ Lost(f, broker') = {}
      BY <2>1, <2>4, <3>1, Ids, AppendMoves DEF Moves
    <3>3. Moves(broker, broker')
      BY <2>1, <3>2, MovesTwice
    <3> QED
      BY <2>1, <3>2, <3>3 DEF Lost
  <2> QED
    BY <2>2, <2>3, <2>4 DEF Abandon
<1>2. BrokerStep
  BY <1>1 DEF BrokerStep, Inv, Shape, Abandon
<1> QED
  BY <1>1, <1>2, Start, PostsKept, BrokerStepKeeps DEF Abandon

LEMMA BeginPollKeeps == ASSUME Inv, BeginPoll PROVE Keeps
<1>1. PICK stale \in SUBSET Queued(broker) :
        /\ broker' = Discard(broker, stale)
        /\ finishing' = finishing \cup Owned(broker, stale)
  BY DEF BeginPoll
<1>2. Moves(broker, broker') /\ Lost(broker, broker') \subseteq finishing'
  BY <1>1, Start, DiscardMoves
<1>3. BrokerStep
  BY <1>1, <1>2 DEF BrokerStep, BeginPoll
<1> QED
  BY <1>2, <1>3, Start, PostsKept, BrokerStepKeeps DEF BeginPoll

LEMMA DeliverKeeps == ASSUME Inv, Deliver PROVE Keeps
<1>1. poll.pc = "snapped" /\ UNCHANGED <<lease, call, peer, granted>>
  BY DEF Deliver
<1>2. CASE /\ UNCHANGED <<broker, wire, handed, finishing>>
           /\ poll' = [poll EXCEPT !.snap = broker.queue]
  <2>1. BrokerStep
    BY <1>1, <1>2, Start, SameMoves DEF BrokerStep, Inv, Shape
  <2> QED
    BY <1>1, <1>2, <2>1, Start, SameMoves, PostsKept, BrokerStepKeeps
<1>3. CASE \E open \in SUBSET Closes :
             LET S == {poll.snap[k] : k \in DOMAIN poll.snap}
                 out == {id \in S : Claims(id) /\ (id \in Closes => id \in open)}
                 b == Discard(broker, S \ out)
             IN  /\ poll' = NotPolling
                 /\ broker' = [b EXCEPT
                      !.queue = Without(@, out),
                      !.row = [id \in Id |-> IF id \in out /\ @[id] = "queued"
                                             THEN "delivered" ELSE @[id]]]
                 /\ finishing' = finishing \cup Owned(broker, S \ out)
                 /\ wire' = wire \cup Answers(out \ Closes, peer.bound)
                 /\ handed' = handed \cup [id : out \cap Command, from : {peer.bound}]
  <2>1. PICK S, out :
          LET b == Discard(broker, S \ out)
          IN  /\ poll' = NotPolling
              /\ broker' = [b EXCEPT
                   !.queue = Without(@, out),
                   !.row = [id \in Id |-> IF id \in out /\ @[id] = "queued"
                                          THEN "delivered" ELSE @[id]]]
              /\ finishing' = finishing \cup Owned(broker, S \ out)
              /\ wire' = wire \cup Answers(out \ Closes, peer.bound)
              /\ handed' = handed \cup [id : out \cap Command, from : {peer.bound}]
    BY <1>3
  <2> DEFINE b == Discard(broker, S \ out)
  <2>2. Moves(broker, b) /\ Lost(broker, b) \subseteq Owned(broker, S \ out)
    BY Start, DiscardMoves
  <2> HIDE DEF b
  <2>3. /\ DOMAIN broker' = Fields
        /\ broker'.row = [id \in Id |-> IF id \in out /\ b.row[id] = "queued"
                                         THEN "delivered" ELSE b.row[id]]
        /\ broker'.enqueued = b.enqueued /\ broker'.owner = b.owner
        /\ broker'.seal = b.seal /\ broker'.result = b.result
    BY <2>1, <2>2 DEF b, Moves, BrokerOK, Fields
  <2>4. BrokerOK(broker)' /\ BooksOK(broker)'
    BY <2>2, <2>3, Ids DEF Moves, BrokerOK, BooksOK
  <2>5. Moves(broker, broker')
    BY <2>2, <2>3, <2>4 DEF Moves
  <2>6. Lost(broker, broker') \subseteq Lost(broker, b)
    BY <2>3, Ids DEF Lost
  <2>7. BrokerStep
    BY <1>1, <2>1, <2>2, <2>5, <2>6 DEF BrokerStep, NotPolling
  <2>8. Posts'
    <3>1. peer.bound \in Nat \ {None} /\ peer.bound <= peer.last /\ peer.last \in Nat
      BY <1>1 DEF Inv, Shape, Posts
    <3>2. ASSUME NEW r \in wire'
          PROVE  /\ r.from \in Nat \ {None} /\ r.from <= peer.last
                 /\ r.id \in Command =>
                      [id |-> r.id, from |-> r.from] \in handed' \/ Outlived(r.from)'
      <4>1. CASE r \in Answers(out \ Closes, peer.bound)
        <5>1. r.from = peer.bound /\ r.id \in out
          BY <4>1 DEF Answers
        <5> QED
          BY <2>1, <3>1, <5>1
      <4>2. CASE r \in wire
        <5>1. /\ r.from \in Nat \ {None} /\ r.from <= peer.last
              /\ r.id \in Command => [id |-> r.id, from |-> r.from] \in handed \/ Outlived(r.from)
          BY <4>2, Start DEF Posts
        <5>2. Outlived(r.from) => Outlived(r.from)'
          BY <1>1, <2>5, <5>1 DEF Outlived, Moves
        <5> QED
          BY <2>1, <5>1, <5>2
      <4> QED
        BY <2>1, <3>2, <4>1, <4>2
    <3> QED
      BY <1>1, <3>1, <3>2 DEF Posts
  <2> QED
    BY <2>7, <2>8, BrokerStepKeeps
<1> QED
  BY <1>2, <1>3 DEF Deliver

(* The result is kept, or its command leaves the books.                    *)
LEMMA StoreMoves ==
  ASSUME Inv, NEW r \in wire, StoreResult(r)
  PROVE  /\ BrokerOK(broker)' /\ BooksOK(broker)'
         /\ \A id \in Id : broker'.seal[id] = broker.seal[id]
         /\ Lost(broker, broker') \subseteq finishing'
<1>1. CASE UNCHANGED <<broker, finishing>>
  BY <1>1, Start DEF Lost
<1>2. CASE broker' = Drop(broker, r.id) /\ finishing' = finishing \cup Owned(broker, {r.id})
  <2>1. Drop(broker, r.id).seal = broker.seal
    BY Start DEF Drop, BrokerOK, Fields
  <2> QED
    BY <1>2, <2>1, Start, DropMoves DEF Moves
<1>3. CASE /\ r.id \in Command /\ finishing' = finishing \cup Owned(broker, {r.id})
           /\ broker' = [broker EXCEPT !.row[r.id] = "none", !.result[r.id] = "stored"]
  <2>1. /\ DOMAIN broker' = Fields
        /\ broker'.row = [broker.row EXCEPT ![r.id] = "none"]
        /\ broker'.enqueued = broker.enqueued /\ broker'.owner = broker.owner
        /\ broker'.seal = broker.seal
        /\ broker'.result = [broker.result EXCEPT ![r.id] = "stored"]
    BY <1>3, Start DEF BrokerOK, Fields
  <2>2. BrokerOK(broker)'
    BY <2>1, Start, ZenonT(40) DEF BrokerOK
  <2>3. BooksOK(broker)'
    BY <2>1, Start, Ids DEF BrokerOK, BooksOK
  <2>4. Lost(broker, broker') \subseteq Owned(broker, {r.id})
    BY <2>1, Start, Ids DEF Lost, Owned, BrokerOK, BooksOK
  <2> QED
    BY <1>3, <2>1, <2>2, <2>3, <2>4
<1> QED
  BY <1>1, <1>2, <1>3 DEF StoreResult

LEMMA StoreResultKeeps == ASSUME Inv, NEW r \in wire, StoreResult(r) PROVE Inv'
<1>1. /\ BrokerOK(broker)' /\ BooksOK(broker)'
      /\ \A id \in Id : broker'.seal[id] = broker.seal[id]
      /\ Lost(broker, broker') \subseteq finishing'
  BY StoreMoves
<1>2. /\ UNCHANGED <<lease, call, peer, poll, handed, granted>> /\ wire' \subseteq wire
      /\ finishing \subseteq finishing'
  BY DEF StoreResult
<1>3. Shape'
  BY <1>1, <1>2 DEF Inv, Shape
<1>4. Authority'
  BY <1>2 DEF Inv, Authority, Exact
<1>5. CommittedIsTracked'
  BY <1>1, <1>2 DEF Inv, Shape, CommittedIsTracked, Lost
<1>6. Posts'
  BY <1>1, <1>2 DEF Inv, Posts, Outlived
<1> QED
  BY <1>1, <1>3, <1>4, <1>5, <1>6 DEF Inv

LEMMA AgeKeeps == ASSUME Inv, NEW c \in Command, Age(c) PROVE Inv'
<1>1. BrokerStep
  BY Start, SameMoves DEF BrokerStep, Age, Inv, Shape
<1> QED
  BY <1>1, Start, SameMoves, PostsKept, BrokerStepKeeps DEF Age, Keeps

LEMMA BindKeeps == ASSUME Inv, Bind PROVE Inv'
<1> USE DEF Bind
<1>1. /\ peer.last \in Nat /\ peer'.bound = peer.last + 1 /\ peer'.last = peer.last + 1
      /\ DOMAIN peer' = {"bound", "last", "retired"}
  BY DEF Inv, Shape
<1>2. Shape' /\ BooksOK(broker)'
  BY <1>1 DEF Inv, Shape, None
<1>3. Authority' /\ CommittedIsTracked'
  BY DEF Inv, Authority, Exact, CommittedIsTracked
<1>4. Posts'
  <2>1. ASSUME NEW r \in wire
        PROVE  /\ r.from \in Nat \ {None} /\ r.from <= peer'.last
               /\ r.id \in Command =>
                    [id |-> r.id, from |-> r.from] \in handed \/ Outlived(r.from)'
    <3>1. /\ r.from \in Nat \ {None} /\ r.from <= peer.last
          /\ r.id \in Command => [id |-> r.id, from |-> r.from] \in handed \/ Outlived(r.from)
      BY Start DEF Posts
    <3>2. r.from # peer'.bound /\ r.from <= peer'.last
      BY <1>1, <3>1
    <3> QED
      BY <3>1, <3>2 DEF Outlived
  <2> QED
    BY <1>1, <2>1 DEF Posts
<1> QED
  BY <1>2, <1>3, <1>4 DEF Inv

LEMMA RetireInstanceKeeps == ASSUME Inv, RetireInstance PROVE Keeps
<1> USE DEF RetireInstance
<1>1. /\ peer'.bound = None /\ peer'.last = peer.last
      /\ DOMAIN peer' = {"bound", "last", "retired"}
  BY DEF Inv, Shape, None
<1>2. Moves(broker, broker') /\ Lost(broker, broker') \subseteq Owned(broker, Queued(broker))
  BY Start, DiscardMoves
<1>3. Shape' /\ BooksOK(broker)'
  BY <1>1, <1>2 DEF Inv, Shape, Moves, NotPolling
<1>4. Authority'
  BY DEF Inv, Authority, Exact
<1>5. CommittedIsTracked'
  BY <1>2 DEF Inv, Shape, CommittedIsTracked, Lost
<1>6. Posts'
  <2>1. ASSUME NEW r \in wire
        PROVE  /\ r.from \in Nat \ {None} /\ r.from <= peer.last
               /\ r.id \in Command =>
                    [id |-> r.id, from |-> r.from] \in handed \/ Outlived(r.from)'
    <3>1. /\ r.from \in Nat \ {None} /\ r.from <= peer.last
          /\ r.id \in Command => [id |-> r.id, from |-> r.from] \in handed \/ Outlived(r.from)
      BY Start DEF Posts
    <3>2. Outlived(r.from) => Outlived(r.from)'
      BY <1>1, <1>2, <3>1 DEF Outlived, Moves
    <3> QED
      BY <3>1, <3>2
  <2> QED
    BY <1>1, <2>1, Start DEF Posts, Shape, None
<1> QED
  BY <1>2, <1>3, <1>4, <1>5, <1>6 DEF Inv, Keeps

LEMMA CloseMoves ==
  ASSUME NEW b, NEW i, NEW q, BrokerOK(b), BooksOK(b), peer.bound \in Nat \ {None}
  PROVE  Moves(b, [b EXCEPT !.queue = q, !.seal[i] = peer.bound, !.enqueued = @ \cup {i}])
<1> DEFINE b2 == [b EXCEPT !.queue = q, !.seal[i] = peer.bound, !.enqueued = @ \cup {i}]
<1>1. /\ DOMAIN b2 = Fields
      /\ b2.row = b.row /\ b2.owner = b.owner
      /\ b2.enqueued = b.enqueued \cup {i}
      /\ b2.seal = [b.seal EXCEPT ![i] = peer.bound]
      /\ b2.result = b.result
  BY DEF BrokerOK, Fields
<1> HIDE DEF b2
<1>2. \A id \in Id : b2.seal[id] = IF id = i THEN peer.bound ELSE b.seal[id]
  BY <1>1 DEF BrokerOK
<1>3. BrokerOK(b2)
  BY <1>1 DEF BrokerOK
<1>4. BooksOK(b2)
  BY <1>1, <1>2 DEF BooksOK
<1> QED
  BY <1>1, <1>2, <1>3, <1>4, Ids DEF Moves, b2

LEMMA CleanUpKeeps == ASSUME Inv, CleanUp PROVE Keeps
<1>1. Moves(broker, broker')
  <2> DEFINE l == lease.releasing
             b == Discard(broker, OwnedBy(l))
             b3 == Discard(b, Closes \cap Queued(b))
  <2>1. Moves(broker, b)
    BY Start, DiscardMoves
  <2>2. CASE broker' = b
    BY <2>1, <2>2
  <2>3. CASE /\ peer.bound # None
             /\ broker' = [b3 EXCEPT !.queue = Append(@, Close(l)),
                                     !.seal[Close(l)] = peer.bound,
                                     !.enqueued = @ \cup {Close(l)}]
    <3> HIDE DEF b
    <3>1. Moves(b, b3)
      BY <2>1, DiscardMoves DEF Moves
    <3>2. Moves(broker, b3)
      BY <2>1, <3>1, MovesTwice
    <3> HIDE DEF b3
    <3>3. Moves(b3, broker')
      <4>1. peer.bound \in Nat \ {None} /\ BrokerOK(b3) /\ BooksOK(b3)
        BY <2>3, <3>2, Start DEF Moves, Shape
      <4>2. \A q : Moves(b3, [b3 EXCEPT !.queue = q, !.seal[Close(l)] = peer.bound,
                                        !.enqueued = @ \cup {Close(l)}])
        BY <4>1, CloseMoves
      <4> QED
        BY <2>3, <4>2
    <3> QED
      BY <3>2, <3>3, MovesTwice
  <2> QED
    BY <2>2, <2>3 DEF CleanUp
<1>2. /\ lease' \in Leases /\ lease'.active = None /\ lease'.pending = {}
      /\ lease'.committed = {} /\ lease'.pins = {}
  BY DEF CleanUp, NoLease, None
<1>3. /\ call' \in [Command -> Calls]
      /\ \A c \in Command : call'[c].lease = call[c].lease /\ call'[c].pc = call[c].pc
  <2>1. ASSUME NEW c \in Command
        PROVE  /\ [call[c] EXCEPT !.stale = @ \/ call[c].pc = "auditing"] \in Calls
               /\ [call[c] EXCEPT !.stale = @ \/ call[c].pc = "auditing"].lease = call[c].lease
               /\ [call[c] EXCEPT !.stale = @ \/ call[c].pc = "auditing"].pc = call[c].pc
    <3>1. call[c] \in Calls
      BY Start DEF Shape
    <3> QED
      BY <3>1
  <2> QED
    BY <2>1 DEF CleanUp
<1>4. Shape' /\ BooksOK(broker)'
  BY <1>1, <1>2, <1>3 DEF Inv, Shape, Moves, CleanUp
<1>5. Authority' /\ CommittedIsTracked'
  BY <1>2, <1>3 DEF Inv, Authority, CommittedIsTracked
<1>6. Posts'
  BY <1>1, Start, PostsKept DEF CleanUp
<1> QED
  BY <1>1, <1>4, <1>5, <1>6 DEF Inv, Keeps

LEMMA Blank ==
  /\ NoLease \in Leases /\ NewCall \in Calls
  /\ BrokerOK(Empty) /\ BooksOK(Empty)
<1>1. NoLease \in Leases /\ NewCall \in Calls
  BY DEF NoLease, NewCall, None
<1>2. BrokerOK(Empty)
  BY DEF BrokerOK, Empty, Fields, None
<1>3. Empty.row = [id \in Id |-> "none"] /\ Empty.enqueued = {}
  BY DEF Empty
<1>4. BooksOK(Empty)
  BY <1>3, Ids DEF BooksOK
<1> QED
  BY <1>1, <1>2, <1>4

LEMMA RestartKeeps == ASSUME Inv, Restart PROVE Inv'
<1> USE DEF Restart
<1>1. /\ peer'.bound = None /\ peer'.last = peer.last
      /\ DOMAIN peer' = {"bound", "last", "retired"}
  BY DEF Inv, Shape, None
<1>2. Shape' /\ BooksOK(broker)'
  BY <1>1, Blank DEF Inv, Shape, NotPolling, NoLease
<1>3. /\ lease'.pending = {} /\ lease'.committed = {} /\ lease'.pins = {}
      /\ \A c \in Command : call'[c].pc = "new"
  BY DEF NoLease, NewCall
<1>4. Authority' /\ CommittedIsTracked'
  BY <1>3 DEF Authority, CommittedIsTracked
<1>5. Posts'
  <2>1. ASSUME NEW r \in wire
        PROVE  r.from \in Nat \ {None} /\ r.from <= peer.last /\ Outlived(r.from)'
    <3>1. r.from \in Nat \ {None} /\ r.from <= peer.last
      BY Start DEF Posts
    <3>2. \A id \in Id : broker'.seal[id] = None
      BY DEF Empty
    <3> QED
      BY <1>1, <3>1, <3>2 DEF Outlived
  <2> QED
    BY <1>1, <2>1, Start DEF Posts, Shape, None
<1> QED
  BY <1>2, <1>4, <1>5 DEF Inv

LEMMA InitInv == ASSUME Init PROVE Inv
<1> USE DEF Init
<1>1. Shape /\ BooksOK(broker)
  BY Blank DEF Shape, NotPolling, NoLease, None
<1>2. Authority /\ CommittedIsTracked /\ Posts
  BY DEF Authority, CommittedIsTracked, NoLease, NewCall, Posts, None
<1> QED
  BY <1>1, <1>2 DEF Inv

-----------------------------------------------------------------------------
(* Inv holds of every reachable state: no step of the daemon, of a caller  *)
(* or of a game leaves the books of the commands out of step with the      *)
(* lease they were committed under.                                        *)
THEOREM BooksSafety == Spec => []Inv
<1>1. Init => Inv
  BY InitInv
<1>2. Inv /\ [Next]_vars => Inv'
  <2> SUFFICES ASSUME Inv, [Next]_vars PROVE Inv'
    OBVIOUS
  <2>1. CASE Grant \/ CleanUp \/ BeginPoll \/ Deliver \/ Bind \/ RetireInstance \/ Restart
    BY <2>1, GrantKeeps, CleanUpKeeps, BeginPollKeeps, DeliverKeeps, BindKeeps,
       RetireInstanceKeeps, RestartKeeps DEF Keeps
  <2>2. ASSUME NEW asked \in BOOLEAN, Retire(asked) PROVE Inv'
    BY <2>2, RetireKeeps
  <2>3. ASSUME NEW r \in wire, StoreResult(r) PROVE Inv'
    BY <2>3, StoreResultKeeps
  <2>4. ASSUME NEW c \in Command, BeginAuthorize(c) \/ CallStep(c) \/ FinishOperation(c)
        PROVE  Inv'
    BY <2>4, BeginAuthorizeKeeps, AuthorizeKeeps, PublishKeeps, ReserveExecKeeps,
       PublishExecKeeps, AbortKeeps, FinishOperationKeeps DEF CallStep, Keeps
  <2>5. ASSUME NEW c \in Command, TakeResult(c) \/ CallerAbandons(c) \/ Reap(c) \/ Age(c)
        PROVE  Inv'
    BY <2>5, TakeResultKeeps, AbandonKeeps, AgeKeeps DEF CallerAbandons, Reap, Keeps
  <2>6. CASE UNCHANGED vars
    <3>1. UNCHANGED <<lease, call, broker, peer, poll, wire, finishing, handed, granted>>
      BY <2>6 DEF vars
    <3>2. BrokerStep
      BY <3>1, Start, SameMoves DEF BrokerStep, Shape
    <3> QED
      BY <3>1, <3>2, Start, SameMoves, PostsKept, BrokerStepKeeps DEF Keeps
  <2> QED
    BY <2>1, <2>2, <2>3, <2>4, <2>5, <2>6 DEF Next
<1> QED
  BY <1>1, <1>2, PTL DEF Spec

(* What a lease still authorizes is queued, delivered or about to be       *)
(* closed, so no forgotten command keeps a lease past its TTL.             *)
THEOREM Tracked == Spec => []CommittedIsTracked
<1>1. Inv => CommittedIsTracked
  BY DEF Inv
<1> QED
  BY <1>1, BooksSafety, PTL

(* A command is delivered only while the lease it was authorized under is  *)
(* active: the poll asks when it delivers, not when it takes its snapshot. *)
THEOREM UnderLease == Spec => DeliveredUnderLease
<1> DEFINE Under == \A d \in handed' \ handed : d.id \in Command => lease.active = call[d.id].lease
<1>1. Deliver => Under
  <2> SUFFICES ASSUME Deliver, NEW d \in handed' \ handed, d.id \in Command
               PROVE  lease.active = call[d.id].lease
    OBVIOUS
  <2>1. PICK out : /\ \A id \in out : Claims(id)
                   /\ handed' \ handed \subseteq [id : out \cap Command, from : {peer.bound}]
    <3>1. CASE UNCHANGED handed
      BY <3>1
    <3>2. CASE ~UNCHANGED handed
      <4>1. \E open \in SUBSET Closes :
              LET S == {poll.snap[k] : k \in DOMAIN poll.snap}
                  out == {id \in S : Claims(id) /\ (id \in Closes => id \in open)}
              IN  handed' = handed \cup [id : out \cap Command, from : {peer.bound}]
        BY <3>2 DEF Deliver
      <4> QED
        BY <4>1
    <3> QED
      BY <3>1, <3>2
  <2>2. Claims(d.id)
    BY <2>1
  <2> QED
    BY <2>2 DEF Claims
<1>2. Restart => Under
  BY DEF Restart
<1>3. UNCHANGED handed => Under
  OBVIOUS
<1>4. [Next]_vars => Deliver \/ Restart \/ UNCHANGED handed
  BY DEF Next, Grant, CleanUp, Retire, BeginAuthorize, CallStep, Authorize,
       Publish, ReserveExec, PublishExec, AbortReservation, FinishOperation, TakeResult,
       CallerAbandons, Reap, Abandon, Age, BeginPoll, StoreResult, Bind, RetireInstance, vars
<1>5. [Next]_vars => [Under]_vars
  BY <1>1, <1>2, <1>3, <1>4
<1> QED
  BY <1>5, PTL DEF Spec, DeliveredUnderLease

(* A result is kept only from an instance this daemon handed the command   *)
(* to: the seal of a command that awaits its result names it.              *)
THEOREM FromReceiver == Spec => AnswerFromReceiver
<1> DEFINE Answered ==
      \A c \in Command :
        broker'.result[c] = "stored" /\ broker.result[c] # "stored"
          => \E r \in wire \ wire' : r.id = c /\ [id |-> c, from |-> r.from] \in handed
<1>1. ASSUME NEW r \in wire, StoreResult(r), Inv PROVE Answered
  <2> SUFFICES ASSUME NEW c \in Command,
                      broker'.result[c] = "stored", broker.result[c] # "stored"
               PROVE  \E q \in wire \ wire' : q.id = c /\ [id |-> c, from |-> q.from] \in handed
    OBVIOUS
  <2>1. ~FencedOff(r) /\ Known(r.id) /\ r.id = c
    <3>1. broker' # broker
      OBVIOUS
    <3>2. broker' # Drop(broker, r.id)
      BY <1>1, Start, DropMoves, ZenonT(40) DEF Moves
    <3>3. /\ ~FencedOff(r) /\ Known(r.id) /\ r.id \in Command
          /\ broker' = [broker EXCEPT !.row[r.id] = "none", !.result[r.id] = "stored"]
      BY <1>1, <3>1, <3>2 DEF StoreResult
    <3>4. broker'.result = [broker.result EXCEPT ![r.id] = "stored"]
      BY <1>1, <3>3, Start DEF BrokerOK, Fields
    <3> QED
      BY <1>1, <3>3, <3>4, Start, Ids DEF BrokerOK
  <2>2. broker.seal[c] = r.from
    BY <1>1, <2>1, Start, Ids DEF FencedOff, Known, BooksOK
  <2>3. [id |-> c, from |-> r.from] \in handed
    BY <1>1, <2>1, <2>2, Start, Ids DEF Posts, Outlived
  <2> QED
    BY <1>1, <2>1, <2>3 DEF StoreResult
<1>2. ASSUME Inv, Moves(broker, broker') PROVE Answered
  BY <1>2 DEF Moves
<1>3. Restart => Answered
  BY Ids DEF Restart, Empty
<1>4. UNCHANGED broker => Answered
  OBVIOUS
<1> HIDE DEF Answered
<1>5. ASSUME Inv, [Next]_vars PROVE Answered
  <2>1. ASSUME NEW r \in wire, StoreResult(r) PROVE Answered
    BY <1>1, <1>5, <2>1
  <2>2. CASE Restart
    BY <1>3, <2>2
  <2>3. CASE CleanUp \/ BeginPoll \/ Deliver \/ RetireInstance
    BY <1>2, <1>5, <2>3, CleanUpKeeps, BeginPollKeeps, DeliverKeeps, RetireInstanceKeeps DEF Keeps
  <2>4. ASSUME NEW c \in Command, Publish(c) \/ ReserveExec(c) \/ PublishExec(c)
                                 \/ TakeResult(c) \/ Abandon(c)
        PROVE  Answered
    BY <1>2, <1>5, <2>4, PublishKeeps, ReserveExecKeeps, PublishExecKeeps, TakeResultKeeps,
       AbandonKeeps DEF Keeps
  <2>5. CASE UNCHANGED broker
    BY <1>4, <2>5
  <2> QED
    BY <1>5, <2>1, <2>2, <2>3, <2>4, <2>5
       DEF Next, Grant, Retire, BeginAuthorize, CallStep, Authorize, AbortReservation,
           FinishOperation, CallerAbandons, Reap, Age, Bind, vars
<1>6. Inv /\ [Next]_vars => [Answered]_vars
  BY <1>5
<1> QED
  BY <1>6, BooksSafety, PTL DEF Spec, AnswerFromReceiver, Answered

-----------------------------------------------------------------------------
(* What the queue holds.                                                   *)
Brokers == [queue : Seq(Id), reserved : SUBSET Exec,
            row : [Id -> {"none", "queued", "delivered"}],
            enqueued : SUBSET Id, owner : SUBSET Id,
            seal : [Id -> Instance \cup {None}],
            result : [Id -> {"none", "stored", "discarded"}]]

(* A command waits in the queue from its call to its delivery or its end,  *)
(* and until it is delivered nobody has been handed it.                    *)
Life ==
  \A c \in Command :
    /\ call[c].pc # "over" =>
         /\ broker.row[c] = "none" /\ broker.result[c] = "none"
         /\ c \notin broker.enqueued \cup Queued(broker) /\ ~HandedOut(c)
    /\ c \in Queued(broker) =>
         /\ c \in broker.enqueued /\ broker.row[c] = "queued" /\ broker.result[c] = "none"
         /\ fate[c] = "accepted"
    /\ broker.row[c] = "queued" => ~HandedOut(c)

QInv == Inv /\ QueueTypeOK /\ RoomKept /\ Life /\ DroppedNeverRan

(* How long the queue is without the closes, and what a change of the      *)
(* books leaves that queues no command.                                    *)
Rest(b) == Len(Without(b.queue, Closes))
HasRoom(b) == Rest(b) + Cardinality(b.reserved) <= MaxQueue
Sheds(b, b2) ==
  /\ b2 \in Brokers
  /\ HasRoom(b) => HasRoom(b2)
  /\ \A c \in Command :
       /\ c \in Queued(b2) =>
            /\ c \in Queued(b) /\ b2.row[c] = b.row[c] /\ b2.result[c] = b.result[c]
            /\ c \in b.enqueued => c \in b2.enqueued
       /\ c \in b2.enqueued => c \in b.enqueued
       /\ b2.row[c] \in {b.row[c], "none"}
       /\ \/ b2.result[c] \in {b.result[c], "none"}
          \/ b2.result[c] = "discarded" /\ c \in Queued(b) /\ c \notin Queued(b2)

(* The lemmas about Without, for a queue of ids.                           *)
LEMMA QueueHolds ==
  ASSUME NEW q \in Seq(Id), NEW S
  PROVE  /\ Without(q, S) \in Seq(Id)
         /\ {Without(q, S)[k] : k \in DOMAIN Without(q, S)} = {q[k] : k \in DOMAIN q} \ S
         /\ Len(Without(q, S)) \in Nat /\ Len(Without(q, S)) <= Len(q) /\ Len(q) \in Nat
         /\ Len(Without(Without(q, S), Closes)) <= Len(Without(q, Closes))
<1>1. Without(q, S) \in Seq(Id)
  BY WithoutHolds
<1>2. Entries(Without(q, S)) = Entries(q) \ S /\ Len(Without(q, S)) <= Len(q)
  BY WithoutHolds
<1>3. Len(Without(Without(q, S), Closes)) <= Len(Without(q, Closes))
  BY WithoutTwice
<1> QED BY <1>1, <1>2, <1>3 DEF Entries

(* The slots promised are of commands, so there are finitely many.         *)
LEMMA ReservedFinite ==
  ASSUME NEW b \in Brokers
  PROVE  IsFiniteSet(b.reserved) /\ Cardinality(b.reserved) \in Nat
<1>1. 1 \in Int /\ MaxCommand \in Int
  BY CommandQueueAssumption
<1>2. IsFiniteSet(1 .. MaxCommand)
  BY <1>1, FS_Interval
<1>3. b.reserved \subseteq 1 .. MaxCommand
  BY CommandQueueAssumption DEF Brokers, Command
<1> QED BY <1>2, <1>3, FS_Subset, FS_CardinalityType

(* A queue that does not grow keeps its room.                              *)
LEMMA RoomStays ==
  ASSUME NEW b \in Brokers, NEW b2 \in Brokers,
         Cardinality(b2.reserved) <= Cardinality(b.reserved), Rest(b2) <= Rest(b)
  PROVE  HasRoom(b) => HasRoom(b2)
<1>1. Rest(b) \in Nat /\ Rest(b2) \in Nat
  BY QueueHolds DEF Rest, Brokers
<1>2. Cardinality(b.reserved) \in Nat /\ Cardinality(b2.reserved) \in Nat /\ MaxQueue \in Nat
  BY ReservedFinite, CommandQueueAssumption
<1> QED BY <1>1, <1>2 DEF HasRoom

(* The operations on the books, one by one.                                *)
LEMMA ForgetSheds ==
  ASSUME NEW b \in Brokers, NEW S, S \cap Queued(b) \cap Command = {}
  PROVE  Sheds(b, Forget(b, S)) /\ Forget(b, S).queue = b.queue
<1> DEFINE b2 == Forget(b, S)
<1>1. /\ b2 \in Brokers
      /\ b2.queue = b.queue /\ b2.reserved = b.reserved /\ b2.enqueued = b.enqueued \ S
      /\ b2.row = [id \in Id |-> IF id \in S THEN "none" ELSE b.row[id]]
      /\ b2.result = b.result
  BY DEF Brokers, Forget
<1>2. Queued(b2) = Queued(b) /\ Rest(b2) = Rest(b)
  BY <1>1 DEF Queued, Rest
<1>3. Rest(b) \in Nat
  BY QueueHolds DEF Rest, Brokers
<1>4. HasRoom(b) => HasRoom(b2)
  BY <1>1, <1>2, <1>3, ReservedFinite, RoomStays
<1> HIDE DEF b2
<1> QED
  BY <1>1, <1>2, <1>4, Ids DEF Sheds, b2

(* Whatever is taken out of the queue.                                     *)
LEMMA DiscardSheds ==
  ASSUME NEW b \in Brokers, NEW S \in SUBSET Queued(b)
  PROVE  /\ Sheds(b, Discard(b, S)) /\ Discard(b, S).queue = Without(b.queue, S)
         /\ Queued(Discard(b, S)) = Queued(b) \ S
<1> DEFINE b2 == Discard(b, S)
<1>1. /\ Without(b.queue, S) \in Seq(Id)
      /\ {Without(b.queue, S)[k] : k \in DOMAIN Without(b.queue, S)} = Queued(b) \ S
      /\ Len(Without(Without(b.queue, S), Closes)) <= Len(Without(b.queue, Closes))
  BY QueueHolds DEF Brokers, Queued
<1>2. /\ b2 \in Brokers
      /\ b2.queue = Without(b.queue, S) /\ b2.reserved = b.reserved
      /\ b2.enqueued = b.enqueued \ S
      /\ b2.row = [id \in Id |-> IF id \in S THEN "none" ELSE b.row[id]]
      /\ b2.result = [id \in Id |-> IF id \in S \cap Command /\ b.result[id] = "none"
                                    THEN "discarded" ELSE b.result[id]]
  BY <1>1, ZenonT(40) DEF Brokers, Discard, Forget
<1> HIDE DEF b2
<1>3. Queued(b2) = Queued(b) \ S /\ Rest(b2) <= Rest(b)
  BY <1>1, <1>2 DEF Queued, Rest
<1>4. HasRoom(b) => HasRoom(b2)
  BY <1>2, <1>3, ReservedFinite, RoomStays
<1> QED
  BY <1>4, <1>2, <1>3, Ids DEF Sheds, b2

LEMMA DropSheds ==
  ASSUME NEW b \in Brokers, NEW i \in Id, i \notin Queued(b) \cap Command
  PROVE  Sheds(b, Drop(b, i))
<1> DEFINE b2 == Drop(b, i)
<1>1. /\ b2 \in Brokers
      /\ b2.queue = b.queue /\ b2.reserved = b.reserved /\ b2.enqueued = b.enqueued \ {i}
      /\ b2.row = [b.row EXCEPT ![i] = "none"]
      /\ b2.result = [b.result EXCEPT ![i] = "none"]
  BY DEF Brokers, Drop
<1>2. Queued(b2) = Queued(b) /\ Rest(b2) = Rest(b)
  BY <1>1 DEF Queued, Rest
<1>3. Rest(b) \in Nat /\ b.row \in [Id -> {"none", "queued", "delivered"}]
      /\ b.result \in [Id -> {"none", "stored", "discarded"}]
  BY QueueHolds DEF Rest, Brokers
<1>4. HasRoom(b) => HasRoom(b2)
  BY <1>1, <1>2, <1>3, ReservedFinite, RoomStays
<1> HIDE DEF b2
<1> QED
  BY <1>1, <1>2, <1>3, <1>4, Ids DEF Sheds, b2

LEMMA UnqueueSheds ==
  ASSUME NEW b \in Brokers, NEW c \in Command
  PROVE  Sheds(b, Unqueue(b, c)) /\ Queued(Unqueue(b, c)) = Queued(b) \ {c}
<1> DEFINE b2 == Unqueue(b, c)
           q == Without(b.queue, {c})
<1>1. /\ q \in Seq(Id) /\ {q[k] : k \in DOMAIN q} = Queued(b) \ {c}
      /\ Len(Without(q, Closes)) <= Len(Without(b.queue, Closes))
  BY QueueHolds DEF Brokers, Queued
<1>2. /\ b2 \in Brokers
      /\ b2.queue = q /\ b2.reserved = b.reserved
      /\ b2.enqueued = b.enqueued \ {c}
      /\ b2.row = [id \in Id |-> IF id \in {c} THEN "none" ELSE b.row[id]]
      /\ b2.result = [b.result EXCEPT ![c] = "none"]
  BY <1>1, ZenonT(40) DEF Brokers, Unqueue, Forget
<1> HIDE DEF b2, q
<1>3. Queued(b2) = Queued(b) \ {c} /\ Rest(b2) <= Rest(b)
  <2>1. Queued(b2) = {q[k] : k \in DOMAIN q}
    BY <1>2 DEF Queued
  <2>2. Rest(b2) = Len(Without(q, Closes)) /\ Rest(b) = Len(Without(b.queue, Closes))
    BY <1>2 DEF Rest
  <2> QED BY <1>1, <2>1, <2>2
<1>4. b.result \in [Id -> {"none", "stored", "discarded"}]
  BY DEF Brokers
<1>5. ASSUME NEW d \in Command
      PROVE  /\ b2.row[d] = IF d = c THEN "none" ELSE b.row[d]
             /\ b2.result[d] = IF d = c THEN "none" ELSE b.result[d]
             /\ d \in Queued(b2) => d \in Queued(b) /\ d # c
             /\ d \in b2.enqueued <=> d \in b.enqueued /\ d # c
  BY <1>2, <1>3, <1>4, Ids
<1>6. HasRoom(b) => HasRoom(b2)
  BY <1>2, <1>3, ReservedFinite, RoomStays
<1> QED
  BY <1>2, <1>3, <1>5, <1>6 DEF Sheds, b2

LEMMA ShedsTwice ==
  ASSUME NEW b, NEW b2, NEW b3, Sheds(b, b2), Sheds(b2, b3)
  PROVE  Sheds(b, b3)
BY DEF Sheds

(* Something joins the queue.                                              *)
LEMMA QueuedMore ==
  ASSUME NEW b, NEW b2, NEW i \in Id, b.queue \in Seq(Id), b2.queue = Append(b.queue, i)
  PROVE  /\ b2.queue \in Seq(Id) /\ Queued(b2) = Queued(b) \cup {i}
         /\ Rest(b) \in Nat
         /\ Rest(b2) = IF i \in Closes THEN Rest(b) ELSE Rest(b) + 1
<1>1. Entries(Append(b.queue, i)) = Entries(b.queue) \cup {i}
  BY EntriesAppend
<1>2. Without(Append(b.queue, i), Closes)
        = IF i \in Closes THEN Without(b.queue, Closes)
          ELSE Append(Without(b.queue, Closes), i)
  BY WithoutAppend, ZenonT(40)
<1>3. Without(b.queue, Closes) \in Seq(Id)
  BY QueueHolds
<1>4. Len(Append(Without(b.queue, Closes), i)) = Len(Without(b.queue, Closes)) + 1
  BY <1>3
<1>5. Append(b.queue, i) \in Seq(Id)
  OBVIOUS
<1> QED BY <1>1, <1>2, <1>3, <1>4, <1>5, SMTT(30) DEF Entries, Queued, Rest

-----------------------------------------------------------------------------
(* The state is typed, part by part.                                       *)
HeldLeases == [active : Lease \cup {None}, releasing : Lease \cup {None},
               pending : SUBSET Command, committed : SUBSET Command, pins : SUBSET Timed]
HeldCalls == [pc : {"new", "authorizing", "authorized", "auditing",
                    "aborting", "stranded", "over"},
              lease : Lease \cup {None}, expects : Instance \cup {None}, stale : BOOLEAN]
Peers == [bound : Instance \cup {None}, last : Instance \cup {None}, retired : SUBSET Instance]
Polls == [pc : {"idle", "snapped"}, snap : Seq(Id)]
Books ==
  /\ wire \subseteq [id : Id, from : Instance, retry : BOOLEAN]
  /\ finishing \subseteq Command
  /\ handed \subseteq Delivery
Marks ==
  /\ age \in [Command -> 0 .. 2]
  /\ fate \in [Command -> {"none", "accepted", "dropped", "ran"}]
  /\ granted \in 0 .. MaxLease /\ restarts \in 0 .. MaxRestart

LEMMA Typed ==
  QueueTypeOK <=> /\ lease \in HeldLeases /\ call \in [Command -> HeldCalls]
                  /\ broker \in Brokers /\ peer \in Peers /\ poll \in Polls
                  /\ Books /\ Marks
BY DEF QueueTypeOK, HeldLeases, HeldCalls, Brokers, Peers, Polls, Books, Marks

LEMMA TypedThen ==
  QueueTypeOK' <=> /\ lease' \in HeldLeases /\ call' \in [Command -> HeldCalls]
                   /\ broker' \in Brokers /\ peer' \in Peers /\ poll' \in Polls
                   /\ Books' /\ Marks'
BY DEF QueueTypeOK, HeldLeases, HeldCalls, Brokers, Peers, Polls, Books, Marks

LEMMA QStart ==
  ASSUME QInv
  PROVE  /\ lease \in HeldLeases /\ call \in [Command -> HeldCalls]
         /\ broker \in Brokers /\ peer \in Peers /\ poll \in Polls
         /\ Books /\ Marks
         /\ Queued(broker) \subseteq Id
         /\ Inv /\ Life /\ DroppedNeverRan /\ RoomKept
<1>1. broker \in Brokers
  BY Typed DEF QInv
<1>2. Queued(broker) \subseteq Id
  BY <1>1 DEF Queued, Brokers
<1> QED BY <1>1, <1>2, Typed DEF QInv

LEMMA Reserved ==
  ASSUME NEW b \in Brokers, NEW c \in Command
  PROVE  /\ Cardinality(b.reserved) \in Nat
         /\ Cardinality(b.reserved \cup {c}) <= Cardinality(b.reserved) + 1
         /\ Cardinality(b.reserved \cup {c}) \in Nat
         /\ Cardinality(b.reserved \ {c}) <= Cardinality(b.reserved)
         /\ Cardinality(b.reserved \ {c}) \in Nat
<1>3. IsFiniteSet(b.reserved) /\ Cardinality(b.reserved) \in Nat
  BY ReservedFinite
<1>4. /\ IsFiniteSet(b.reserved \cup {c})
      /\ Cardinality(b.reserved \cup {c})
           = IF c \in b.reserved THEN Cardinality(b.reserved) ELSE Cardinality(b.reserved) + 1
  BY <1>3, FS_AddElement
<1>5. /\ IsFiniteSet(b.reserved \ {c})
      /\ Cardinality(b.reserved \ {c})
           = IF c \in b.reserved THEN Cardinality(b.reserved) - 1 ELSE Cardinality(b.reserved)
  BY <1>3, FS_RemoveElement
<1>6. Cardinality(b.reserved \cup {c}) \in Nat /\ Cardinality(b.reserved \ {c}) \in Nat
  BY <1>4, <1>5, FS_CardinalityType
<1> QED BY <1>3, <1>4, <1>5, <1>6

LEMMA SameSheds ==
  ASSUME NEW b \in Brokers PROVE Sheds(b, b)
BY DEF Sheds

(* A step that hands out nothing and queues nothing new: what leaves the   *)
(* queue is dropped, and was never delivered.                              *)
LEMMA ShedsKeeps ==
  ASSUME QInv, Sheds(broker, broker'), UNCHANGED handed,
         \A c \in Command : call'[c].pc # "over" => call[c].pc # "over",
         \A c \in Command : \/ fate'[c] = fate[c]
                            \/ /\ c \notin Queued(broker')
                               /\ fate'[c] = "dropped" => ~HandedOut(c)
  PROVE  RoomKept' /\ Life' /\ DroppedNeverRan'
<1>1. RoomKept'
  BY QStart DEF RoomKept, Sheds, HasRoom, Rest
<1>2. ASSUME NEW c \in Command
      PROVE  HandedOut(c)' <=> HandedOut(c)
  BY DEF HandedOut
<1>3. ASSUME NEW c \in Command
      PROVE  /\ c \in Queued(broker') => fate'[c] = fate[c]
             /\ fate'[c] = "dropped" => ~HandedOut(c)
             /\ broker'.result[c] = "discarded" => ~HandedOut(c)
  BY QStart DEF Sheds, DroppedNeverRan, Life
<1>4. Life'
  BY <1>2, <1>3, QStart DEF Sheds, Life
<1>5. DroppedNeverRan'
  BY <1>2, <1>3 DEF DroppedNeverRan
<1> QED BY <1>1, <1>4, <1>5

(* The call goes on to pc.                                                 *)
LEMMA EndsTyped ==
  ASSUME call \in [Command -> HeldCalls], NEW c \in Command,
         NEW pc \in {"over", "stranded", "aborting", "authorized", "auditing"},
         Go(c, pc) \/ Ends(c, pc)
  PROVE  /\ call' \in [Command -> HeldCalls]
         /\ call'[c].pc = pc /\ \A d \in Command \ {c} : call'[d] = call[d]
<1>1. call[c] \in HeldCalls
  OBVIOUS
<1>2. CASE Go(c, pc)
  <2>1. [call[c] EXCEPT !.pc = pc] \in HeldCalls /\ [call[c] EXCEPT !.pc = pc].pc = pc
    BY <1>1 DEF HeldCalls
  <2> QED BY <1>2, <2>1 DEF Go
<1>3. CASE Ends(c, pc)
  <2> DEFINE ended == [NewCall EXCEPT !.pc = pc, !.lease = call[c].lease]
  <2>1. ended \in HeldCalls /\ ended.pc = pc
    BY <1>1 DEF NewCall, None, HeldCalls
  <2> QED BY <1>3, <2>1 DEF Ends
<1> QED BY <1>2, <1>3

-----------------------------------------------------------------------------
(* Every action keeps QInv; that it keeps Inv is known.                    *)
QKept == QueueTypeOK' /\ RoomKept' /\ Life' /\ DroppedNeverRan'

(* A step that leaves the books, the deliveries and the fates alone.       *)
LEMMA QuietKeeps ==
  ASSUME QInv, UNCHANGED <<broker, handed, fate>>,
         \A c \in Command : call'[c].pc # "over" => call[c].pc # "over"
  PROVE  RoomKept' /\ Life' /\ DroppedNeverRan'
BY QStart, SameSheds, ShedsKeeps

LEMMA GrantQueues == ASSUME QInv, Grant PROVE QKept
<1> USE DEF Grant
<1>1. granted + 1 \in Lease /\ granted + 1 \in 0 .. MaxLease
  BY QStart, CommandQueueAssumption DEF Marks, Lease
<1>2. lease' \in HeldLeases
  BY <1>1 DEF HeldLeases, NoLease, None
<1>3. Books' /\ Marks'
  BY <1>1, QStart DEF Books, Marks
<1>4. QueueTypeOK'
  BY <1>2, <1>3, QStart, TypedThen
<1> QED BY <1>4, QuietKeeps DEF QKept

LEMMA RetireQueues == ASSUME QInv, NEW asked \in BOOLEAN, Retire(asked) PROVE QKept
<1> USE DEF Retire
<1>1. lease' \in HeldLeases
  BY QStart DEF HeldLeases, None
<1>2. Books' /\ Marks'
  BY QStart DEF Books, Marks
<1>3. QueueTypeOK'
  BY <1>1, <1>2, QStart, TypedThen
<1> QED BY <1>3, QuietKeeps DEF QKept

LEMMA BeginAuthorizeQueues ==
  ASSUME QInv, NEW c \in Command, BeginAuthorize(c) PROVE QKept
<1> USE DEF BeginAuthorize
<1>1. /\ call' \in [Command -> HeldCalls]
      /\ \A d \in Command : call'[d].pc # "over" => call[d].pc # "over"
  BY QStart DEF HeldLeases, HeldCalls, Peers, None
<1>2. Books' /\ Marks'
  BY QStart DEF Books, Marks
<1>3. QueueTypeOK'
  BY <1>1, <1>2, QStart, TypedThen
<1> QED BY <1>1, <1>3, QuietKeeps DEF QKept

(* The call goes on, and whatever becomes of it, it was never handed out.  *)
LEMMA CallQueues ==
  ASSUME QInv, NEW c \in Command, call[c].pc # "over", Sheds(broker, broker'),
         lease' \in HeldLeases,
         UNCHANGED <<peer, poll, wire, finishing, age, handed, granted, restarts>>,
         NEW pc \in {"over", "stranded", "aborting", "authorized", "auditing"},
         Go(c, pc) \/ Ends(c, pc),
         UNCHANGED fate \/ Fate(c, "dropped")
  PROVE  QKept
<1>1. call' \in [Command -> HeldCalls] /\ \A d \in Command \ {c} : call'[d] = call[d]
  BY QStart, EndsTyped
<1>2. fate' \in [Command -> {"none", "accepted", "dropped", "ran"}]
      /\ \A d \in Command \ {c} : fate'[d] = fate[d]
  BY QStart DEF Fate, Marks
<1>3. Books' /\ Marks'
  BY <1>2, QStart DEF Books, Marks
<1>4. QueueTypeOK'
  BY <1>1, <1>3, QStart, TypedThen DEF Sheds
<1>5. c \notin Queued(broker') /\ ~HandedOut(c)
  BY QStart DEF Life, Sheds
<1>6. \A d \in Command : call'[d].pc # "over" => call[d].pc # "over"
  BY <1>1
<1>7. \A d \in Command : \/ fate'[d] = fate[d]
                         \/ d \notin Queued(broker') /\ ~HandedOut(d)
  BY <1>2, <1>5
<1>8. RoomKept' /\ Life' /\ DroppedNeverRan'
  BY <1>6, <1>7, ShedsKeeps
<1> QED BY <1>4, <1>8 DEF QKept

LEMMA AuthorizeQueues == ASSUME QInv, NEW c \in Command, Authorize(c) PROVE QKept
<1> USE DEF Authorize
<1>1. Sheds(broker, broker')
  BY QStart, SameSheds
<1>2. [lease EXCEPT !.pending = @ \cup {c}] \in HeldLeases
  BY QStart DEF HeldLeases
<1> QED BY <1>1, <1>2, QStart, CallQueues DEF Refuses

LEMMA AbortQueues == ASSUME QInv, NEW c \in Command, AbortReservation(c) PROVE QKept
<1> USE DEF AbortReservation
<1>1. Sheds(broker, broker')
  BY QStart, SameSheds
<1>2. [lease EXCEPT !.pending = @ \ {c}] \in HeldLeases
  BY QStart DEF HeldLeases
<1> QED BY <1>1, <1>2, QStart, CallQueues DEF Refuses

LEMMA CommitTyped ==
  ASSUME QInv, NEW c \in Command PROVE Commit(c) \in HeldLeases
BY QStart DEF Commit, HeldLeases

(* A reservation made where there is room, or given back.                 *)
LEMMA ReserveSheds ==
  ASSUME NEW b \in Brokers, NEW c \in Exec, Load(b) < MaxQueue
  PROVE  Sheds(b, Reserve(b, c))
<1> DEFINE b2 == Reserve(b, c)
<1>1. /\ b2 \in Brokers /\ b2.queue = b.queue /\ b2.row = b.row
      /\ b2.enqueued = b.enqueued /\ b2.result = b.result
      /\ b2.reserved = b.reserved \cup {c}
  BY DEF Reserve, Brokers
<1>2. Rest(b2) \in Nat /\ Len(b.queue) \in Nat /\ Rest(b2) <= Len(b.queue)
  BY <1>1, QueueHolds DEF Rest, Brokers
<1>3. c \in Command /\ MaxQueue \in Nat
  BY CommandQueueAssumption
<1>4. /\ Cardinality(b2.reserved) \in Nat /\ Cardinality(b.reserved) \in Nat
      /\ Cardinality(b2.reserved) <= Cardinality(b.reserved) + 1
  BY <1>1, <1>3, Reserved
<1>5. HasRoom(b2)
  BY <1>2, <1>3, <1>4 DEF HasRoom, Load
<1> HIDE DEF b2
<1> QED BY <1>1, <1>5 DEF Sheds, Queued, b2

LEMMA UnreserveSheds ==
  ASSUME NEW b \in Brokers, NEW c \in Command
  PROVE  /\ Sheds(b, Unreserve(b, c)) /\ Unreserve(b, c) \in Brokers
         /\ Queued(Unreserve(b, c)) = Queued(b)
<1> DEFINE b2 == Unreserve(b, c)
<1>1. /\ b2 \in Brokers /\ b2.queue = b.queue /\ b2.row = b.row
      /\ b2.enqueued = b.enqueued /\ b2.result = b.result
      /\ b2.reserved = b.reserved \ {c}
  BY DEF Unreserve, Brokers
<1>2. Cardinality(b2.reserved) <= Cardinality(b.reserved)
  BY <1>1, Reserved
<1>3. Rest(b2) <= Rest(b)
  BY <1>1, QueueHolds DEF Rest, Brokers
<1>4. HasRoom(b) => HasRoom(b2)
  BY <1>1, <1>2, <1>3, RoomStays
<1> HIDE DEF b2
<1> QED BY <1>1, <1>4 DEF Sheds, Queued, b2

(* A command joins the queue, once, and nobody has been handed it.         *)
LEMMA EnqueuesQueues ==
  ASSUME QInv, NEW c \in Command, NEW b \in Brokers, Sheds(broker, b),
         call[c].pc # "over", Target, Load(b) < MaxQueue, Enqueues(c, b),
         UNCHANGED <<peer, poll, wire, finishing, age, handed, granted, restarts>>
  PROVE  QKept
<1>1. peer.bound \in Instance \cup {None} /\ c \in Id
  BY QStart, Ids DEF Peers
<1>2. /\ broker'.queue = Append(b.queue, c) /\ broker'.reserved = b.reserved
      /\ broker'.row = [b.row EXCEPT ![c] = "queued"] /\ broker'.result = b.result
      /\ broker'.enqueued = b.enqueued \cup {c}
      /\ broker'.owner = b.owner \cup {c}
      /\ broker'.seal = [b.seal EXCEPT ![c] = peer.bound]
      /\ broker' = [b EXCEPT !.queue = broker'.queue, !.row = broker'.row,
                             !.seal = broker'.seal, !.enqueued = broker'.enqueued,
                             !.owner = broker'.owner]
  BY DEF Enqueues, Append2, Brokers
<1>3. /\ broker'.queue \in Seq(Id) /\ Queued(broker') = Queued(b) \cup {c}
      /\ Rest(b) \in Nat
      /\ Rest(broker') = IF c \in Closes THEN Rest(b) ELSE Rest(b) + 1
  BY <1>1, <1>2, QueuedMore DEF Brokers
<1>4. broker' \in Brokers
  BY <1>1, <1>2, <1>3, SMTT(30) DEF Brokers
<1>5. RoomKept'
  <2>1. Rest(b) <= Len(b.queue) /\ Len(b.queue) \in Nat
    BY QueueHolds DEF Rest, Brokers
  <2>2. Cardinality(b.reserved) \in Nat /\ MaxQueue \in Nat
    BY ReservedFinite, CommandQueueAssumption
  <2>3. Rest(broker') <= Len(b.queue) + 1 /\ Rest(broker') \in Nat
    BY <1>3, <2>1
  <2>4. broker'.reserved = b.reserved
    BY <1>2
  <2>5. Len(b.queue) + Cardinality(b.reserved) < MaxQueue
    BY DEF Load
  <2>6. Rest(broker') + Cardinality(broker'.reserved) <= MaxQueue
    BY <2>1, <2>2, <2>3, <2>4, <2>5
  <2> QED BY <2>6 DEF RoomKept, Rest
<1>6. /\ call' \in [Command -> HeldCalls] /\ call'[c].pc = "over"
      /\ \A d \in Command \ {c} : call'[d] = call[d]
  BY QStart, EndsTyped DEF Enqueues
<1>7. /\ fate' \in [Command -> {"none", "accepted", "dropped", "ran"}]
      /\ fate'[c] = "accepted" /\ \A d \in Command \ {c} : fate'[d] = fate[d]
  BY QStart DEF Enqueues, Fate, Marks
<1>8. Books' /\ Marks'
  BY <1>7, QStart DEF Books, Marks
<1>9. QueueTypeOK'
  BY <1>4, <1>6, <1>8, QStart, CommitTyped, TypedThen DEF Enqueues
<1>10. broker.row[c] = "none" /\ broker.result[c] = "none" /\ ~HandedOut(c)
  BY QStart DEF Life
<1>11. b.row[c] = "none" /\ b.result[c] = "none"
  BY <1>10, QStart DEF Sheds, Life
<1>12. ASSUME NEW d \in Command
       PROVE  /\ HandedOut(d)' <=> HandedOut(d)
              /\ broker'.row[d] = IF d = c THEN "queued" ELSE b.row[d]
  BY <1>2, Ids DEF HandedOut, Brokers
<1>13. ASSUME NEW d \in Command \ {c}
       PROVE  /\ call'[d].pc = call[d].pc /\ fate'[d] = fate[d]
              /\ d \in broker'.enqueued <=> d \in b.enqueued
              /\ d \in Queued(broker') <=> d \in Queued(b)
  BY <1>2, <1>3, <1>6, <1>7
<1>14. Life'
  <2>1. ASSUME NEW d \in Command
        PROVE  /\ call'[d].pc # "over" =>
                    /\ broker'.row[d] = "none" /\ broker'.result[d] = "none"
                    /\ d \notin broker'.enqueued \cup Queued(broker') /\ ~HandedOut(d)'
               /\ d \in Queued(broker') =>
                    /\ d \in broker'.enqueued /\ broker'.row[d] = "queued"
                    /\ broker'.result[d] = "none" /\ fate'[d] = "accepted"
               /\ broker'.row[d] = "queued" => ~HandedOut(d)'
    <3>1. CASE d = c
      BY <1>2, <1>6, <1>7, <1>10, <1>11, <1>12, <3>1
    <3>2. CASE d # c
      BY <1>2, <1>12, <1>13, <3>2, QStart DEF Sheds, Life
    <3> QED BY <3>1, <3>2
  <2> QED BY <2>1 DEF Life
<1>15. DroppedNeverRan'
  <2>1. ASSUME NEW d \in Command
        PROVE  fate'[d] = "dropped" \/ broker'.result[d] = "discarded" => ~HandedOut(d)'
    <3>1. CASE d = c
      BY <1>7, <1>2, <1>11, <3>1
    <3>2. CASE d # c
      BY <1>2, <1>12, <1>13, <3>2, QStart DEF Sheds, Life, DroppedNeverRan
    <3> QED BY <3>1, <3>2
  <2> QED BY <2>1 DEF DroppedNeverRan
<1> QED BY <1>5, <1>9, <1>14, <1>15 DEF QKept

LEMMA PublishQueues == ASSUME QInv, NEW c \in Command, Publish(c) PROVE QKept
<1> USE DEF Publish
<1>1. Sheds(broker, broker)
  BY QStart, SameSheds
<1>2. CASE Target /\ Load(broker) < MaxQueue /\ Enqueues(c, broker)
  BY <1>1, <1>2, QStart, EnqueuesQueues
<1>3. CASE Aborts(c, broker)
  BY <1>1, <1>3, QStart, CallQueues DEF Aborts
<1> QED BY <1>2, <1>3

LEMMA ReserveExecQueues == ASSUME QInv, NEW c \in Command, ReserveExec(c) PROVE QKept
<1> USE DEF ReserveExec
<1>1. CASE /\ Load(broker) < MaxQueue /\ broker' = Reserve(broker, c)
           /\ Go(c, "auditing") /\ UNCHANGED <<lease, fate>>
  <2>1. Sheds(broker, broker')
    BY <1>1, QStart, ReserveSheds
  <2> QED BY <1>1, <2>1, QStart, CallQueues
<1>2. CASE Aborts(c, broker)
  <2>1. Sheds(broker, broker')
    BY <1>2, QStart, SameSheds DEF Aborts
  <2> QED BY <1>2, <2>1, QStart, CallQueues DEF Aborts
<1> QED BY <1>1, <1>2

LEMMA PublishExecQueues == ASSUME QInv, NEW c \in Command, PublishExec(c) PROVE QKept
<1> DEFINE b == Unreserve(broker, c)
<1>1. Sheds(broker, b) /\ b \in Brokers
  BY QStart, UnreserveSheds
<1>2. call[c].pc = "auditing"
      /\ UNCHANGED <<peer, poll, wire, finishing, age, handed, granted, restarts>>
  BY DEF PublishExec
<1>3. CASE Aborts(c, b)
  BY <1>1, <1>2, <1>3, QStart, CallQueues DEF Aborts
<1>4. CASE Target /\ Load(b) < MaxQueue /\ Enqueues(c, b)
  <2> HIDE DEF b
  <2> QED BY <1>1, <1>2, <1>4, EnqueuesQueues
<1>5. CASE broker' = b /\ lease' = Commit(c) /\ Ends(c, "stranded") /\ Fate(c, "dropped")
  BY <1>1, <1>2, <1>5, CommitTyped, CallQueues
<1> QED BY <1>3, <1>4, <1>5 DEF PublishExec

LEMMA FinishOperationQueues == ASSUME QInv, NEW c \in Command, FinishOperation(c) PROVE QKept
<1> USE DEF FinishOperation
<1>1. lease' \in HeldLeases
  BY QStart DEF HeldLeases
<1>2. Books' /\ Marks'
  BY QStart DEF Books, Marks
<1>3. QueueTypeOK'
  BY <1>1, <1>2, QStart, TypedThen
<1> QED BY <1>3, QuietKeeps DEF QKept

LEMMA AgeQueues == ASSUME QInv, NEW c \in Command, Age(c) PROVE QKept
<1> USE DEF Age
<1>1. age' \in [Command -> 0 .. 2]
  BY QStart DEF Marks
<1>2. Books' /\ Marks'
  BY <1>1, QStart DEF Books, Marks
<1>3. QueueTypeOK'
  BY <1>2, QStart, TypedThen
<1> QED BY <1>3, QuietKeeps DEF QKept

LEMMA BindQueues == ASSUME QInv, Bind PROVE QKept
<1> USE DEF Bind
<1>1. peer' \in Peers
  <2>1. peer.last + 1 \in Instance
    BY QStart, CommandQueueAssumption DEF Peers, Instance, None
  <2> QED BY <2>1, QStart DEF Peers
<1>2. Books' /\ Marks'
  BY QStart DEF Books, Marks
<1>3. QueueTypeOK'
  BY <1>1, <1>2, QStart, TypedThen
<1> QED BY <1>3, QuietKeeps DEF QKept

(* A step that only changes the books, for the commands it finishes or the *)
(* fate it settles.                                                        *)
LEMMA BooksStepQueues ==
  ASSUME QInv, Sheds(broker, broker'),
         UNCHANGED <<lease, call, peer, age, handed, granted, restarts>>,
         poll' \in Polls, wire' \subseteq wire, finishing' \subseteq Command,
         fate' \in [Command -> {"none", "accepted", "dropped", "ran"}],
         \A c \in Command : \/ fate'[c] = fate[c]
                            \/ /\ c \notin Queued(broker')
                               /\ fate'[c] = "dropped" => ~HandedOut(c)
  PROVE  QKept
<1>1. Books' /\ Marks'
  BY QStart DEF Books, Marks
<1>2. QueueTypeOK'
  BY <1>1, QStart, TypedThen DEF Sheds
<1>3. RoomKept' /\ Life' /\ DroppedNeverRan'
  BY ShedsKeeps
<1> QED BY <1>2, <1>3 DEF QKept

LEMMA TakeResultQueues == ASSUME QInv, NEW c \in Command, TakeResult(c) PROVE QKept
<1> USE DEF TakeResult
<1>1. c \notin Queued(broker) /\ c \in Id
  BY QStart, Ids DEF Life
<1>2. Sheds(broker, broker')
  BY <1>1, QStart, DropSheds
<1>3. finishing' \subseteq Command
  BY QStart DEF Books, Owned
<1>4. broker.result[c] \in {"none", "stored", "discarded"}
  BY <1>1, QStart DEF Brokers
<1>5. ~HandedOut(c) \/ broker.result[c] = "stored"
  BY <1>4, QStart DEF DroppedNeverRan
<1>6. /\ fate' \in [Command -> {"none", "accepted", "dropped", "ran"}]
      /\ \A d \in Command \ {c} : fate'[d] = fate[d]
      /\ fate'[c] = "dropped" => ~HandedOut(c)
  BY <1>5, QStart DEF Fate, Marks
<1>7. c \notin Queued(broker')
  BY <1>1, <1>2 DEF Sheds
<1> QED BY <1>2, <1>3, <1>6, <1>7, QStart, BooksStepQueues

LEMMA ReleaseSheds ==
  ASSUME NEW b \in Brokers, NEW c \in Command, Load(b) < MaxQueue,
         peer.bound \in Instance \cup {None}
  PROVE  Sheds(b, Append2(b, Release(c)))
<1> DEFINE b2 == Append2(b, Release(c))
<1>1. Release(c) \in Id \ Command
  BY Ids
<1>2. /\ b2.queue = Append(b.queue, Release(c)) /\ b2.reserved = b.reserved
      /\ b2.row = [b.row EXCEPT ![Release(c)] = "queued"] /\ b2.result = b.result
      /\ b2.enqueued = b.enqueued \cup {Release(c)}
      /\ b2.owner = b.owner \cup {Release(c)}
      /\ b2.seal = [b.seal EXCEPT ![Release(c)] = peer.bound]
      /\ b2 = [b EXCEPT !.queue = b2.queue, !.row = b2.row, !.seal = b2.seal,
                        !.enqueued = b2.enqueued, !.owner = b2.owner]
  BY DEF Append2, Brokers
<1>3. /\ b2.queue \in Seq(Id) /\ Queued(b2) = Queued(b) \cup {Release(c)}
      /\ Rest(b) \in Nat
      /\ Rest(b2) = IF Release(c) \in Closes THEN Rest(b) ELSE Rest(b) + 1
  BY <1>1, <1>2, QueuedMore DEF Brokers
<1> HIDE DEF b2
<1>4. b2 \in Brokers
  <2>1. /\ b2.row \in [Id -> {"none", "queued", "delivered"}]
        /\ b2.seal \in [Id -> Instance \cup {None}]
        /\ b2.enqueued \in SUBSET Id /\ b2.owner \in SUBSET Id
    BY <1>1, <1>2 DEF Brokers
  <2> QED BY <1>2, <1>3, <2>1 DEF Brokers
<1>5. HasRoom(b2)
  <2>1. Rest(b) <= Len(b.queue) /\ Len(b.queue) \in Nat
    BY QueueHolds DEF Rest, Brokers
  <2>2. Cardinality(b.reserved) \in Nat /\ MaxQueue \in Nat
    BY ReservedFinite, CommandQueueAssumption
  <2>3. Rest(b2) <= Len(b.queue) + 1 /\ Rest(b2) \in Nat
    BY <1>3, <2>1
  <2>4. b2.reserved = b.reserved
    BY <1>2
  <2>5. Len(b.queue) + Cardinality(b.reserved) < MaxQueue
    BY DEF Load
  <2>6. Rest(b2) + Cardinality(b2.reserved) <= MaxQueue
    BY <2>1, <2>2, <2>3, <2>4, <2>5
  <2> QED BY <2>6 DEF HasRoom
<1>6. ASSUME NEW d \in Command
      PROVE  /\ b2.row[d] = b.row[d] /\ b2.result[d] = b.result[d]
             /\ d \in b2.enqueued <=> d \in b.enqueued
             /\ d \in Queued(b2) <=> d \in Queued(b)
  BY <1>1, <1>2, <1>3, Ids DEF Brokers
<1> QED BY <1>4, <1>5, <1>6 DEF Sheds, b2

LEMMA AbandonQueues == ASSUME QInv, NEW c \in Command, Abandon(c) PROVE QKept
<1>1. /\ finishing' \subseteq Command
      /\ UNCHANGED <<lease, call, peer, poll, wire, age, handed, granted, restarts>>
  BY QStart DEF Books, Abandon
<1>2. CASE broker.row[c] = "queued" /\ broker' = Unqueue(broker, c) /\ Fate(c, "dropped")
  <2>1. Sheds(broker, broker') /\ ~HandedOut(c)
    BY <1>2, QStart, UnqueueSheds DEF Life
  <2>2. c \notin Queued(broker')
    BY <1>2, QStart, UnqueueSheds
  <2>3. /\ fate' \in [Command -> {"none", "accepted", "dropped", "ran"}]
        /\ \A d \in Command \ {c} : fate'[d] = fate[d]
    BY <1>2, QStart DEF Fate, Marks
  <2> QED BY <1>1, <2>1, <2>2, <2>3, QStart, BooksStepQueues
<1>3. CASE /\ broker.row[c] = "delivered" /\ Fate(c, "ran")
           /\ broker' = IF MayRelease(c) THEN Append2(Forget(broker, {c}), Release(c))
                        ELSE Forget(broker, {c})
  <2> DEFINE f == Forget(broker, {c})
  <2>1. c \notin Queued(broker)
    BY <1>3, QStart DEF Life
  <2>2. Sheds(broker, f) /\ f.queue = broker.queue /\ f \in Brokers
    BY <2>1, QStart, ForgetSheds DEF Sheds
  <2>3. f.reserved = broker.reserved
    BY QStart DEF Forget, Brokers
  <2>4. Sheds(broker, broker')
    <3>1. CASE ~MayRelease(c)
      BY <1>3, <2>2, <3>1
    <3>2. CASE MayRelease(c)
      <4>1. Load(f) < MaxQueue
        BY <2>2, <2>3, <3>2 DEF MayRelease, Load
      <4>2. peer.bound \in Instance \cup {None}
        BY QStart DEF Peers
      <4> HIDE DEF f
      <4>3. Sheds(f, Append2(f, Release(c)))
        BY <2>2, <4>1, <4>2, ReleaseSheds
      <4> QED BY <1>3, <2>2, <3>2, <4>3, ShedsTwice DEF f
    <3> QED BY <3>1, <3>2
  <2>5. /\ fate' \in [Command -> {"none", "accepted", "dropped", "ran"}]
        /\ fate'[c] = "ran" /\ \A d \in Command \ {c} : fate'[d] = fate[d]
    BY <1>3, QStart DEF Fate, Marks
  <2>6. c \notin Queued(broker')
    BY <2>1, <2>4 DEF Sheds
  <2> QED BY <1>1, <2>4, <2>5, <2>6, QStart, BooksStepQueues
<1> QED BY <1>2, <1>3 DEF Abandon

LEMMA BeginPollQueues == ASSUME QInv, BeginPoll PROVE QKept
<1>1. PICK stale \in SUBSET Queued(broker) :
        /\ broker' = Discard(broker, stale)
        /\ finishing' = finishing \cup Owned(broker, stale)
        /\ poll' = IF Discard(broker, stale).queue = <<>> THEN NotPolling
                   ELSE [pc |-> "snapped", snap |-> Discard(broker, stale).queue]
  BY DEF BeginPoll
<1>2. Sheds(broker, broker')
  BY <1>1, QStart, DiscardSheds
<1>3. broker'.queue \in Seq(Id)
  BY <1>2 DEF Sheds, Brokers
<1>4. poll' \in Polls
  BY <1>1, <1>3 DEF Polls, NotPolling
<1>5. finishing' \subseteq Command
  BY <1>1, QStart DEF Books, Owned
<1> QED BY <1>2, <1>4, <1>5, QStart, BooksStepQueues DEF BeginPoll, Marks

LEMMA RetireInstanceQueues == ASSUME QInv, RetireInstance PROVE QKept
<1> USE DEF RetireInstance
<1>1. Sheds(broker, broker')
  BY QStart, DiscardSheds
<1>2. peer' \in Peers
  BY QStart DEF Peers, None
<1>3. finishing' \subseteq Command
  BY QStart DEF Books, Owned
<1>4. poll' \in Polls
  BY DEF Polls, NotPolling
<1>5. Books' /\ Marks'
  BY <1>3, QStart DEF Books, Marks
<1>6. QueueTypeOK'
  BY <1>1, <1>2, <1>4, <1>5, QStart, TypedThen DEF Sheds
<1> QED BY <1>1, <1>6, ShedsKeeps DEF QKept

(* A result of a command that still waits is fenced off: whoever was       *)
(* handed a command of its number is not the instance it is sealed for.    *)
LEMMA StoreResultQueues == ASSUME QInv, NEW r \in wire, StoreResult(r) PROVE QKept
<1> USE DEF StoreResult
<1>1. r.id \in Id /\ r.from \in Instance
  BY QStart DEF Books
<1>2. /\ finishing' \subseteq Command /\ wire' \subseteq wire /\ poll' \in Polls
      /\ fate \in [Command -> {"none", "accepted", "dropped", "ran"}]
  BY QStart DEF Books, Marks, Owned
<1>3. CASE UNCHANGED <<broker, finishing>>
  <2>1. Sheds(broker, broker')
    BY <1>3, QStart, SameSheds
  <2> QED BY <1>2, <2>1, BooksStepQueues
<1>4. CASE ~FencedOff(r)
  <2>1. r.id \notin Queued(broker) \cap Command
    <3> SUFFICES ASSUME r.id \in Command, r.id \in Queued(broker) PROVE FALSE
      OBVIOUS
    <3>1. r.id \in broker.enqueued /\ ~HandedOut(r.id)
      BY QStart DEF Life
    <3>2. Outlived(r.from)
      BY <3>1, QStart DEF Inv, Posts, HandedOut
    <3>3. broker.seal[r.id] # None /\ broker.seal[r.id] # r.from
      BY <1>1, <3>1, <3>2, QStart DEF Inv, BooksOK, Outlived
    <3> QED BY <1>4, <3>3 DEF FencedOff
  <2>2. CASE broker' = Drop(broker, r.id)
    <3>1. Sheds(broker, broker')
      BY <1>1, <2>1, <2>2, QStart, DropSheds
    <3> QED BY <1>2, <3>1, BooksStepQueues
  <2>3. CASE /\ Known(r.id) /\ r.id \in Command
             /\ broker' = [broker EXCEPT !.row[r.id] = "none", !.result[r.id] = "stored"]
    <3>1. /\ broker'.queue = broker.queue /\ broker'.reserved = broker.reserved
          /\ broker'.enqueued = broker.enqueued
          /\ broker'.row = [broker.row EXCEPT ![r.id] = "none"]
          /\ broker'.result = [broker.result EXCEPT ![r.id] = "stored"]
          /\ broker' \in Brokers
      BY <1>1, <2>3, QStart DEF Brokers
    <3>2. /\ RoomKept' /\ Queued(broker') = Queued(broker)
          /\ UNCHANGED <<call, fate, handed>>
      BY <3>1, QStart DEF RoomKept, Queued
    <3>3. call[r.id].pc = "over"
      BY <2>3, QStart DEF Life, Known
    <3>4. ASSUME NEW c \in Command
          PROVE  /\ broker'.row[c] = IF c = r.id THEN "none" ELSE broker.row[c]
                 /\ broker'.result[c] = IF c = r.id THEN "stored" ELSE broker.result[c]
                 /\ HandedOut(c)' <=> HandedOut(c)
      BY <3>1, <3>2, QStart, Ids DEF HandedOut, Brokers
    <3>5. Life'
      BY <2>1, <2>3, <3>1, <3>2, <3>3, <3>4, QStart DEF Life
    <3>6. DroppedNeverRan'
      BY <3>2, <3>4, QStart DEF DroppedNeverRan
    <3>7. Books' /\ Marks'
      BY <1>2, QStart DEF Books, Marks
    <3>8. QueueTypeOK'
      BY <3>1, <3>7, QStart, TypedThen
    <3> QED BY <3>2, <3>5, <3>6, <3>8 DEF QKept
  <2> QED BY <1>4, <2>2, <2>3, <1>3
<1> QED BY <1>3, <1>4

(* The end of a lease drops what its owner has in the queue, and may add a *)
(* close, which no room is asked for.                                      *)
LEMMA CloseSheds ==
  ASSUME NEW b \in Brokers, NEW l \in Lease, peer.bound \in Instance \cup {None}
  PROVE  Sheds(b, [b EXCEPT !.queue = Append(@, Close(l)), !.seal[Close(l)] = peer.bound,
                            !.enqueued = @ \cup {Close(l)}])
<1> DEFINE i == Close(l)
           b2 == [b EXCEPT !.queue = Append(@, Close(l)), !.seal[Close(l)] = peer.bound,
                           !.enqueued = @ \cup {Close(l)}]
<1>1. i \in Closes /\ i \in Id /\ i \notin Command
  BY CommandQueueAssumption, Ids DEF Closes, Close, Id, Lease
<1>2. /\ b2.queue = Append(b.queue, i) /\ b2.reserved = b.reserved
      /\ b2.row = b.row /\ b2.result = b.result /\ b2.owner = b.owner
      /\ b2.enqueued = b.enqueued \cup {i}
      /\ b2.seal = [b.seal EXCEPT ![i] = peer.bound]
      /\ b2 = [b EXCEPT !.queue = b2.queue, !.seal = b2.seal, !.enqueued = b2.enqueued]
  BY DEF Brokers
<1> HIDE DEF b2, i
<1>3. /\ b2.queue \in Seq(Id) /\ Queued(b2) = Queued(b) \cup {i} /\ Rest(b2) = Rest(b)
      /\ Rest(b) \in Nat
  <2>1. b.queue \in Seq(Id)
    BY DEF Brokers
  <2> QED BY <1>1, <1>2, <2>1, QueuedMore
<1>4. b2 \in Brokers
  <2>1. /\ b2.seal \in [Id -> Instance \cup {None}] /\ b2.enqueued \in SUBSET Id
    BY <1>1, <1>2 DEF Brokers
  <2> QED BY <1>2, <1>3, <2>1 DEF Brokers
<1>5. HasRoom(b) => HasRoom(b2)
  BY <1>2, <1>3 DEF HasRoom
<1>6. ASSUME NEW d \in Command
      PROVE  /\ d \in b2.enqueued <=> d \in b.enqueued
             /\ d \in Queued(b2) <=> d \in Queued(b)
  BY <1>1, <1>2, <1>3
<1> QED BY <1>2, <1>4, <1>5, <1>6 DEF Sheds, b2

LEMMA CleanUpQueues == ASSUME QInv, CleanUp PROVE QKept
<1> DEFINE l == lease.releasing
           b == Discard(broker, OwnedBy(l))
           b3 == Discard(b, Closes \cap Queued(b))
<1>1. l \in Lease /\ peer.bound \in Instance \cup {None}
  BY QStart DEF CleanUp, HeldLeases, Peers
<1>2. Sheds(broker, b) /\ b \in Brokers
  BY QStart, DiscardSheds DEF OwnedBy, Sheds
<1>3. Sheds(broker, broker')
  <2>1. CASE broker' = b
    BY <1>2, <2>1
  <2>2. CASE broker' = [b3 EXCEPT !.queue = Append(@, Close(l)), !.seal[Close(l)] = peer.bound,
                                  !.enqueued = @ \cup {Close(l)}]
    <3> HIDE DEF b
    <3>1. Sheds(b, b3) /\ b3 \in Brokers
      BY <1>2, DiscardSheds DEF Sheds
    <3> HIDE DEF b3, l
    <3>2. Sheds(b3, broker')
      BY <1>1, <2>2, <3>1, CloseSheds
    <3> QED BY <1>2, <3>1, <3>2, ShedsTwice
  <2> QED BY <2>1, <2>2 DEF CleanUp
<1> HIDE DEF b, b3, l
<1>4. /\ call' \in [Command -> HeldCalls]
      /\ \A c \in Command : call'[c].pc = call[c].pc
  <2>1. ASSUME NEW c \in Command
        PROVE  /\ [call[c] EXCEPT !.stale = @ \/ call[c].pc = "auditing"] \in HeldCalls
               /\ [call[c] EXCEPT !.stale = @ \/ call[c].pc = "auditing"].pc = call[c].pc
    <3>1. call[c] \in HeldCalls
      BY QStart
    <3> QED BY <3>1 DEF HeldCalls
  <2> QED BY <2>1 DEF CleanUp
<1>5. lease' \in HeldLeases
  BY DEF CleanUp, HeldLeases, NoLease, None
<1>6. Books' /\ Marks'
  BY QStart DEF Books, Marks, CleanUp
<1>7. QueueTypeOK'
  BY <1>3, <1>4, <1>5, <1>6, QStart, TypedThen DEF Sheds, CleanUp
<1> QED BY <1>3, <1>4, <1>7, ShedsKeeps DEF QKept, CleanUp

(* What is delivered leaves the queue in the same step, and what is not is *)
(* dropped without having been handed out.                                 *)
LEMMA DeliverQueues == ASSUME QInv, Deliver PROVE QKept
<1>1. poll.pc = "snapped" /\ UNCHANGED <<lease, call, peer, age, fate, granted, restarts>>
  BY DEF Deliver
<1>2. CASE /\ UNCHANGED <<broker, wire, handed, finishing>>
           /\ poll' = [poll EXCEPT !.snap = broker.queue]
  <2>1. poll' \in Polls
    BY <1>2, QStart DEF Polls, Brokers
  <2>2. Books' /\ Marks'
    BY <1>1, <1>2, QStart DEF Books, Marks
  <2>3. QueueTypeOK'
    BY <1>1, <1>2, <2>1, <2>2, QStart, TypedThen
  <2> QED BY <1>1, <1>2, <2>3, QuietKeeps DEF QKept
<1>3. CASE StillThere(poll.snap)
  <2>1. PICK S, out :
          /\ S = {poll.snap[k] : k \in DOMAIN poll.snap} /\ out \subseteq S
          /\ poll' = NotPolling
          /\ broker' = [Discard(broker, S \ out) EXCEPT
               !.queue = Without(@, out),
               !.row = [id \in Id |-> IF id \in out /\ @[id] = "queued"
                                      THEN "delivered" ELSE @[id]]]
          /\ finishing' = finishing \cup Owned(broker, S \ out)
          /\ wire' = wire \cup Answers(out \ Closes, peer.bound)
          /\ handed' = handed \cup [id : out \cap Command, from : {peer.bound}]
    BY <1>3 DEF Deliver
  <2> DEFINE b == Discard(broker, S \ out)
             q == Without(b.queue, out)
  <2>2. S \subseteq Queued(broker)
    <3>1. poll.snap \in Seq(Id) /\ broker.queue \in Seq(Id)
      BY QStart DEF Polls, Brokers
    <3> QED BY <1>3, <2>1, <3>1 DEF StillThere, Queued
  <2>3. /\ Sheds(broker, b) /\ b \in Brokers /\ Queued(b) = Queued(broker) \ (S \ out)
    <3>1. S \ out \in SUBSET Queued(broker) /\ broker \in Brokers
      BY <2>2, QStart
    <3>2. Sheds(broker, b) /\ Queued(b) = Queued(broker) \ (S \ out)
      BY <3>1, DiscardSheds
    <3> HIDE DEF b
    <3> QED BY <3>2 DEF Sheds
  <2>4. /\ q \in Seq(Id) /\ {q[k] : k \in DOMAIN q} = Queued(b) \ out
        /\ Len(Without(q, Closes)) <= Len(Without(b.queue, Closes))
    BY <2>3, QueueHolds DEF Brokers, Queued
  <2> HIDE DEF b, q
  <2>5. /\ broker'.queue = q /\ broker'.reserved = b.reserved
        /\ broker'.row = [id \in Id |-> IF id \in out /\ b.row[id] = "queued"
                                        THEN "delivered" ELSE b.row[id]]
        /\ broker'.enqueued = b.enqueued /\ broker'.result = b.result
        /\ broker' \in Brokers
    BY <2>1, <2>3, <2>4 DEF Brokers, b, q
  <2>6. Queued(broker') = Queued(b) \ out /\ Rest(broker') <= Rest(b)
    <3>1. Queued(broker') = {q[k] : k \in DOMAIN q}
      BY <2>5 DEF Queued
    <3>2. Rest(broker') = Len(Without(q, Closes)) /\ Rest(b) = Len(Without(b.queue, Closes))
      BY <2>5 DEF Rest
    <3> QED BY <2>4, <3>1, <3>2
  <2>7. RoomKept'
    <3>1. HasRoom(b) => HasRoom(broker')
      BY <2>3, <2>5, <2>6, ReservedFinite, RoomStays
    <3> QED BY <2>3, <3>1, QStart DEF Sheds, HasRoom, RoomKept, Rest
  <2>8. peer.bound \in Instance /\ out \subseteq Id
    BY <1>1, <2>1, <2>2, QStart DEF Inv, Shape, Peers
  <2>9. Books'
    <3>1. Answers(out \ Closes, peer.bound) \subseteq [id : Id, from : Instance, retry : BOOLEAN]
      BY <2>8, Ids DEF Answers
    <3>2. [id : out \cap Command, from : {peer.bound}] \subseteq Delivery
      BY <2>8, Ids DEF Delivery
    <3> QED BY <2>1, <3>1, <3>2, QStart DEF Books, Owned
  <2>10. QueueTypeOK'
    <3>1. poll' \in Polls /\ Marks'
      BY <1>1, <2>1, QStart DEF Polls, NotPolling, Marks
    <3> QED BY <1>1, <2>5, <2>9, <3>1, QStart, TypedThen
  <2>11. ASSUME NEW d \in Command
         PROVE  HandedOut(d)' <=> HandedOut(d) \/ d \in out
    <3>1. handed' = handed \cup [id : out \cap Command, from : {peer.bound}]
      BY <2>1
    <3>2. d \in out => \E x \in [id : out \cap Command, from : {peer.bound}] : x.id = d
      <4>1. d \in out => /\ [id |-> d, from |-> peer.bound]
                              \in [id : out \cap Command, from : {peer.bound}]
                         /\ [id |-> d, from |-> peer.bound].id = d
        OBVIOUS
      <4> QED BY <4>1
    <3>3. \A x \in [id : out \cap Command, from : {peer.bound}] : x.id \in out
      OBVIOUS
    <3> QED BY <3>1, <3>2, <3>3 DEF HandedOut
  <2>12. ASSUME NEW d \in Command \cap out
         PROVE  /\ call[d].pc = "over" /\ fate[d] = "accepted" /\ broker'.result[d] = "none"
                /\ broker'.row[d] = "delivered" /\ d \notin Queued(broker')
    <3>1. d \in Queued(broker) /\ d \in Queued(b)
      BY <2>1, <2>2, <2>3
    <3>2. call[d].pc = "over" /\ fate[d] = "accepted"
          /\ broker.row[d] = "queued" /\ broker.result[d] = "none"
      BY <3>1, QStart DEF Life
    <3>3. b.row[d] = "queued" /\ b.result[d] = "none"
      BY <2>3, <3>1, <3>2 DEF Sheds
    <3> QED BY <2>5, <2>6, <3>2, <3>3, Ids
  <2>13. ASSUME NEW d \in Command \ out
         PROVE  broker'.row[d] = b.row[d] /\ (d \in Queued(broker') <=> d \in Queued(b))
    BY <2>5, <2>6, Ids
  <2>14. Life'
    <3>1. ASSUME NEW d \in Command
          PROVE  /\ call'[d].pc # "over" =>
                      /\ broker'.row[d] = "none" /\ broker'.result[d] = "none"
                      /\ d \notin broker'.enqueued \cup Queued(broker') /\ ~HandedOut(d)'
                 /\ d \in Queued(broker') =>
                      /\ d \in broker'.enqueued /\ broker'.row[d] = "queued"
                      /\ broker'.result[d] = "none" /\ fate'[d] = "accepted"
                 /\ broker'.row[d] = "queued" => ~HandedOut(d)'
      <4>1. CASE d \in out
        BY <1>1, <2>12, <4>1
      <4>2. CASE d \notin out
        BY <1>1, <2>3, <2>5, <2>11, <2>13, <4>2, QStart DEF Sheds, Life
      <4> QED BY <4>1, <4>2
    <3> QED BY <3>1 DEF Life
  <2>15. DroppedNeverRan'
    <3>1. ASSUME NEW d \in Command
          PROVE  fate'[d] = "dropped" \/ broker'.result[d] = "discarded" => ~HandedOut(d)'
      <4>1. CASE d \in out
        BY <1>1, <2>12, <4>1
      <4>2. CASE d \notin out
        BY <1>1, <2>3, <2>5, <2>11, <4>2, QStart DEF Sheds, Life, DroppedNeverRan
      <4> QED BY <4>1, <4>2
    <3> QED BY <3>1 DEF DroppedNeverRan
  <2> QED BY <2>7, <2>10, <2>14, <2>15 DEF QKept
<1> QED BY <1>1, <1>2, <1>3 DEF Deliver

LEMMA EmptyQueue ==
  /\ Empty \in Brokers /\ NoLease \in HeldLeases /\ NewCall \in HeldCalls
  /\ NotPolling \in Polls /\ Queued(Empty) = {} /\ HasRoom(Empty)
<1>1. Empty \in Brokers
  BY DEF Empty, Brokers, None
<1>2. NoLease \in HeldLeases /\ NewCall \in HeldCalls /\ NotPolling \in Polls
  BY DEF NoLease, HeldLeases, NewCall, HeldCalls, NotPolling, Polls, None
<1>3. Empty.queue = <<>> /\ Empty.reserved = {}
  BY DEF Empty
<1>4. Queued(Empty) = {}
  BY <1>3 DEF Queued
<1>5. Len(<<>>) = 0 /\ Cardinality({}) = 0
  BY FS_EmptySet
<1>6. HasRoom(Empty)
  BY <1>3, <1>5, WithoutNone, CommandQueueAssumption DEF HasRoom, Rest
<1> QED BY <1>1, <1>2, <1>4, <1>6

LEMMA EmptyHolds ==
  ASSUME broker' = Empty, handed' = {}, fate' = [c \in Command |-> "none"]
  PROVE  RoomKept' /\ Life' /\ DroppedNeverRan'
<1>1. ASSUME NEW c \in Command
      PROVE  Empty.row[c] = "none" /\ Empty.result[c] = "none" /\ c \notin Empty.enqueued
  BY Ids DEF Empty
<1>2. RoomKept'
  BY EmptyQueue DEF RoomKept, HasRoom, Rest
<1>3. Life'
  BY <1>1, EmptyQueue DEF Life, HandedOut
<1>4. DroppedNeverRan'
  BY <1>1 DEF DroppedNeverRan, HandedOut
<1> QED BY <1>2, <1>3, <1>4

LEMMA RestartQueues == ASSUME QInv, Restart PROVE QKept
<1> USE DEF Restart
<1>1. peer' \in Peers
  BY QStart DEF Peers, None
<1>2. Books' /\ Marks'
  BY QStart, CommandQueueAssumption DEF Books, Marks
<1>3. QueueTypeOK'
  BY <1>1, <1>2, EmptyQueue, QStart, TypedThen
<1> QED BY <1>3, EmptyHolds DEF QKept

-----------------------------------------------------------------------------
(* From its call to its delivery a command is in the queue once it is      *)
(* accepted, nobody has been handed it, and there is room for it.          *)
THEOREM QueueSafety == Spec => []QInv
<1>1. Init => QInv
  <2> SUFFICES ASSUME Init PROVE QInv
    OBVIOUS
  <2> USE DEF Init
  <2>1. Inv
    BY InitInv
  <2>2. Books /\ Marks /\ peer \in Peers
    BY CommandQueueAssumption DEF Books, Marks, Peers, None
  <2>3. QueueTypeOK
    BY <2>2, EmptyQueue, Typed
  <2>4. ASSUME NEW c \in Command
        PROVE  Empty.row[c] = "none" /\ Empty.result[c] = "none" /\ c \notin Empty.enqueued
    BY Ids DEF Empty
  <2>5. RoomKept
    BY EmptyQueue DEF RoomKept, HasRoom, Rest
  <2>6. Life /\ DroppedNeverRan
    BY <2>4, EmptyQueue DEF Life, DroppedNeverRan, HandedOut
  <2> QED BY <2>1, <2>3, <2>5, <2>6 DEF QInv
<1>2. QInv /\ Inv' /\ [Next]_vars => QInv'
  <2> SUFFICES ASSUME QInv, Inv', [Next]_vars PROVE QKept
    BY DEF QKept, QInv
  <2>1. CASE Grant \/ CleanUp \/ BeginPoll \/ Deliver \/ Bind \/ RetireInstance \/ Restart
    BY <2>1, GrantQueues, CleanUpQueues, BeginPollQueues, DeliverQueues, BindQueues,
       RetireInstanceQueues, RestartQueues
  <2>2. ASSUME NEW asked \in BOOLEAN, Retire(asked) PROVE QKept
    BY <2>2, RetireQueues
  <2>3. ASSUME NEW r \in wire, StoreResult(r) PROVE QKept
    BY <2>3, StoreResultQueues
  <2>4. ASSUME NEW c \in Command, BeginAuthorize(c) \/ CallStep(c) \/ FinishOperation(c)
        PROVE  QKept
    BY <2>4, BeginAuthorizeQueues, AuthorizeQueues, PublishQueues, ReserveExecQueues,
       PublishExecQueues, AbortQueues, FinishOperationQueues DEF CallStep
  <2>5. ASSUME NEW c \in Command, TakeResult(c) \/ CallerAbandons(c) \/ Reap(c) \/ Age(c)
        PROVE  QKept
    BY <2>5, TakeResultQueues, AbandonQueues, AgeQueues DEF CallerAbandons, Reap
  <2>6. CASE UNCHANGED vars
    <3>1. UNCHANGED <<lease, call, broker, peer, poll, wire, finishing, age, fate, handed,
                      granted, restarts>>
      BY <2>6 DEF vars
    <3>2. Books' /\ Marks'
      BY <3>1, QStart DEF Books, Marks
    <3>3. QueueTypeOK'
      BY <3>1, <3>2, QStart, TypedThen
    <3> QED BY <3>1, <3>3, QuietKeeps DEF QKept
  <2> QED BY <2>1, <2>2, <2>3, <2>4, <2>5, <2>6 DEF Next
<1> QED BY <1>1, <1>2, BooksSafety, PTL DEF Spec

(* The state keeps its type: whatever is queued, promised or sealed is of  *)
(* the commands, leases and instances there are.                           *)
THEOREM QueueTyped == Spec => []QueueTypeOK
<1>1. QInv => QueueTypeOK
  BY DEF QInv
<1> QED BY <1>1, QueueSafety, PTL

(* A command reported as dropped or discarded never reached a game: it was *)
(* dropped from the queue, and a delivery takes from the queue.            *)
THEOREM NeverRan == Spec => []DroppedNeverRan
<1>1. QInv => DroppedNeverRan
  BY DEF QInv
<1> QED BY <1>1, QueueSafety, PTL

(* The queue never holds more commands than MAX_QUEUE, the slots promised  *)
(* to exec_enforce included.                                               *)
THEOREM Room == Spec => []RoomKept
<1>1. QInv => RoomKept
  BY DEF QInv
<1> QED BY <1>1, QueueSafety, PTL
=============================================================================
