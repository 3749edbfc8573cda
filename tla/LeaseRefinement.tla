-------------------------- MODULE LeaseRefinement --------------------------
(***************************************************************************)
(* SessionLease implements WriteLease: its threads, its write-ahead        *)
(* protocol, its failed I/O, crashes and repairs show a client and the     *)
(* ledger nothing but leases that follow one another.                      *)
(***************************************************************************)
EXTENDS SessionLease

(* How far the latest lease is.  A provisional grant is active while it is *)
(* in flight, and its token is refused until it no longer is               *)
(* (_validate_token_locked).                                               *)
Granting(l) == \E t \in Thread : job[t].lease = l /\ job[t].pc \in {"gate", "g_arm", "g_audit"}

Phase ==
  CASE issued = 0 -> "none"
    [] issued # 0 /\ issued \in ledger ->
         IF mem.active # issued THEN "ending"
         ELSE IF mem.inflight = issued THEN "granted" ELSE "held"
    [] issued # 0 /\ issued \notin ledger ->
         IF Granting(issued) THEN "issued" ELSE "over"

Abstract == INSTANCE WriteLease
              WITH lease <- issued, phase <- Phase, standing <- ledger, stranded <- lost

(* What the coordinator does with its leases, its ledger and its files is  *)
(* a behaviour of WriteLease: no lease is granted twice, held again after  *)
(* it was withdrawn, or created while another still stands in the ledger,  *)
(* whatever I/O fails and wherever the daemon crashes: until a release has *)
(* been overtaken by another of the same lease, or a repair has overlapped *)
(* a release worker, both of which the code allows.                        *)
ImplementsWriteLease ==
  /\ Abstract!Init
  /\ [][amiss' = {} => [Abstract!Next]_(Abstract!vars)]_vars
=============================================================================
