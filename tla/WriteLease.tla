----------------------------- MODULE WriteLease -----------------------------
(***************************************************************************)
(* What the write lease promises, with neither threads, files nor faults:  *)
(* leases come one after the other, and each goes its way once.            *)
(*                                                                         *)
(*   issued -> granted -> held -> ending -> over                           *)
(*                                                                         *)
(* A lease is granted when the audit ledger says so, and held while the    *)
(* coordinator accepts its token.  It may end before it was granted or     *)
(* before it was held, but what the ledger granted the ledger ends, or it  *)
(* is left stranded there, and only once no token of it is accepted;       *)
(* nothing of a lease comes back, and the next one is not even created     *)
(* before the last one is over.                                            *)
(***************************************************************************)
EXTENDS Naturals

VARIABLES lease,     \* the latest lease created
          phase,     \* how far it is
          standing,  \* the leases the ledger holds as granted
          stranded   \* those it holds with nobody left to end them

vars == <<lease, phase, standing, stranded>>

Phase == {"none", "issued", "granted", "held", "ending", "over"}

Init == lease = 0 /\ phase = "none" /\ standing = {} /\ stranded = {}

Issue ==
  /\ phase \in {"none", "over"}
  /\ lease' = lease + 1 /\ phase' = "issued"
  /\ UNCHANGED <<standing, stranded>>

(* A grant that was cancelled while it was audited is never provisional.   *)
Grant ==
  /\ phase = "issued"
  /\ phase' \in {"granted", "ending"} /\ standing' = {lease}
  /\ UNCHANGED <<lease, stranded>>

Publish ==
  /\ phase = "granted"
  /\ phase' = "held"
  /\ UNCHANGED <<lease, standing, stranded>>

(* The lease was released, expired or taken back, or the daemon went down. *)
Withdraw ==
  /\ phase \in {"granted", "held"}
  /\ phase' = "ending"
  /\ UNCHANGED <<lease, standing, stranded>>

(* The lease ends in the ledger, where it never stood if it was refused;   *)
(* a grant that is taken back while no token was accepted is withdrawn and *)
(* ended in the same step.                                                 *)
End ==
  /\ phase \in {"issued", "granted", "ending"}
  /\ phase' = "over" /\ standing' = {}
  /\ UNCHANGED <<lease, stranded>>

(* The daemon goes down again before its startup has ended the lease.      *)
Strand ==
  /\ phase = "ending"
  /\ phase' = "over" /\ standing' = {} /\ stranded' = stranded \cup {lease}
  /\ UNCHANGED lease

Next == Issue \/ Grant \/ Publish \/ Withdraw \/ End \/ Strand

Spec == Init /\ [][Next]_vars
=============================================================================
