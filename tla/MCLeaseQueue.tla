---------------------------- MODULE MCLeaseQueue ----------------------------
(* The queue of the lease on small instances.                              *)
EXTENDS LeaseQueue

CONSTANTS a, b, t1, t2, t3

(* One client with two calls at a time; or each with one.                  *)
MCTwice == (t1 :> a @@ t2 :> b @@ t3 :> a)
MCEach == (t1 :> a @@ t2 :> b)
=============================================================================
