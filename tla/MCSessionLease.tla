--------------------------- MODULE MCSessionLease ---------------------------
(* The write lease on small instances.                                      *)
EXTENDS LeaseRefinement, TLC

(* The request threads run the same code, and so do the workers.           *)
ThreadSymmetry == Permutations(Thread) \cup Permutations(Worker)
=============================================================================
