------------------------ MODULE MCJobQueueFairness ------------------------
(* JobQueueFairness on a small instance; tenants are alike. *)
EXTENDS JobQueueFairness, TLC

Symmetry == Permutations(Tenants)
===========================================================================
