---------------------------- MODULE MCJobQueue ----------------------------
(* JobQueue on a small instance; producers and consumers are alike. *)
EXTENDS JobQueue, TLC

Symmetry == Permutations(Producers) \cup Permutations(Consumers)
===========================================================================
