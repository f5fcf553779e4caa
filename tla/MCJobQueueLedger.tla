------------------------- MODULE MCJobQueueLedger -------------------------
(* JobQueueLedger on a small instance; producers and consumers are alike. *)
EXTENDS JobQueueLedger, TLC

Symmetry == Permutations(Producers) \cup Permutations(Consumers)
===========================================================================
