------------------------- MODULE MCMiniappTriggers -------------------------
(* Instances of MiniappTriggers. *)
EXTENDS MiniappTriggers

CONSTANTS w1, w2, f
MCSubscribed == [w \in {w1, w2} |-> {f}]
=============================================================================
