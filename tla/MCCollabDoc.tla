---------------------------- MODULE MCCollabDoc ----------------------------
(* Instances of CollabDoc. *)
EXTENDS CollabDoc, TLC

ConnSymmetry == Permutations(Conns \ Ai)
=============================================================================
