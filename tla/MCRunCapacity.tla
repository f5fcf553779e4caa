--------------------------- MODULE MCRunCapacity ---------------------------
(* Instances of RunCapacity. *)
EXTENDS RunCapacity, TLC

OneFlow == [r \in Runs |-> "f"]
Tight == [tenant |-> 2, workflow |-> 1]
Everything == [s \in {"tenant", "workflow"} |-> Runs]
WorkerSymmetry == Permutations(Workers)
=============================================================================
