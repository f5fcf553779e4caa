--------------------------- MODULE MCGenerationRun ---------------------------
(* Instances of GenerationRun. *)
EXTENDS GenerationRun, TLC

WorkerSymmetry == Permutations(Workers)
=============================================================================
