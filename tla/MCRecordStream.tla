--------------------------- MODULE MCRecordStream ---------------------------
(* Instances of RecordStream. *)
EXTENDS RecordStream, TLC

\* Record 1 disappears with its third revision, record 2 with its second.
Fading == {<<1, 1>>, <<1, 2>>, <<2, 1>>}
RelaySymmetry == Permutations(Relays)
=============================================================================
