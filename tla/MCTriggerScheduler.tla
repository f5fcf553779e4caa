------------------------- MODULE MCTriggerScheduler -------------------------
(* Instances of TriggerScheduler. *)
EXTENDS TriggerScheduler

\* Either scheduler may be the first leader; nothing else tells them apart.
Instances == {"s1", "s2"}
=============================================================================
