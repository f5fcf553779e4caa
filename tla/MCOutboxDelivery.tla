-------------------------- MODULE MCOutboxDelivery --------------------------
(* Instances of OutboxDelivery. *)
EXTENDS OutboxDelivery

\* Two consumers; in Replicated the first has relays in two replicas.
Names == {"workflow", "miniapp"}
Single == {"w1", "m1"}
SingleOf == [r \in Single |-> IF r = "w1" THEN "workflow" ELSE "miniapp"]
Replicated == {"w1", "w2"}
ReplicatedOf == [r \in Replicated |-> "workflow"]
=============================================================================
