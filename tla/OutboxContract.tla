--------------------------- MODULE OutboxContract ---------------------------
(***************************************************************************)
(* What the event outbox (crates/storage/src/event) promises its           *)
(* consumers, without ledgers, relays, locks and collectors: an event is   *)
(* there from its commit until it is removed; who joins is owed what is    *)
(* committed from then on and is spared what was there; nothing is removed *)
(* that a member is still owed.                                            *)
(***************************************************************************)
CONSTANTS Ids, Consumers

VARIABLES
    st,       \* event -> "new", "live" or "gone"
    members,  \* consumers that have joined
    spared,   \* consumer -> events that were there when it joined
    owed,     \* consumer -> events committed since it joined
    had       \* consumer -> events it was given

vars == <<st, members, spared, owed, had>>
Present == {e \in Ids : st[e] = "live"}
Nothing == [c \in Consumers |-> {}]

Init == st = [e \in Ids |-> "new"] /\ members = {} /\ spared = Nothing /\ owed = Nothing /\ had = Nothing

Publish(e) ==
    /\ st[e] = "new" /\ st' = [st EXCEPT ![e] = "live"]
    /\ owed' = [c \in Consumers |-> IF c \in members THEN owed[c] \cup {e} ELSE owed[c]]
    /\ UNCHANGED <<members, spared, had>>

Join(c, S) ==
    /\ c \notin members /\ S \subseteq Present
    /\ members' = members \cup {c} /\ spared' = [spared EXCEPT ![c] = S]
    /\ UNCHANGED <<st, owed, had>>

Leave(c) ==
    /\ c \in members /\ members' = members \ {c}
    /\ spared' = [spared EXCEPT ![c] = {}] /\ owed' = [owed EXCEPT ![c] = {}]
    /\ UNCHANGED <<st, had>>

\* Events may come more than once.
Receive(c, E) ==
    /\ E \subseteq Present /\ (c \in members => E \cap spared[c] = {})
    /\ had' = [had EXCEPT ![c] = @ \cup E]
    /\ UNCHANGED <<st, members, spared, owed>>

Remove(E) ==
    /\ E \subseteq Present /\ \A c \in members : E \cap owed[c] \subseteq had[c]
    /\ st' = [e \in Ids |-> IF e \in E THEN "gone" ELSE st[e]]
    /\ UNCHANGED <<members, spared, owed, had>>

Next ==
    \/ \E e \in Ids : Publish(e)
    \/ \E c \in Consumers : Leave(c) \/ \E E \in SUBSET Ids : Join(c, E) \/ Receive(c, E)
    \/ \E E \in SUBSET Ids : Remove(E)

Spec == Init /\ [][Next]_vars
=============================================================================
