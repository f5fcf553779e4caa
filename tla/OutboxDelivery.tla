--------------------------- MODULE OutboxDelivery ---------------------------
(***************************************************************************)
(* The storage event outbox (crates/storage/src/event): writers commit     *)
(* events, every registered consumer's relays deliver them and record it   *)
(* in the ledger outbox_delivery, the RAG relay acknowledges them with     *)
(* processed_at, and the GC deletes what everybody has had.                *)
(*                                                                         *)
(* A consumer registers at run time and skips the backlog of that moment.  *)
(* GC and registration exclude each other with an advisory lock; relays,   *)
(* writers and the registration of the RAG relay do not take it.           *)
(***************************************************************************)
EXTENDS Integers, FiniteSets

CONSTANTS
    Ids,          \* events
    Consumers,    \* names of ledger consumers
    Relays,       \* relay loops: one per consumer and replica
    ConsumerOf,   \* relay -> its consumer
    Collectors,   \* replicas that run the GC loop
    MaxFails      \* bound: transactions of relays and registrations that fail

ASSUME OutboxAssumption ==
    /\ ConsumerOf \in [Relays -> Consumers] /\ Consumers \cap Collectors = {}
    /\ "free" \notin Consumers \cup Collectors /\ MaxFails \in Nat

Free == "free"

VARIABLES
    ev,          \* event -> "new", "open" (its transaction runs), "live" or "gone"
    acked,       \* events with processed_at
    ledger,      \* consumer -> events in outbox_delivery
    registered,  \* outbox_consumer
    ackers,      \* whether outbox_ack_consumer has a row
    lock,        \* holder of GC_LOCK_KEY: Free, a collector or a consumer that registers
    reg,         \* consumer -> how far its start is
    copy,        \* consumer -> backlog that its registration has copied
    gc,          \* collector -> [pc, wait, ack]
    relay,       \* relay -> [pc, todo, batch]
    rag,         \* events claimed by the RAG relay
    owed,        \* history: consumer -> events committed since it registered
    ackOwed,     \* history: events committed since the RAG relay registered
    backlog,     \* history: consumer -> events live when its relays started
    handled,     \* history: consumer -> events delivered
    fails        \* failures so far

tables == <<ev, acked, ledger, registered, ackers>>
procs == <<lock, reg, copy, gc, relay, rag>>
history == <<owed, ackOwed, backlog, handled>>
vars == <<tables, procs, history, fails>>

Live == {e \in Ids : ev[e] = "live"}
NoCycle == [pc |-> "idle", wait |-> {}, ack |-> FALSE]
NoBatch == [pc |-> "idle", todo |-> {}, batch |-> {}]

Init ==
    /\ ev = [e \in Ids |-> "new"] /\ acked = {}
    /\ ledger = [c \in Consumers |-> {}] /\ registered = {} /\ ackers = FALSE
    /\ lock = Free
    /\ reg = [c \in Consumers |-> "off"] /\ copy = [c \in Consumers |-> {}]
    /\ gc = [g \in Collectors |-> NoCycle]
    /\ relay = [r \in Relays |-> NoBatch] /\ rag = {}
    /\ owed = [c \in Consumers |-> {}] /\ ackOwed = {}
    /\ backlog = [c \in Consumers |-> {}] /\ handled = [c \in Consumers |-> {}]
    /\ fails = 0

-----------------------------------------------------------------------------
(* Writers *)

\* emit_on, in the transaction of the write.
Emit(e) ==
    /\ ev[e] = "new" /\ ev' = [ev EXCEPT ![e] = "open"]
    /\ UNCHANGED <<acked, ledger, registered, ackers, procs, history, fails>>

CommitWrite(e) ==
    /\ ev[e] = "open" /\ ev' = [ev EXCEPT ![e] = "live"]
    /\ owed' = [c \in Consumers |-> IF c \in registered THEN owed[c] \cup {e} ELSE owed[c]]
    /\ ackOwed' = IF ackers THEN ackOwed \cup {e} ELSE ackOwed
    /\ UNCHANGED <<acked, ledger, registered, ackers, procs, backlog, handled, fails>>

-----------------------------------------------------------------------------
(* Registration of a ledger consumer, and its end *)

\* register_in_tx: the row is inserted, and seen by others at the commit.
RegisterInsert(c) ==
    /\ reg[c] = "off" /\ reg' = [reg EXCEPT ![c] = "inserted"]
    /\ UNCHANGED <<tables, lock, copy, gc, relay, rag, history, fails>>

RegisterLock(c) ==
    /\ reg[c] = "inserted" /\ lock = Free
    /\ lock' = c /\ reg' = [reg EXCEPT ![c] = "locked"]
    /\ UNCHANGED <<tables, copy, gc, relay, rag, history, fails>>

\* The fast-forward copies the events its snapshot shows.
FastForward(c) ==
    /\ reg[c] = "locked"
    /\ reg' = [reg EXCEPT ![c] = "copied"] /\ copy' = [copy EXCEPT ![c] = Live]
    /\ UNCHANGED <<tables, lock, gc, relay, rag, history, fails>>

RegisterCommit(c) ==
    /\ reg[c] = "copied"
    /\ registered' = registered \cup {c}
    /\ ledger' = [ledger EXCEPT ![c] = @ \cup copy[c]]
    /\ lock' = Free /\ reg' = [reg EXCEPT ![c] = "running"]
    /\ copy' = [copy EXCEPT ![c] = {}] /\ backlog' = [backlog EXCEPT ![c] = copy[c]]
    /\ UNCHANGED <<ev, acked, ackers, gc, relay, rag, owed, ackOwed, handled, fails>>

\* An error is logged, and the relays start all the same.
RegisterFails(c) ==
    /\ reg[c] \in {"inserted", "locked", "copied"} /\ fails < MaxFails
    /\ reg' = [reg EXCEPT ![c] = "running"] /\ copy' = [copy EXCEPT ![c] = {}]
    /\ lock' = IF lock = c THEN Free ELSE lock
    /\ backlog' = [backlog EXCEPT ![c] = Live]
    /\ fails' = fails + 1
    /\ UNCHANGED <<tables, gc, relay, rag, owed, ackOwed, handled>>

\* unregister_consumer, for good; a relay in the middle of a batch goes on.
Unregister(c) ==
    /\ c \in registered
    /\ registered' = registered \ {c} /\ ledger' = [ledger EXCEPT ![c] = {}]
    /\ reg' = [reg EXCEPT ![c] = "retired"]
    /\ owed' = [owed EXCEPT ![c] = {}]
    /\ UNCHANGED <<ev, acked, ackers, lock, copy, gc, relay, rag, ackOwed, backlog, handled, fails>>

-----------------------------------------------------------------------------
(* Delivery to ledger consumers *)

Claimed == rag \cup UNION {relay[r].batch : r \in Relays}

\* claim_undelivered: the snapshot, with the events that have no row in the ledger.
Scan(r) ==
    /\ relay[r].pc = "idle" /\ reg[ConsumerOf[r]] = "running"
    /\ relay' = [relay EXCEPT ![r] = [pc |-> "scan", todo |-> Live \ ledger[ConsumerOf[r]], batch |-> {}]]
    /\ UNCHANGED <<tables, lock, reg, copy, gc, rag, history, fails>>

\* Faulty variant: the rows of the snapshot are taken as they were.
Claim_snapshot(r) ==
    /\ relay[r].pc = "scan"
    /\ LET rows == relay[r].todo \ Claimed
       IN  relay' = [relay EXCEPT ![r] = IF rows = {} THEN NoBatch
                                         ELSE [pc |-> "work", todo |-> {}, batch |-> rows]]
    /\ UNCHANGED <<tables, lock, reg, copy, gc, rag, history, fails>>

\* It locks the rows that still exist and nobody has locked.  One that was delivered since
\* the snapshot is among them: only the ledger changed, not the row.
Claim(r) ==
    /\ relay[r].pc = "scan"
    /\ LET rows == (relay[r].todo \cap Live) \ Claimed
       IN  relay' = [relay EXCEPT ![r] = IF rows = {} THEN NoBatch
                                         ELSE [pc |-> "work", todo |-> {}, batch |-> rows]]
    /\ UNCHANGED <<tables, lock, reg, copy, gc, rag, history, fails>>

\* The batch is processed, mark_delivered and commit.
Deliver(r) ==
    /\ relay[r].pc = "work"
    /\ ledger' = [ledger EXCEPT ![ConsumerOf[r]] = @ \cup relay[r].batch]
    /\ handled' = [handled EXCEPT ![ConsumerOf[r]] = @ \cup relay[r].batch]
    /\ relay' = [relay EXCEPT ![r] = NoBatch]
    /\ UNCHANGED <<ev, acked, registered, ackers, lock, reg, copy, gc, rag, owed, ackOwed, backlog, fails>>

\* An error or a crash: the claim rolls back.
Abort(r) ==
    /\ relay[r].pc # "idle" /\ fails < MaxFails
    /\ relay' = [relay EXCEPT ![r] = NoBatch] /\ fails' = fails + 1
    /\ UNCHANGED <<tables, lock, reg, copy, gc, rag, history>>

-----------------------------------------------------------------------------
(* The RAG relay, which acknowledges with processed_at *)

RegisterAck ==
    /\ ~ackers /\ ackers' = TRUE
    /\ UNCHANGED <<ev, acked, ledger, registered, procs, history, fails>>

\* claim: processed_at is a column of the row, so the lock sees its newest value.
RagClaim ==
    /\ ackers /\ rag = {}
    /\ rag' = (Live \ acked) \ Claimed
    /\ rag' # {}
    /\ UNCHANGED <<tables, lock, reg, copy, gc, relay, history, fails>>

\* relay_once: the jobs, mark_processed and commit, in one transaction.
RagCommit ==
    /\ rag # {} /\ acked' = acked \cup rag /\ rag' = {}
    /\ UNCHANGED <<ev, ledger, registered, ackers, lock, reg, copy, gc, relay, history, fails>>

RagAbort ==
    /\ rag # {} /\ fails < MaxFails
    /\ rag' = {} /\ fails' = fails + 1
    /\ UNCHANGED <<tables, lock, reg, copy, gc, relay, history>>

-----------------------------------------------------------------------------
(* Garbage collection: gc_delivered_registered *)

GcLock(g) ==
    /\ gc[g].pc = "idle" /\ lock = Free
    /\ lock' = g /\ gc' = [gc EXCEPT ![g].pc = "locked"]
    /\ UNCHANGED <<tables, reg, copy, relay, rag, history, fails>>

\* Whom to wait for is read once the lock is held.
GcRead(g) ==
    /\ gc[g].pc = "locked"
    /\ gc' = [gc EXCEPT ![g] = [pc |-> "read", wait |-> registered, ack |-> ackers]]
    /\ UNCHANGED <<tables, lock, reg, copy, relay, rag, history, fails>>

\* Faulty variant: the RAG relay is waited for where it does not run.
Deletable_acked(w, ack) ==
    {e \in Live \ Claimed : e \in acked /\ \A c \in w : e \in ledger[c]}

\* What delete_delivered deletes; where nobody is registered, nothing.
Deletable(w, ack) ==
    {e \in Live \ Claimed : /\ ack => e \in acked
                            /\ \A c \in w : e \in ledger[c]
                            /\ ack \/ w # {}}

GcDelete(g) ==
    /\ gc[g].pc = "read"
    /\ LET D == Deletable(gc[g].wait, gc[g].ack)
       IN  /\ ev' = [e \in Ids |-> IF e \in D THEN "gone" ELSE ev[e]]
           /\ ledger' = [c \in Consumers |-> ledger[c] \ D]
    /\ lock' = IF lock = g THEN Free ELSE lock
    /\ gc' = [gc EXCEPT ![g] = NoCycle]
    /\ UNCHANGED <<acked, registered, ackers, reg, copy, relay, rag, history, fails>>

-----------------------------------------------------------------------------
RelayStep(r) == Scan(r) \/ Claim(r) \/ Deliver(r)
RegisterStep(c) == RegisterInsert(c) \/ RegisterLock(c) \/ FastForward(c) \/ RegisterCommit(c)
GcStep(g) == GcLock(g) \/ GcRead(g) \/ GcDelete(g)

Next ==
    \/ \E e \in Ids : Emit(e) \/ CommitWrite(e)
    \/ \E c \in Consumers : RegisterStep(c) \/ RegisterFails(c) \/ Unregister(c)
    \/ \E r \in Relays : RelayStep(r) \/ Abort(r)
    \/ RegisterAck \/ RagClaim \/ RagCommit \/ RagAbort
    \/ \E g \in Collectors : GcStep(g)

Spec == Init /\ [][Next]_vars

\* The loops of relays and GC go on, and open transactions end.
LiveSpec ==
    /\ Spec
    /\ \A r \in Relays : WF_vars(RelayStep(r))
    /\ \A c \in Consumers : WF_vars(FastForward(c) \/ RegisterCommit(c))
    /\ \A g \in Collectors : WF_vars(GcStep(g))
    /\ WF_vars(RagClaim \/ RagCommit)

-----------------------------------------------------------------------------
(* Properties *)

\* The tables and the steps of relays, registrations and collectors have their shapes.
TypeOK ==
    /\ ev \in [Ids -> {"new", "open", "live", "gone"}] /\ acked \subseteq Ids
    /\ ledger \in [Consumers -> SUBSET Ids] /\ registered \subseteq Consumers /\ ackers \in BOOLEAN
    /\ lock \in {Free} \cup Collectors \cup Consumers
    /\ reg \in [Consumers -> {"off", "inserted", "locked", "copied", "running", "retired"}]
    /\ copy \in [Consumers -> SUBSET Ids]
    /\ gc \in [Collectors -> [pc : {"idle", "locked", "read"}, wait : SUBSET Consumers, ack : BOOLEAN]]
    /\ relay \in [Relays -> [pc : {"idle", "scan", "work"}, todo : SUBSET Ids, batch : SUBSET Ids]]
    /\ rag \subseteq Ids
    /\ owed \in [Consumers -> SUBSET Ids] /\ ackOwed \subseteq Ids
    /\ backlog \in [Consumers -> SUBSET Ids] /\ handled \in [Consumers -> SUBSET Ids]
    /\ fails \in Nat

(* No registered consumer loses an event: one that committed after the       *)
(* registration is deleted only once that consumer has had it, although      *)
(* consumers come and go while the GC runs (gc_delivered_registered).        *)
OwedDelivered ==
    \A c \in Consumers : \A e \in owed[c] : ev[e] = "gone" => e \in handled[c]

(* A consumer that registers starts after the backlog: no event that was     *)
(* live then is ever delivered to it, and none that was written or committed *)
(* during the registration is skipped (register_in_tx).                      *)
BacklogSkipped ==
    \A c \in registered :
        /\ handled[c] \cap backlog[c] = {}
        /\ \A e \in Live : e \in ledger[c] => e \in backlog[c] \cup handled[c]

(* No registration meets a row that a GC is deleting: the copied backlog     *)
(* still exists when it is committed, or the foreign key would fail the      *)
(* whole registration (GC_LOCK_KEY).                                         *)
BacklogStays == \A c \in Consumers : reg[c] = "copied" => copy[c] \subseteq Live

(* Every event that a registered consumer is owed gets delivered, and every  *)
(* event is deleted in the end, except where nobody is registered at all     *)
(* (claim_undelivered, spawn_outbox_gc).                                     *)
DeliveredAndCollected ==
    \A e \in Ids :
        /\ \A c \in Consumers : e \in owed[c] ~> e \in handled[c] \/ c \notin registered
        /\ ev[e] = "live" ~> ev[e] = "gone" \/ (registered = {} /\ ~ackers)

\* An event whose transaction runs is not there yet, and a consumer whose registration failed
\* is no member.
Contract == INSTANCE OutboxContract WITH
    st <- [e \in Ids |-> IF ev[e] = "open" THEN "new" ELSE ev[e]],
    members <- registered,
    spared <- [c \in Consumers |-> IF c \in registered THEN backlog[c] ELSE {}],
    had <- handled

(* Ledgers, snapshots, row locks and GC_LOCK_KEY implement the contract of   *)
(* the outbox: relays deliver only events that are still there and not of    *)
(* the backlog, and the GC removes nothing that a registered consumer is     *)
(* owed (event/mod.rs, delivery.rs, gc.rs).                                  *)
KeepsContract == Contract!Spec

-----------------------------------------------------------------------------
(* What comments of the code say and the code does not keep *)

\* ack.rs:22: from the registration of the RAG relay on, the GC waits for processed_at.
AckedBeforeGone == \A e \in ackOwed : ev[e] = "gone" => e \in acked

\* delivery.rs:22: two relays of a consumer do not get the same event.
ClaimedOnce == \A r \in Relays : relay[r].batch \cap ledger[ConsumerOf[r]] = {}

\* delivery.rs:302: the first start of a consumer does not deliver the backlog.
BacklogNeverFires == \A c \in Consumers : handled[c] \cap backlog[c] = {}
=============================================================================
