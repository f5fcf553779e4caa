---------------------------- MODULE OutboxClaims ----------------------------
(***************************************************************************)
(* How a relay avoids reading the whole outbox (ClaimHints in              *)
(* crates/storage/src/event/delivery.rs): it keeps a floor below which all *)
(* events are taken to be delivered, and a tail while there is a backlog.  *)
(* The floor is inferred from probes of the id sequence and of the running *)
(* transactions, since an id may be given out long before it commits.      *)
(*                                                                         *)
(* Transactions, their ids and snapshots are those of PostgreSQL, modelled *)
(* from how the code uses them: a snapshot's xmax is one past the highest  *)
(* COMPLETED transaction.                                                  *)
(***************************************************************************)
EXTENDS Integers, FiniteSets, FiniteSetsExt

CONSTANTS
    Writers,    \* transactions that emit one event each
    Early,      \* writers whose first write is the event: the id precedes the xid
    Replicas,   \* whether another replica relays for the same consumer
    Limit,      \* size of a batch
    MaxXid,     \* bound on transaction ids
    MaxFails    \* bound: batches that roll back, and restarts

ASSUME ClaimsAssumption ==
    /\ Early \subseteq Writers /\ Replicas \in BOOLEAN
    /\ Limit \in Nat \ {0} /\ MaxXid \in Nat /\ MaxFails \in Nat

NoFloor == -1
NoProbe == [seq |-> -1, xmin |-> 0, xmax |-> 0]

VARIABLES
    nextXid,    \* the next transaction id
    completed,  \* the highest completed transaction id
    seq,        \* last value of storage_event_outbox_id_seq
    tx,         \* writer -> [pc, xid, id]
    delivered,  \* ids in the consumer's ledger
    other,      \* ids locked by the other replica
    relay,      \* [pc, probe, after, batch]
    tail, floor, first,   \* HintState
    sweepDue, fullDue,    \* whether next_sweep and next_full have passed
    basis,      \* history: writer -> first.xmax when the floor rose past its id
    passed,     \* history: ids the other replica held when a scan passed them
    fails

db == <<nextXid, completed, seq, tx, delivered, other>>
hints == <<tail, floor, first, sweepDue, fullDue>>
vars == <<db, relay, hints, basis, passed, fails>>

Idle == [pc |-> "idle", probe |-> NoProbe, after |-> 0, batch |-> {}]

Init ==
    /\ nextXid = 1 /\ completed = 0 /\ seq = 0
    /\ tx = [w \in Writers |-> [pc |-> "new", xid |-> 0, id |-> 0]]
    /\ delivered = {} /\ other = {}
    /\ relay = Idle
    /\ tail = 0 /\ floor = NoFloor /\ first = NoProbe
    /\ sweepDue = FALSE /\ fullDue = FALSE
    /\ basis = [w \in Writers |-> 0] /\ passed = {} /\ fails = 0

Committed == {tx[w].id : w \in {v \in Writers : tx[v].pc = "committed"}}
Running == {tx[w].xid : w \in {v \in Writers : tx[v].pc \in {"begun", "wrote"}}}

-----------------------------------------------------------------------------
(* Transactions *)

\* The first write of a transaction gives it its xid.
Begin(w) ==
    /\ w \notin Early /\ tx[w].pc = "new" /\ nextXid <= MaxXid
    /\ tx' = [tx EXCEPT ![w].pc = "begun", ![w].xid = nextXid]
    /\ nextXid' = nextXid + 1
    /\ UNCHANGED <<completed, seq, delivered, other, relay, hints, basis, passed, fails>>

\* emit_on takes the next id of the sequence ...
TakeId(w) ==
    /\ tx[w].pc = IF w \in Early THEN "new" ELSE "begun"
    /\ tx' = [tx EXCEPT ![w].pc = IF w \in Early THEN "early" ELSE "wrote", ![w].id = seq + 1]
    /\ seq' = seq + 1
    /\ UNCHANGED <<nextXid, completed, delivered, other, relay, hints, basis, passed, fails>>

\* ... and only the insertion of the row gives the transaction its xid, if it had none.
Insert(w) ==
    /\ tx[w].pc = "early" /\ nextXid <= MaxXid
    /\ tx' = [tx EXCEPT ![w].pc = "wrote", ![w].xid = nextXid]
    /\ nextXid' = nextXid + 1
    /\ UNCHANGED <<completed, seq, delivered, other, relay, hints, basis, passed, fails>>

Finish(w) ==
    /\ tx[w].pc = "wrote"
    /\ \E end \in {"committed", "rolledback"} : tx' = [tx EXCEPT ![w].pc = end]
    /\ completed' = IF completed < tx[w].xid THEN tx[w].xid ELSE completed
    /\ UNCHANGED <<nextXid, seq, delivered, other, relay, hints, basis, passed, fails>>

\* A transaction that has nothing to do with the outbox.
Unrelated ==
    /\ nextXid <= MaxXid
    /\ nextXid' = nextXid + 1 /\ completed' = nextXid
    /\ UNCHANGED <<seq, tx, delivered, other, relay, hints, basis, passed, fails>>

\* Faulty variant: rows that the relay has locked are claimed, too.
OtherClaim_locked ==
    /\ Replicas /\ other = {}
    /\ other' \in (SUBSET (Committed \ delivered)) \ {{}}
    /\ UNCHANGED <<nextXid, completed, seq, tx, delivered, relay, hints, basis, passed, fails>>

\* The other replica claims, and delivers or rolls back.
OtherClaim ==
    /\ Replicas /\ other = {}
    /\ other' \in (SUBSET ((Committed \ delivered) \ relay.batch)) \ {{}}
    /\ UNCHANGED <<nextXid, completed, seq, tx, delivered, relay, hints, basis, passed, fails>>

OtherEnds ==
    /\ other # {} /\ other' = {}
    /\ \/ delivered' = delivered \cup other /\ fails' = fails
       \/ fails < MaxFails /\ fails' = fails + 1 /\ delivered' = delivered
    /\ UNCHANGED <<nextXid, completed, seq, tx, relay, hints, basis, passed>>

-----------------------------------------------------------------------------
(* One claim_undelivered_hinted *)

\* claim_probe: the statement takes its snapshot ...
Snapshot ==
    /\ relay.pc = "idle"
    /\ LET xmax == completed + 1
       IN  relay' = [Idle EXCEPT !.pc = "snapshot",
                                 !.probe = [seq |-> -1, xmin |-> Min(Running \cup {xmax}), xmax |-> xmax]]
    /\ UNCHANGED <<db, hints, basis, passed, fails>>

Floor == IF floor = NoFloor THEN 0 ELSE floor

\* Faulty variant: there is no sweep of the whole outbox.
Plan_lazy ==
    /\ relay.pc = "snapshot"
    /\ LET Scan(a) == relay' = [relay EXCEPT !.pc = "scan", !.probe.seq = seq, !.after = a]
       IN  \/ /\ floor = seq
              /\ relay' = Idle /\ UNCHANGED hints
           \/ /\ floor # seq
              /\ Scan(IF sweepDue \/ tail < Floor THEN Floor ELSE tail)
              /\ sweepDue' = FALSE /\ UNCHANGED <<tail, floor, first, fullDue>>
    /\ UNCHANGED <<db, basis, passed, fails>>

\* ... then reads the sequence.  plan_at: skip, or scan from where.
Plan ==
    /\ relay.pc = "snapshot"
    /\ LET Scan(a) == relay' = [relay EXCEPT !.pc = "scan", !.probe.seq = seq, !.after = a]
       IN  \/ /\ fullDue
              /\ Scan(0)
              /\ fullDue' = FALSE /\ sweepDue' = FALSE /\ UNCHANGED <<tail, floor, first>>
           \/ /\ ~fullDue /\ floor = seq
              /\ relay' = Idle /\ UNCHANGED hints
           \/ /\ ~fullDue /\ floor # seq
              /\ Scan(IF sweepDue \/ tail < Floor THEN Floor ELSE tail)
              /\ sweepDue' = FALSE /\ UNCHANGED <<tail, floor, first, fullDue>>
    /\ UNCHANGED <<db, basis, passed, fails>>

\* The first Limit rows in id order.
FirstRows(S) == {i \in S : Cardinality({j \in S : j < i}) < Limit}

\* Faulty variant: an empty scan of the tail settles the floor, too.
Settles_tail(rows, after, c, probe) == rows = {} /\ probe.xmin >= c.xmax /\ c # probe

\* When "observe" takes everything up to the probe's seq as delivered: nothing was found from
\* the floor on, and the transactions of the first probe with this seq have ended.
Settles(rows, after, c, probe) ==
    rows = {} /\ after <= Floor /\ probe.xmin >= c.xmax /\ c # probe

\* claim_undelivered_after and observe.
ClaimRows ==
    /\ relay.pc = "scan"
    /\ LET open   == {i \in Committed \ delivered : relay.after < i}
           rows   == FirstRows(open \ other)
           probe  == relay.probe
           c      == IF first.seq = probe.seq THEN first ELSE probe
           settle == Settles(rows, relay.after, c, probe)
       IN  /\ relay' = IF rows = {} THEN Idle ELSE [Idle EXCEPT !.pc = "work", !.batch = rows]
           /\ tail' = IF Cardinality(rows) >= Limit THEN Max({tail} \cup rows) ELSE 0
           /\ first' = c
           /\ floor' = IF settle THEN probe.seq ELSE floor
           /\ basis' = [w \in Writers |-> IF settle /\ Floor < tx[w].id /\ tx[w].id <= probe.seq THEN c.xmax ELSE basis[w]]
           /\ passed' = passed \cup (open \cap other)
    /\ UNCHANGED <<db, sweepDue, fullDue, fails>>

Deliver ==
    /\ relay.pc = "work"
    /\ delivered' = delivered \cup relay.batch /\ relay' = Idle
    /\ UNCHANGED <<nextXid, completed, seq, tx, other, hints, basis, passed, fails>>

Abort ==
    /\ relay.pc # "idle" /\ fails < MaxFails
    /\ relay' = Idle /\ fails' = fails + 1
    /\ UNCHANGED <<db, hints, basis, passed>>

\* CLAIM_SWEEP_INTERVAL and CLAIM_FULL_SWEEP_INTERVAL pass.
SweepTimer ==
    /\ ~sweepDue /\ sweepDue' = TRUE
    /\ UNCHANGED <<db, relay, tail, floor, first, fullDue, basis, passed, fails>>

FullTimer ==
    /\ ~fullDue /\ fullDue' = TRUE
    /\ UNCHANGED <<db, relay, tail, floor, first, sweepDue, basis, passed, fails>>

RelayStep == Snapshot \/ Plan \/ ClaimRows \/ Deliver

Next ==
    \/ \E w \in Writers : Begin(w) \/ TakeId(w) \/ Insert(w) \/ Finish(w)
    \/ Unrelated \/ OtherClaim \/ OtherEnds
    \/ RelayStep \/ Abort \/ SweepTimer \/ FullTimer

Spec == Init /\ [][Next]_vars

-----------------------------------------------------------------------------
(* Properties *)

(* What the floor hides: an event below it that is not delivered belongs to  *)
(* a transaction that the first probe did not cover (its xid is not below    *)
(* that probe's xmax), or was locked by another replica when it was scanned. *)
(* Batches that roll back, full batches and the tail add nothing (observe).  *)
FloorHides ==
    \A w \in Writers :
        (tx[w].pc = "committed" /\ tx[w].id <= floor /\ tx[w].id \notin delivered) =>
            tx[w].xid >= basis[w] \/ tx[w].id \in passed

-----------------------------------------------------------------------------
(* What a comment of the code says and the code does not keep *)

\* delivery.rs:164: everything up to the floor is delivered.
FloorSound == \A i \in Committed : i <= floor => i \in delivered
=============================================================================
