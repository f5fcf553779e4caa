---------------------------- MODULE RecordStream ----------------------------
(***************************************************************************)
(* The stream of a table's record changes: writes of records and their     *)
(* outbox events (crates/data/src/stream/outbox.rs), relays that number    *)
(* the events (stream/relay.rs, crates/storage/src/event/stream.rs), the   *)
(* retention of numbered events in the GC (event/gc.rs), the hub that      *)
(* delivers them to a subscriber (stream/hub.rs, stream/batch.rs), the     *)
(* grid that applies them (web/src/components/data/data-grid.tsx) and the  *)
(* export of the table at a position (query/snapshot.rs).                  *)
(*                                                                         *)
(* A row is its revision; a deleted row is a revision that nobody sees.    *)
(* The rights of the subscriber do not change.  Readers change nothing     *)
(* that another reader sees: a behaviour has a grid or an export.          *)
(***************************************************************************)
EXTENDS Integers, Sequences, FiniteSets, FiniteSetsExt

CONSTANTS
    Records,   \* numbered by record_int
    Later,     \* records that are not on the grid's first page
    Shown,     \* <<record, revision>> the subscriber sees
    Relays,    \* processes that relay
    MaxEvents, \* bound: writes
    Slow,      \* events that other consumers are late with
    Batch,     \* RELAY_BATCH
    MaxBatch,  \* StreamConfig.max_batch
    Capacity,  \* room in the channel besides stream.ready
    Retain,    \* StreamConfig.retention
    MaxClock,  \* bound: time
    MaxFaults  \* bound: relay transactions that roll back, connections that break

Ids == 1..MaxEvents

ASSUME StreamAssumption ==
    /\ Records \subseteq Nat \ {0} /\ Later \subseteq Records /\ Slow \subseteq Ids
    /\ {Batch, MaxBatch, Capacity} \subseteq Nat \ {0}
    /\ {MaxEvents, Retain, MaxClock, MaxFaults} \subseteq Nat

VARIABLES
    ev,      \* outbox id -> [st, rec, rev]: none, open (its transaction runs), live or gone
    body,    \* record -> revision of data_record (0: not created)
    num,     \* id -> delivery_seq (0: not numbered)
    due,     \* id -> retain_until
    next,    \* next_seq of outbox_delivery_seq
    late,    \* ids that another registered consumer has yet to have
    numbering, \* process -> [pc, at, batch]
    hint,    \* process -> tail of its ClaimHints
    clock,
    sub,     \* the hub's subscription: [pc, cursor, got, out]
    chan,    \* messages on their way
    grid,    \* [pc, pos, rows]
    page,    \* the further page of the grid: [pc, rows]
    exp,     \* the export: [pc, seq, at, got, holed]
    ref,     \* history: the table at the position of the export
    faults

tables == <<ev, body, num, due, next, late>>
relayState == <<numbering, hint>>
hub == <<sub, chan>>
client == <<grid, page>>
export == <<exp, ref>>
streamVars == <<tables, relayState, clock, hub, client, export, faults>>

Empty == [r \in Records |-> 0]
NoPage == [pc |-> "none", rows |-> Empty]
IdleRelay == [pc |-> "idle", at |-> 0, batch |-> {}]
NoSub == [pc |-> "off", cursor |-> 0, got |-> {}, out |-> <<>>]

StreamInit ==
    /\ ev = [i \in Ids |-> [st |-> "none", rec |-> 0, rev |-> 0]]
    /\ body = Empty /\ num = [i \in Ids |-> 0] /\ due = [i \in Ids |-> 0] /\ next = 1 /\ late = Slow
    /\ numbering = [p \in Relays |-> IdleRelay] /\ hint = [p \in Relays |-> 0] /\ clock = 0
    /\ sub = NoSub /\ chan = <<>>
    /\ \E reader \in {"grid", "export"} :
           /\ grid = [pc |-> IF reader = "grid" THEN "new" ELSE "none", pos |-> 0, rows |-> Empty]
           /\ exp = [pc |-> IF reader = "export" THEN "new" ELSE "none", seq |-> 0, at |-> 0,
                     got |-> Empty, holed |-> FALSE]
    /\ page = NoPage /\ ref = Empty
    /\ faults = 0

Of(r, status) == {i \in Ids : ev[i].rec = r /\ ev[i].st = status}
Live == {i \in Ids : ev[i].st = "live"}
Unnumbered == {i \in Live : num[i] = 0}
Top == next - 1
Fault == faults < MaxFaults /\ faults' = faults + 1

\* The delivery_seq of the rows of the ledger, which the GC deletes with the event.
Kept == {num[i] : i \in Live \ Unnumbered}
EventAt(s) == CHOOSE i \in Ids : num[i] = s

-----------------------------------------------------------------------------
(* Writes *)

\* The row is locked, and the event has its id, until the transaction commits.
Write(r) ==
    \E i \in Ids :
        /\ ev[i].st = "none" /\ \A j \in Ids : j < i => ev[j].st # "none"
        /\ Of(r, "open") = {}
        /\ ev' = [ev EXCEPT ![i] = [st |-> "open", rec |-> r, rev |-> body[r] + 1]]
        /\ UNCHANGED <<body, num, due, next, late, relayState, clock, hub, client, export, faults>>

CommitWrite(i) ==
    /\ ev[i].st = "open"
    /\ ev' = [ev EXCEPT ![i].st = "live"]
    /\ body' = [body EXCEPT ![ev[i].rec] = ev[i].rev]
    /\ UNCHANGED <<num, due, next, late, relayState, clock, hub, client, export, faults>>

-----------------------------------------------------------------------------
(* Relays, other consumers and the GC *)

ClaimedRows(S) == {i \in S : Cardinality({j \in S : j < i}) < Batch}

\* lock_consumer_seq
Unlocked == \A p \in Relays : numbering[p].pc # "hold"

\* claim_batch, from the start or from the tail of the hints.  The transaction began some
\* time before it got the lock.
RelayClaim(p) ==
    /\ numbering[p].pc = "idle" /\ Unnumbered # {} /\ Unlocked
    /\ \E after \in {0, hint[p]}, at \in 0..clock :
           LET rows == ClaimedRows({i \in Unnumbered : after < i}) IN
           /\ numbering' = [numbering EXCEPT ![p] = IF rows = {} THEN IdleRelay
                                            ELSE [pc |-> "hold", at |-> at, batch |-> rows]]
           /\ hint' = [hint EXCEPT ![p] = IF Cardinality(rows) < Batch THEN 0 ELSE Max({@} \cup rows)]
    /\ UNCHANGED <<tables, clock, hub, client, export, faults>>

\* mark_delivered_seq: consecutive numbers in the order of the ids, kept until the time at
\* which the transaction began plus the retention.
RelayCommit(p) ==
    LET batch == numbering[p].batch IN
    /\ numbering[p].pc = "hold"
    /\ num' = [i \in Ids |-> IF i \in batch THEN next + Cardinality({j \in batch : j < i}) ELSE num[i]]
    /\ due' = [i \in Ids |-> IF i \in batch THEN numbering[p].at + Retain ELSE due[i]]
    /\ next' = next + Cardinality(batch)
    /\ numbering' = [numbering EXCEPT ![p] = IdleRelay]
    /\ UNCHANGED <<ev, body, late, hint, clock, hub, client, export, faults>>

\* Faulty variant: the numbers of a batch that rolls back are lost, as those of a sequence.
RelayAbort_burn(p) ==
    /\ numbering[p].pc = "hold" /\ Fault
    /\ numbering' = [numbering EXCEPT ![p] = IdleRelay] /\ next' = next + Cardinality(numbering[p].batch)
    /\ UNCHANGED <<ev, body, num, due, late, hint, clock, hub, client, export>>

\* The transaction rolls back; the hints stay.
RelayAbort(p) ==
    /\ numbering[p].pc = "hold" /\ Fault
    /\ numbering' = [numbering EXCEPT ![p] = IdleRelay]
    /\ UNCHANGED <<tables, hint, clock, hub, client, export>>

\* The other consumers deliver an event.
OtherDelivers(i) ==
    /\ i \in Live \cap late /\ late' = late \ {i}
    /\ UNCHANGED <<ev, body, num, due, next, relayState, clock, hub, client, export, faults>>

\* delete_delivered: the oldest event that everybody has had and no stream retains.
Gc ==
    LET ripe == {i \in Live \ late : num[i] # 0 /\ due[i] <= clock} IN
    /\ ripe # {}
    /\ ev' = [ev EXCEPT ![Min(ripe)].st = "gone"]
    /\ UNCHANGED <<body, num, due, next, late, relayState, clock, hub, client, export, faults>>

Tick ==
    /\ clock < MaxClock /\ clock' = clock + 1
    /\ UNCHANGED <<tables, relayState, hub, client, export, faults>>

-----------------------------------------------------------------------------
(* The grid *)

\* StreamBounds::resumable
Resumable(since) ==
    /\ since <= Top
    /\ since = Top \/ (Kept # {} /\ Min(Kept) <= since + 1)

Visible(r, rev) == <<r, rev>> \in Shown
Seen(S) == [r \in Records |-> IF r \in S /\ Visible(r, body[r]) THEN body[r] ELSE 0]
Reset == [kind |-> "reset", id |-> 0, rec |-> 0, rev |-> 0]

\* The first page, with the position of its snapshot.
ReadFirst ==
    /\ grid.pc = "new"
    /\ grid' = [pc |-> "read", pos |-> Top, rows |-> Seen(Records \ Later)]
    /\ UNCHANGED <<tables, relayState, clock, hub, page, export, faults>>

\* subscribe_records: a position out of the retention is answered with a reset.
Subscribe ==
    /\ grid.pc = "read"
    /\ grid' = [grid EXCEPT !.pc = "on"]
    /\ IF Resumable(grid.pos)
       THEN sub' = [NoSub EXCEPT !.pc = "idle", !.cursor = grid.pos] /\ chan' = <<>>
       ELSE sub' = NoSub /\ chan' = <<Reset>>
    /\ UNCHANGED <<tables, relayState, clock, page, export, faults>>

\* onUpserted and onRemoved: a row that is not loaded is only counted.
Applied(m, rows) ==
    [rows EXCEPT ![m.rec] = IF m.kind = "rm" THEN 0 ELSE IF @ # 0 /\ @ < m.rev THEN m.rev ELSE @]

\* A reset throws the rows away and closes the stream.
Receive ==
    /\ grid.pc = "on" /\ chan # <<>>
    /\ LET m == Head(chan) IN
       IF m.kind = "reset"
       THEN grid' = [pc |-> "new", pos |-> 0, rows |-> Empty] /\ page' = NoPage /\ sub' = NoSub /\ chan' = <<>>
       ELSE /\ grid' = [grid EXCEPT !.pos = m.id, !.rows = Applied(m, @)]
            /\ chan' = Tail(chan) /\ UNCHANGED <<sub, page>>
    /\ UNCHANGED <<tables, relayState, clock, export, faults>>

\* The server has closed the stream: Last-Event-ID is where it goes on.
Reconnect ==
    /\ grid.pc = "on" /\ sub.pc = "off" /\ chan = <<>>
    /\ grid' = [grid EXCEPT !.pc = "read"]
    /\ UNCHANGED <<tables, relayState, clock, hub, page, export, faults>>

\* The connection breaks, or the tab is hidden.
Disconnect ==
    /\ grid.pc = "on" /\ Fault
    /\ grid' = [grid EXCEPT !.pc = "read"] /\ sub' = NoSub /\ chan' = <<>>
    /\ UNCHANGED <<tables, relayState, clock, page, export>>

\* fetchNext: a further page is read, and arrives some time later.
ReadNext ==
    /\ Later # {} /\ grid.pc \in {"read", "on"} /\ page.pc = "none"
    /\ page' = [pc |-> "wait", rows |-> Seen(Later)]
    /\ UNCHANGED <<tables, relayState, clock, hub, grid, export, faults>>

PageArrives ==
    /\ page.pc = "wait" /\ page' = [pc |-> "done", rows |-> Empty]
    /\ grid' = [grid EXCEPT !.rows = [r \in Records |-> IF @[r] = 0 THEN page.rows[r] ELSE @[r]]]
    /\ UNCHANGED <<tables, relayState, clock, hub, export, faults>>

-----------------------------------------------------------------------------
(* The hub *)

Ahead == {s \in Kept : sub.cursor < s}

\* Faulty variant: the hub goes on behind a hole.
Run_holes == {s \in Ahead : Cardinality({t \in Ahead : t < s}) < MaxBatch}

\* load_batch: what follows the cursor without a hole.
Run == {s \in Ahead : s <= sub.cursor + MaxBatch /\ sub.cursor + 1 .. s \subseteq Ahead}

Load ==
    /\ sub.pc = "idle" /\ Run # {}
    /\ sub' = [sub EXCEPT !.pc = "fetch", !.got = Run]
    /\ UNCHANGED <<tables, relayState, clock, chan, client, export, faults>>

\* gap_timeout: the next position cannot be read and a later one can.
GapTimeout ==
    /\ sub.pc = "idle" /\ Ahead # {} /\ Run = {}
    /\ sub' = NoSub
    /\ chan' = IF Len(chan) < Capacity THEN Append(chan, Reset) ELSE chan
    /\ UNCHANGED <<tables, relayState, clock, client, export, faults>>

\* The row as it is now, or its removal if the subscriber saw it before the change.
Kind(s) ==
    LET e == ev[EventAt(s)] IN
    IF Visible(e.rec, body[e.rec]) THEN "up" ELSE IF Visible(e.rec, e.rev - 1) THEN "rm" ELSE "none"

Message(s) ==
    LET e == ev[EventAt(s)] IN [kind |-> Kind(s), id |-> s, rec |-> e.rec, rev |-> body[e.rec]]

\* The messages of a batch in the order of their numbers.
Told == {s \in sub.got : Kind(s) # "none"}
Nth(S, k) == CHOOSE s \in S : Cardinality({t \in S : t <= s}) = k
Messages == [k \in 1..Cardinality(Told) |-> Message(Nth(Told, k))]

\* fetch_rows: the rows are read after the events.
Fetch ==
    /\ sub.pc = "fetch" /\ sub' = [sub EXCEPT !.pc = "send", !.out = Messages]
    /\ UNCHANGED <<tables, relayState, clock, chan, client, export, faults>>

\* send_all: a channel that is full closes the subscription.
Send ==
    /\ sub.pc = "send"
    /\ LET all == chan \o sub.out IN
       IF Len(all) <= Capacity
       THEN chan' = all /\ sub' = [NoSub EXCEPT !.pc = "idle", !.cursor = Max(sub.got)]
       ELSE chan' = SubSeq(all, 1, Capacity) /\ sub' = NoSub
    /\ UNCHANGED <<tables, relayState, clock, client, export, faults>>

-----------------------------------------------------------------------------
(* The export: run_snapshot, a page per record *)

\* The changes of a record after position s, numbered or not.
Changes(r, s) == {i \in Of(r, "live") : num[i] = 0 \/ num[i] > s}

\* Faulty variant: changes that are not numbered yet are left out.
At_numbered(r, s) ==
    LET later == {i \in Of(r, "live") : num[i] > s} IN
    IF later = {} THEN body[r] ELSE Min({ev[i].rev : i \in later}) - 1

\* changed_since and restore_at: the revision before the first change.
At(r, s) ==
    IF Changes(r, s) = {} THEN body[r] ELSE Min({ev[i].rev : i \in Changes(r, s)}) - 1

\* The first page fixes the position; a position out of the retention is refused (Gone).
ExportPage ==
    LET left == {r \in Records : exp.at < r}
        r == Min(left)
        s == IF exp.pc = "new" THEN Top ELSE exp.seq IN
    /\ exp.pc \in {"new", "on"} /\ left # {}
    /\ exp' = IF ~Resumable(s) THEN [exp EXCEPT !.pc = "gone"]
              ELSE [exp EXCEPT !.pc = "on", !.seq = s, !.at = r, !.got[r] = At(r, s),
                               !.holed = @ \/ \E i \in Of(r, "gone") : num[i] > s]
    /\ ref' = IF exp.pc # "new" THEN ref
              ELSE [q \in Records |-> Min({body[q]} \cup {ev[i].rev - 1 : i \in Changes(q, Top)})]
    /\ UNCHANGED <<tables, relayState, clock, hub, client, faults>>

-----------------------------------------------------------------------------
NumberStep(p) == RelayClaim(p) \/ RelayCommit(p)
Hub == Load \/ GapTimeout \/ Fetch \/ Send
Grid == ReadFirst \/ Subscribe \/ Receive \/ Reconnect

StreamNext ==
    \/ \E r \in Records : Write(r)
    \/ \E i \in Ids : CommitWrite(i) \/ OtherDelivers(i)
    \/ \E p \in Relays : NumberStep(p) \/ RelayAbort(p)
    \/ Gc \/ Tick \/ Hub \/ Grid \/ Disconnect \/ ExportPage

StreamSpec == StreamInit /\ [][StreamNext]_streamVars

\* The grid reads on while its subscription is open.
StreamPagedSpec == StreamInit /\ [][StreamNext \/ ReadNext \/ PageArrives]_streamVars

\* Transactions end, the relay, the hub and the browser go on.
StreamLiveSpec ==
    /\ StreamSpec /\ WF_streamVars(Hub) /\ WF_streamVars(Grid)
    /\ \A p \in Relays : WF_streamVars(NumberStep(p))
    /\ \A i \in Ids : WF_streamVars(CommitWrite(i))

-----------------------------------------------------------------------------
(* Properties *)

\* What the tables and the hub's state may hold: only numbered events are deleted, a relay
\* holds events without a number, and no position is ahead of the numbers.
StreamTypeOK ==
    /\ \A i \in Ids : ev[i].st \in {"none", "open", "live", "gone"}
    /\ \A i \in Ids : ev[i].st = "gone" => num[i] # 0
    /\ \A p \in Relays : numbering[p].pc = "hold" <=> numbering[p].batch # {}
    /\ \A p \in Relays : numbering[p].batch \subseteq Unnumbered
    /\ Len(chan) <= Capacity /\ sub.cursor <= Top /\ grid.pos <= Top

\* The numbers given out are 1, 2, ... without a hole or a repetition, however relays compete
\* and roll back: who sees a number can rely on all the smaller ones (mark_delivered_seq).
Contiguous ==
    /\ StreamTypeOK
    /\ {num[i] : i \in Ids} \ {0} = 1..Top
    /\ \A i, j \in Ids : num[i] = num[j] /\ num[i] # 0 => i = j

Stale(r) == grid.rows[r] # 0 /\ grid.rows[r] # Seen({r})[r]
Awaited(r) == \E i \in Of(r, "live") \cup Of(r, "gone") : num[i] = 0 \/ num[i] > grid.pos

\* A row of the grid (which has read one page) that is not the row of the table, or not to be seen any
\* more, has a change that the grid has not had yet: it lies after Last-Event-ID or has no
\* number.
NothingMissed ==
    grid.pc \in {"read", "on"} => \A r \in Records : Stale(r) => Awaited(r)

\* Every page of an export shows the table at the position of the first one, or the export is
\* refused, unless the GC has taken a change after that position and left an older one.
ExportSound == ~exp.holed => \A r \in Records : r <= exp.at => exp.got[r] = ref[r]

-----------------------------------------------------------------------------
(* What comments of the code say and the code does not keep *)

\* relay.rs:7: the changes of a record are numbered in the order of their revisions.
RevOrder ==
    \A i, j \in Ids : ev[i].rec = ev[j].rec /\ ev[i].rev < ev[j].rev /\ num[j] # 0 => num[i] \in 1..num[j]

\* stream.rs:242 (resumable) and snapshot.rs:5: an export is refused or complete.
ExportStrict == \A r \in Records : r <= exp.at => exp.got[r] = ref[r]

\* hub.rs:19: what the GC has taken is not passed over in silence.
EventuallyCurrent == []<>(\A r \in Records : ~Stale(r))
=============================================================================
