----------------------------- MODULE CollabDoc -----------------------------
(***************************************************************************)
(* Live editing of one note or slide (crates/collab: hub.rs, doc.rs,       *)
(* saver.rs, store.rs, session.rs): the process-local hub that shares one  *)
(* LiveDoc among the connections, the update log and snapshot in the       *)
(* database, and the file that a debounced task writes back.               *)
(*                                                                         *)
(* A text is the set of the edits it shows: merging updates is union, the  *)
(* import of a file shows exactly what the file has.  An external write of *)
(* the file leaves a text of its own, a negative number.                   *)
(***************************************************************************)
EXTENDS Integers, FiniteSets, Sequences

CONSTANTS
    Conns,         \* connections, one after the other
    Ai,            \* those that are an edit of the AI: join, one edit, leave
    CompactEvery,  \* COMPACT_EVERY
    MaxLoads,      \* bound: LiveDocs restored from the database
    MaxEdits,      \* bound: edits
    MaxExternal,   \* bound: writes of the file by others
    MaxFaults      \* bound: failed calls of the database or the storage, restarts of the process

Docs == 1..MaxLoads
NoDoc == 0

ASSUME CollabAssumption ==
    /\ Ai \subseteq Conns /\ Conns \cap (Docs \cup {NoDoc}) = {}
    /\ CompactEvery \in Nat \ {0} /\ MaxLoads \in Nat \ {0}
    /\ MaxEdits \in Nat /\ MaxExternal \in Nat /\ MaxFaults \in Nat

VARIABLES
    db,       \* collab_doc row and collab_update rows (seq -> edit)
    file,     \* the contents of the versions of the node
    hub,      \* the entry of CollabHub.docs, NoDoc when there is none
    lock,     \* a load holds CollabHub.docs
    live,     \* LiveDocs
    conn,     \* connection -> where its handler is
    save,     \* save_doc in progress, of a saver task or of a leaving connection
    budget,   \* [loads, edits, external, faults] so far
    acked,    \* history: edit -> version of the file when append_update stored it
    replaced, \* history: acked edits that an import took out
    late,     \* history: those of them acked after the imported version was written
    stray,    \* history: a leave took out a LiveDoc that is not its own
    cut       \* history: something else went past the hub: see ImportSound

vars == <<db, file, hub, lock, live, conn, save, budget, acked, replaced, late, stray, cut>>

Text == 1..MaxEdits \cup {-n : n \in 1..MaxExternal}
Dead == [mem |-> {}, dirty |-> FALSE, last |-> 0, appended |-> 0, conns |-> -1]
Out == [pc |-> "out", doc |-> NoDoc, ver |-> 0, n |-> 0, seq |-> 0, text |-> {}]
Rest == [pc |-> "start", text |-> {}, ver |-> 0]

Init ==
    /\ db = [snap |-> {}, snapSeq |-> 0, next |-> 1, log |-> <<>>, saved |-> 0, pending |-> FALSE]
    /\ file = <<{}>>
    /\ hub = NoDoc /\ lock = FALSE
    /\ live = [d \in Docs |-> Dead]
    /\ conn = [c \in Conns |-> [Out EXCEPT !.pc = "new"]]
    /\ save = [a \in Conns \cup Docs |-> Rest]
    /\ budget = [loads |-> 0, edits |-> 0, external |-> 0, faults |-> 0]
    /\ acked = <<>> /\ replaced = {} /\ late = {} /\ stray = FALSE /\ cut = FALSE

-----------------------------------------------------------------------------
(* Helpers *)

IsAt(c, pc) == conn[c].pc = pc
Doc(c) == live[conn[c].doc]
Stay(c, pc) == [Out EXCEPT !.pc = pc, !.doc = conn[c].doc]
Fault == budget.faults < MaxFaults /\ budget' = [budget EXCEPT !.faults = @ + 1]

\* What a load restores: the snapshot and the updates after it.
LoggedAfter(seq) == {q \in DOMAIN db.log : q > seq}
Durable == db.snap \cup {db.log[q] : q \in LoggedAfter(db.snapSeq)}

KeepAfter(log, seq) == [q \in {p \in DOMAIN log : p > seq} |-> log[q]]

\* Faulty variant: the snapshot is replaced even by an older one.
Compacted_always(text, upto) == [db EXCEPT !.snap = text, !.snapSeq = upto, !.log = KeepAfter(@, upto)]

\* DocStore::compact
Compacted(text, upto) ==
    [db EXCEPT !.snap = IF db.snapSeq < upto THEN text ELSE @,
               !.snapSeq = IF @ < upto THEN upto ELSE @,
               !.log = KeepAfter(@, upto)]

\* Faulty variant: the updates after the snapshot are not applied.
Restored_snapshot == [mem |-> db.snap, dirty |-> db.pending, last |-> db.next - 1,
                      appended |-> Cardinality(LoggedAfter(db.snapSeq)), conns |-> 0]

\* LiveDoc::restore: what is pending is marked dirty (import_if_stale).
Restored == [mem |-> Durable, dirty |-> db.pending, last |-> db.next - 1,
             appended |-> Cardinality(LoggedAfter(db.snapSeq)), conns |-> 0]

Holders(d) == {c \in Conns : conn[c].doc = d}

\* The last reference to a LiveDoc is dropped with connection c.
Dropped(c) ==
    LET d == conn[c].doc IN
    IF Holders(d) = {c} /\ hub # d THEN [live EXCEPT ![d] = Dead] ELSE live

\* A LiveDoc that is out of the hub has still to be written to the file.
Unloading ==
    \E c \in Conns : conn[c].pc \in {"unload", "save"} /\ (Doc(c).dirty \/ save[c].pc \notin {"start", "end"})

-----------------------------------------------------------------------------
(* CollabHub::join *)

\* require_file: the version that the join will compare is read before the lock.
Fetch(c) ==
    /\ IsAt(c, "new")
    /\ conn' = [conn EXCEPT ![c].pc = "join", ![c].ver = Len(file)]
    /\ UNCHANGED <<db, file, hub, lock, live, save, budget, acked, replaced, late, stray, cut>>

JoinShared(c) ==
    /\ IsAt(c, "join") /\ ~lock /\ hub # NoDoc
    /\ live' = [live EXCEPT ![hub].conns = @ + 1]
    /\ conn' = [conn EXCEPT ![c] = [Out EXCEPT !.pc = "in", !.doc = hub]]
    /\ UNCHANGED <<db, file, hub, lock, save, budget, acked, replaced, late, stray, cut>>

\* Faulty variant: the marker of a failed save is not looked at.
Stale_unmarked(ver) == db.saved # ver

\* import_if_stale
Stale(ver) == ~db.pending /\ db.saved # ver

\* load_or_init and restore.  Without an import the entry is inserted at once; before an
\* import the lock stays taken.
JoinLoad(c) ==
    LET d == budget.loads + 1
        stale == Stale(conn[c].ver) IN
    /\ IsAt(c, "join") /\ ~lock /\ hub = NoDoc /\ budget.loads < MaxLoads
    /\ budget' = [budget EXCEPT !.loads = d]
    /\ live' = [live EXCEPT ![d] = IF stale THEN Restored ELSE [Restored EXCEPT !.conns = 1]]
    /\ conn' = [conn EXCEPT ![c] = IF stale
                                   THEN [@ EXCEPT !.pc = "import", !.doc = d, !.seq = db.next - 1]
                                   ELSE [Out EXCEPT !.pc = "in", !.doc = d]]
    /\ lock' = stale
    /\ hub' = IF stale THEN hub ELSE d
    /\ cut' = (cut \/ Unloading)
    /\ UNCHANGED <<db, file, save, acked, replaced, late, stray>>

\* import_content reads the file as it is now, whatever version was compared;
\* overwrite_snapshot.
JoinImport(c) ==
    LET text == file[Len(file)]
        gone == (DOMAIN acked \cap Durable) \ text IN
    /\ IsAt(c, "import")
    /\ live' = [live EXCEPT ![conn[c].doc].mem = text]
    /\ db' = [db EXCEPT !.snap = text, !.snapSeq = conn[c].seq, !.log = KeepAfter(@, conn[c].seq)]
    /\ conn' = [conn EXCEPT ![c].pc = "insert"]
    /\ replaced' = replaced \cup gone
    /\ late' = late \cup {e \in gone : acked[e] >= Len(file)}
    /\ UNCHANGED <<file, hub, lock, save, budget, acked, stray, cut>>

\* set_saved_node_version, then the saver is spawned and the entry inserted.
JoinInsert(c) ==
    /\ IsAt(c, "insert")
    /\ db' = [db EXCEPT !.saved = conn[c].ver, !.pending = FALSE]
    /\ hub' = conn[c].doc /\ lock' = FALSE
    /\ live' = [live EXCEPT ![conn[c].doc].conns = 1]
    /\ conn' = [conn EXCEPT ![c] = Stay(c, "in")]
    /\ UNCHANGED <<file, save, budget, acked, replaced, late, stray, cut>>

JoinFail(c) ==
    /\ conn[c].pc \in {"import", "insert"} /\ Fault
    /\ lock' = FALSE /\ live' = Dropped(c)
    /\ conn' = [conn EXCEPT ![c] = Out]
    /\ UNCHANGED <<db, file, hub, save, acked, replaced, late, stray, cut>>

-----------------------------------------------------------------------------
(* handle_client_message, apply_ai_edit *)

After(c) == IF c \in Ai THEN "leave" ELSE "in"

\* The update is applied in memory; the AI marks the document dirty first.
Edit(c) ==
    LET e == budget.edits + 1 IN
    /\ IsAt(c, "in") /\ budget.edits < MaxEdits
    /\ budget' = [budget EXCEPT !.edits = e]
    /\ live' = [live EXCEPT ![conn[c].doc].mem = @ \cup {e},
                            ![conn[c].doc].dirty = @ \/ c \in Ai]
    /\ conn' = [conn EXCEPT ![c].pc = "append", ![c].n = e]
    /\ UNCHANGED <<db, file, hub, lock, save, acked, replaced, late, stray, cut>>

Appended(e) == [db EXCEPT !.next = @ + 1,
                          !.log = [q \in DOMAIN @ \cup {db.next} |-> IF q = db.next THEN e ELSE @[q]]]

\* append_update
AppendUpdate(c) ==
    /\ IsAt(c, "append")
    /\ db' = Appended(conn[c].n)
    /\ acked' = [e \in DOMAIN acked \cup {conn[c].n} |-> IF e = conn[c].n THEN Len(file) ELSE acked[e]]
    /\ conn' = [conn EXCEPT ![c].pc = "record", ![c].seq = db.next]
    /\ UNCHANGED <<file, hub, lock, live, save, budget, replaced, late, stray, cut>>

\* The call fails, perhaps after its commit.  A session ends; the AI tries a snapshot.
AppendFail(c) ==
    /\ IsAt(c, "append") /\ Fault
    /\ db' \in {db, Appended(conn[c].n)}
    /\ conn' = [conn EXCEPT ![c] = IF c \in Ai
                    THEN [@ EXCEPT !.pc = "rescue", !.seq = Doc(c).last, !.text = Doc(c).mem]
                    ELSE [@ EXCEPT !.pc = "leave"]]
    /\ UNCHANGED <<file, hub, lock, live, save, acked, replaced, late, stray, cut>>

\* The rest of apply_and_persist and of persist_ai_update, up to the snapshot it takes.
Record(c) ==
    LET n == Doc(c).appended + 1 IN
    /\ IsAt(c, "record")
    /\ live' = [live EXCEPT ![conn[c].doc].last = conn[c].seq, ![conn[c].doc].dirty = TRUE,
                            ![conn[c].doc].appended = IF n >= CompactEvery THEN 0 ELSE n]
    /\ conn' = [conn EXCEPT ![c] = IF n >= CompactEvery
                    THEN [@ EXCEPT !.pc = "compact", !.text = Doc(c).mem]
                    ELSE Stay(c, After(c))]
    /\ UNCHANGED <<db, file, hub, lock, save, budget, acked, replaced, late, stray, cut>>

Compact(c) ==
    /\ IsAt(c, "compact")
    /\ db' = Compacted(conn[c].text, conn[c].seq)
    /\ conn' = [conn EXCEPT ![c] = Stay(c, After(c))]
    /\ UNCHANGED <<file, hub, lock, live, save, budget, acked, replaced, late, stray, cut>>

\* The snapshot of persist_ai_update after a failed append.
Rescue(c) ==
    /\ IsAt(c, "rescue")
    /\ db' = Compacted(conn[c].text, conn[c].seq)
    /\ live' = [live EXCEPT ![conn[c].doc].appended = 0]
    /\ conn' = [conn EXCEPT ![c].pc = "leave"]
    /\ UNCHANGED <<file, hub, lock, save, budget, acked, replaced, late, stray, cut>>

\* An error ends the session.
CompactFail(c) ==
    /\ conn[c].pc \in {"compact", "rescue"} /\ Fault
    /\ conn' = [conn EXCEPT ![c] = Stay(c, "leave")]
    /\ UNCHANGED <<db, file, hub, lock, live, save, acked, replaced, late, stray, cut>>

-----------------------------------------------------------------------------
(* saver::save_doc, by the saver task of a document (a \in Docs) or by a      *)
(* connection that unloads it                                                 *)

\* Faulty variant: no saver task runs while the document is open.
Saves_unload(a, d) == a \in Conns /\ IsAt(a, "save") /\ conn[a].doc = d

Saves(a, d) ==
    \/ a \in Conns /\ IsAt(a, "save") /\ conn[a].doc = d
    \/ a = d /\ hub = d

Ended(a) == [Rest EXCEPT !.pc = IF a \in Conns THEN "end" ELSE "start"]

\* take_dirty and serialize_content
Take(a, d) ==
    /\ Saves(a, d) /\ save[a].pc = "start"
    /\ live[d].dirty \/ a \in Conns
    /\ live' = [live EXCEPT ![d].dirty = FALSE]
    /\ save' = [save EXCEPT ![a] = IF live[d].dirty THEN [pc |-> "write", text |-> live[d].mem, ver |-> 0]
                                   ELSE Ended(a)]
    /\ UNCHANGED <<db, file, hub, lock, conn, budget, acked, replaced, late, stray, cut>>

\* update_file_content_internal
Write(a, d) ==
    /\ Saves(a, d) /\ save[a].pc = "write"
    /\ file' = Append(file, save[a].text)
    /\ save' = [save EXCEPT ![a].pc = "mark", ![a].ver = Len(file) + 1]
    /\ UNCHANGED <<db, hub, lock, live, conn, budget, acked, replaced, late, stray, cut>>

\* Faulty variant: what could not be written is not dirty again.
WriteFail_clean(a, d) ==
    /\ Saves(a, d) /\ save[a].pc = "write" /\ Fault
    /\ save' = [save EXCEPT ![a] = Ended(a)]
    /\ UNCHANGED <<db, file, hub, lock, live, conn, acked, replaced, late, stray, cut>>

\* The document is dirty again, and the failure is to be recorded.
WriteFail(a, d) ==
    /\ Saves(a, d) /\ save[a].pc = "write" /\ Fault
    /\ live' = [live EXCEPT ![d].dirty = TRUE]
    /\ save' = [save EXCEPT ![a].pc = "pend"]
    /\ UNCHANGED <<db, file, hub, lock, conn, acked, replaced, late, stray, cut>>

\* set_saved_node_version
Mark(a, d) ==
    /\ Saves(a, d) /\ save[a].pc = "mark"
    /\ db' = [db EXCEPT !.saved = save[a].ver, !.pending = FALSE]
    /\ save' = [save EXCEPT ![a] = Ended(a)]
    /\ UNCHANGED <<file, hub, lock, live, conn, budget, acked, replaced, late, stray, cut>>

\* set_pending_save
Pend(a, d) ==
    /\ Saves(a, d) /\ save[a].pc = "pend"
    /\ db' = [db EXCEPT !.pending = TRUE]
    /\ save' = [save EXCEPT ![a] = Ended(a)]
    /\ UNCHANGED <<file, hub, lock, live, conn, budget, acked, replaced, late, stray, cut>>

\* Either mark fails: neither is tried again.
MarkFail(a, d) ==
    /\ Saves(a, d) /\ save[a].pc \in {"mark", "pend"} /\ Fault
    /\ save' = [save EXCEPT ![a] = Ended(a)]
    /\ cut' = (cut \/ save[a].pc = "pend")
    /\ UNCHANGED <<db, file, hub, lock, live, conn, acked, replaced, late, stray>>

-----------------------------------------------------------------------------
(* CollabHub::leave *)

Leave(c) ==
    /\ conn[c].pc \in {"in", "leave"}
    /\ live' = IF Doc(c).conns > 1 THEN [live EXCEPT ![conn[c].doc].conns = @ - 1]
               ELSE [live EXCEPT ![conn[c].doc].conns = 0]
    /\ conn' = [conn EXCEPT ![c] = IF Doc(c).conns > 1 THEN Out ELSE [@ EXCEPT !.pc = "unload"]]
    /\ UNCHANGED <<db, file, hub, lock, save, budget, acked, replaced, late, stray, cut>>

\* Somebody has joined meanwhile.
UnloadNot(c) ==
    /\ IsAt(c, "unload") /\ ~lock /\ Doc(c).conns > 0
    /\ live' = Dropped(c)
    /\ conn' = [conn EXCEPT ![c] = Out]
    /\ UNCHANGED <<db, file, hub, lock, save, budget, acked, replaced, late, stray, cut>>

\* The entry of the node goes, whichever LiveDoc it holds, and its saver is aborted wherever
\* it is.
Unload(c) ==
    /\ IsAt(c, "unload") /\ ~lock /\ Doc(c).conns = 0
    /\ hub' = NoDoc
    /\ conn' = [conn EXCEPT ![c].pc = "save"]
    /\ save' = [a \in DOMAIN save |-> IF a = hub THEN Rest ELSE save[a]]
    /\ stray' = (stray \/ hub \notin {NoDoc, conn[c].doc})
    /\ cut' = (cut \/ stray' \/ (hub # NoDoc /\ save[hub].pc # "start"))
    /\ UNCHANGED <<db, file, lock, live, budget, acked, replaced, late>>

\* compact_now: nothing to do, or a snapshot of everything up to the last seq it stored.
Squash(c) ==
    /\ IsAt(c, "save") /\ save[c].pc = "end"
    /\ save' = [save EXCEPT ![c] = Rest]
    /\ IF Doc(c).appended = 0
       THEN live' = Dropped(c) /\ conn' = [conn EXCEPT ![c] = Out]
       ELSE /\ live' = [live EXCEPT ![conn[c].doc].appended = 0]
            /\ conn' = [conn EXCEPT ![c].pc = "final", ![c].seq = Doc(c).last, ![c].text = Doc(c).mem]
    /\ UNCHANGED <<db, file, hub, lock, budget, acked, replaced, late, stray, cut>>

Final(c) ==
    /\ IsAt(c, "final")
    /\ \/ db' = Compacted(conn[c].text, conn[c].seq) /\ UNCHANGED budget
       \/ Fault /\ UNCHANGED db
    /\ live' = Dropped(c) /\ conn' = [conn EXCEPT ![c] = Out]
    /\ UNCHANGED <<file, hub, lock, save, acked, replaced, late, stray, cut>>

-----------------------------------------------------------------------------
(* The environment *)

External ==
    /\ budget.external < MaxExternal
    /\ budget' = [budget EXCEPT !.external = @ + 1]
    /\ file' = Append(file, {-(budget.external + 1)})
    /\ UNCHANGED <<db, hub, lock, live, conn, save, acked, replaced, late, stray, cut>>

Crash ==
    /\ Fault
    /\ hub' = NoDoc /\ lock' = FALSE
    /\ live' = [d \in Docs |-> Dead]
    /\ conn' = [c \in Conns |-> IF IsAt(c, "new") THEN conn[c] ELSE Out]
    /\ save' = [a \in DOMAIN save |-> Rest]
    /\ cut' = TRUE
    /\ UNCHANGED <<db, file, acked, replaced, late, stray>>

Saver(a, d) == Take(a, d) \/ Write(a, d) \/ WriteFail(a, d) \/ Mark(a, d) \/ Pend(a, d) \/ MarkFail(a, d)

Handler(c) ==
    \/ JoinShared(c) \/ JoinLoad(c) \/ JoinImport(c) \/ JoinInsert(c) \/ JoinFail(c)
    \/ AppendUpdate(c) \/ AppendFail(c) \/ Record(c) \/ Compact(c) \/ Rescue(c) \/ CompactFail(c)
    \/ (IsAt(c, "leave") /\ Leave(c)) \/ UnloadNot(c) \/ Unload(c) \/ Squash(c) \/ Final(c)

Next ==
    \/ \E c \in Conns : Fetch(c) \/ Edit(c) \/ Leave(c) \/ Handler(c)
    \/ \E a \in Conns \cup Docs, d \in Docs : Saver(a, d)
    \/ External \/ Crash

Spec == Init /\ [][Next]_vars
LiveSpec ==
    /\ Spec
    /\ \A c \in Conns : WF_vars(Handler(c))
    /\ \A a \in Conns \cup Docs : WF_vars(\E d \in Docs : Saver(a, d))

-----------------------------------------------------------------------------
(* Properties *)

\* Rows, files, LiveDocs and connections have their types; the snapshot is older than the next
\* number of the log, a document in the hub is loaded, and nobody has seen a row that is not there.
TypeOK ==
    /\ db.snap \subseteq Text /\ db.snapSeq < db.next
    /\ DOMAIN db.log \subseteq 1..(db.next - 1)
    /\ db.pending \in BOOLEAN /\ db.saved \in 0..Len(file)
    /\ \A v \in DOMAIN file : file[v] \subseteq Text
    /\ hub \in Docs \cup {NoDoc} /\ lock \in BOOLEAN
    /\ hub # NoDoc => live[hub] # Dead
    /\ \A d \in Docs : live[d].mem \subseteq Text /\ live[d].last < db.next
    /\ \A c \in Conns : conn[c].doc \in Docs \cup {NoDoc}
    /\ replaced \subseteq DOMAIN acked /\ late \subseteq replaced

\* An update that append_update has stored is never lost: what a load restores (snapshot and
\* log) has it, whatever compactions, failed calls, restarts and unloading documents do, unless
\* an import of the file took it out.  The exception is a leave that takes a LiveDoc still in
\* use out of the hub.
AckedDurable ==
    /\ TypeOK
    /\ ~stray => DOMAIN acked \ replaced \subseteq Durable

\* The LiveDoc in the hub, which every new connection shares, shows every stored update, also
\* when it was loaded while its predecessor was being unloaded.
HubComplete == hub # NoDoc /\ ~stray => DOMAIN acked \ replaced \subseteq live[hub].mem

\* An import takes out only edits that are older than the version it imports: a session's
\* edits win over a file written before them, also when their save has failed (pending_save).
\* The exceptions are what goes past the hub: a restart, a saver aborted between two of its
\* steps, a load during an unload, a leave of another LiveDoc, and a marker that was not stored.
ImportSound == late # {} => cut

\* When nobody has the document open, every stored update has reached a version of the file,
\* or the failed save is recorded for the next load; with the same exceptions.
Written == UNION {file[v] : v \in DOMAIN file}
Quiet == hub = NoDoc /\ \A c \in Conns : conn[c].pc \in {"new", "join", "out"}
CaughtUp == Quiet => DOMAIN acked \ replaced \subseteq Written \/ db.pending \/ cut

\* Again and again there is a moment when every stored update has reached a version of the
\* file, also while the document stays open; when it is closed first, a recorded failure may
\* leave that to the next load.
Settled(e) == e \in Written \cup replaced \/ cut \/ (hub = NoDoc /\ db.pending)
EventuallySaved == []<>(\A e \in DOMAIN acked : Settled(e))

-----------------------------------------------------------------------------
(* Statements of the source that the hub does not keep: see the README *)

\* doc.rs: the bound of compact_now keeps an unloading LiveDoc from deleting updates of
\* another one that are not in its snapshot.
NothingLost == DOMAIN acked \ replaced \subseteq Durable

\* saver.rs: the file that is imported was written by somebody else, after the session.
ImportStrict == late = {}

\* hub.rs: leave saves what is unsaved.
FileStrict == Quiet => DOMAIN acked \ replaced \subseteq Written \/ db.pending

\* doc.rs: persist_ai_update keeps an edit it could not log in a snapshot.
AiRescued == \A c \in Ai : IsAt(c, "leave") /\ conn[c].n # 0 => conn[c].n \in Durable

\* doc.rs: an update that could not be logged is kept by the snapshot of the last leave.
MemoryKept == Quiet /\ ~cut => 1..budget.edits \subseteq Durable \cup replaced

=============================================================================
