-------------------------- MODULE CollabDoc_proofs --------------------------
(***************************************************************************)
(* Safety of CollabDoc for every number of connections, loads, edits,      *)
(* external writes and faults.  The inductive invariant has three layers:  *)
(* who holds which LiveDoc (always), what the log, the snapshots and the   *)
(* LiveDocs have of the stored edits (unless a leave took a LiveDoc that   *)
(* is not its own), and what the file will get of them (unless something   *)
(* went past the hub).                                                     *)
(***************************************************************************)
EXTENDS CollabDoc, FiniteSetTheorems, TLAPS

Editing == {"in", "append", "record", "compact", "rescue", "leave"}
Loading == {"import", "insert"}
Apart == {"new", "join", "out"}
Pcs == Editing \cup Loading \cup Apart \cup {"unload", "save", "final"}

ConnRow == [pc : Pcs, doc : Docs \cup {NoDoc}, ver : Nat, n : Nat, seq : Nat, text : SUBSET Text]
LiveRow == [mem : SUBSET Text, dirty : BOOLEAN, last : Nat, appended : Nat, conns : Nat \cup {-1}]
SaveRow == [pc : {"start", "write", "mark", "pend", "end"}, text : SUBSET Text, ver : Nat]

DbShape ==
    /\ DOMAIN db = {"snap", "snapSeq", "next", "log", "saved", "pending"}
    /\ db.snap \subseteq Text /\ db.snapSeq \in Nat /\ db.next \in Nat /\ db.snapSeq < db.next
    /\ DOMAIN db.log \subseteq 1..(db.next - 1) /\ \A q \in DOMAIN db.log : db.log[q] \in Text
    /\ db.saved \in Nat /\ db.saved <= Len(file) /\ db.pending \in BOOLEAN

Shapes ==
    /\ DbShape
    /\ file \in Seq(SUBSET Text) /\ file # <<>>
    /\ hub \in Docs \cup {NoDoc} /\ lock \in BOOLEAN /\ stray \in BOOLEAN /\ cut \in BOOLEAN
    /\ live \in [Docs -> LiveRow] /\ conn \in [Conns -> ConnRow] /\ save \in [Conns \cup Docs -> SaveRow]
    /\ budget \in [loads : 0..MaxLoads, edits : 0..MaxEdits, external : 0..MaxExternal, faults : Nat]

\* Numbers of the log and of versions that somebody has are there.
Numbers ==
    /\ \A d \in Docs : live[d].last < db.next
    /\ \A c \in Conns : conn[c].seq < db.next /\ conn[c].ver <= Len(file) /\ conn[c].n <= budget.edits
    /\ \A a \in Conns \cup Docs : save[a].ver <= Len(file)

\* An edit is stored once, and by the connection that made it.
Acks ==
    /\ DOMAIN acked \subseteq 1..budget.edits /\ \A e \in DOMAIN acked : acked[e] \in Nat /\ acked[e] <= Len(file)
    /\ replaced \subseteq DOMAIN acked /\ late \subseteq replaced
    /\ \A c \in Conns : IsAt(c, "append") => conn[c].n \in (1..budget.edits) \ DOMAIN acked
    /\ \A b, c \in Conns : IsAt(b, "append") /\ IsAt(c, "append") /\ conn[b].n = conn[c].n => b = c

\* Who edits a LiveDoc is counted in it, and who holds one finds it alive.
Editors(d) == {c \in Conns : conn[c].doc = d /\ conn[c].pc \in Editing}
Counted ==
    /\ \A c \in Conns : conn[c].doc = NoDoc <=> conn[c].pc \in Apart
    /\ \A c \in Conns : conn[c].doc # NoDoc => conn[c].doc <= budget.loads /\ Doc(c).conns # -1
    /\ \A d \in Docs : live[d].conns # -1 => IsFiniteSet(Editors(d)) /\ live[d].conns = Cardinality(Editors(d))

\* One load at a time, of a LiveDoc that nobody else has.
Loads ==
    /\ lock <=> \E c \in Conns : conn[c].pc \in Loading
    /\ \A b, c \in Conns : conn[b].pc \in Loading /\ conn[c].doc = conn[b].doc => b = c
    /\ \A b, c \in Conns : conn[b].pc \in Loading /\ conn[c].pc \in Loading => b = c
    /\ lock => hub = NoDoc
    /\ hub # NoDoc => hub <= budget.loads /\ live[hub].conns # -1
    /\ \A c \in Conns : conn[c].pc \in {"save", "final"} => conn[c].doc # hub

\* Only savers of the LiveDoc in the hub, and of those being unloaded, are at work.
Savers ==
    /\ \A c \in Conns : conn[c].pc # "save" => save[c] = Rest
    /\ \A d \in Docs : d # hub => save[d] = Rest

HeldInv == Shapes /\ Numbers /\ Acks /\ Counted /\ Loads /\ Savers

\* The stored edits that are to be found.
Stored == DOMAIN acked \ replaced

\* A snapshot of everything up to a number: the log has the rest, or a newer one is there.
Logged(seq) == {db.log[q] : q \in LoggedAfter(seq)}
Covers(text, seq) == seq <= db.snapSeq \/ Stored \subseteq text \cup Logged(seq)

EditsInHub ==
    /\ \A c \in Conns : conn[c].pc \in Editing => conn[c].doc = hub
    /\ \A c \in Conns : IsAt(c, "append") => conn[c].n \in Doc(c).mem

Snapshots ==
    /\ Stored \subseteq Durable
    /\ \A c \in Conns : conn[c].pc \in {"compact", "rescue", "final"} => Covers(conn[c].text, conn[c].seq)
    /\ \A d \in Docs : Covers(live[d].mem, live[d].last)

Complete ==
    /\ hub # NoDoc => Stored \subseteq live[hub].mem
    /\ \A c \in Conns : IsAt(c, "import") => conn[c].seq = db.next - 1
    /\ \A c \in Conns : IsAt(c, "insert") => Stored \subseteq Doc(c).mem

LogInv == ~stray => EditsInHub /\ Snapshots /\ Complete

\* The version that has an edit is newer than its row of the log.
Reached(e) == e \in Written /\ acked[e] < Len(file)

\* What is out of the hub and not written yet.
Leaving(c) == conn[c].pc \in {"unload", "save"}
Unwritten(c) == Doc(c).dirty \/ save[c].pc \notin {"start", "end"}
Alone == hub = NoDoc /\ ~lock

\* While a LiveDoc is open or loaded, the others have been written; when none is, those that
\* have not been written have all edits.
Leavers ==
    /\ ~Alone => \A c \in Conns : Leaving(c) /\ conn[c].doc # hub => ~Unwritten(c)
    /\ Alone => \A c \in Conns : Leaving(c) =>
          /\ Unwritten(c) => Stored \subseteq Doc(c).mem
          /\ save[c].pc = "write" => Stored \subseteq save[c].text
          /\ save[c].pc = "mark" => \A e \in Stored : Reached(e)

\* Who will bring an edit into the file.
Cover(e) ==
    \/ hub # NoDoc /\ (live[hub].dirty \/ (save[hub].pc = "write" /\ e \in save[hub].text)
                         \/ \E c \in Conns : IsAt(c, "record"))
    \/ Alone /\ (db.pending \/ \E c \in Conns : IsAt(c, "save") /\
                    (save[c].pc \in {"write", "pend"} \/ (save[c].pc = "start" /\ Doc(c).dirty)))

FileInv ==
    /\ stray => cut
    /\ ~cut => /\ Leavers
               /\ \A e \in Stored : Reached(e) \/ Cover(e)
               /\ \A e \in replaced : acked[e] < Len(file)
               /\ late = {}

CollabInv == HeldInv /\ LogInv /\ FileInv

-----------------------------------------------------------------------------
(* The fields of rows, and what data the log layer is about *)

LEMMA Fields ==
    ASSUME Shapes
    PROVE  /\ \A c \in Conns : /\ conn[c].pc \in Pcs /\ conn[c].doc \in Docs \cup {NoDoc} /\ conn[c].text \subseteq Text
                               /\ conn[c].ver \in Nat /\ conn[c].n \in Nat /\ conn[c].seq \in Nat
           /\ \A d \in Docs : /\ live[d].mem \subseteq Text /\ live[d].last \in Nat /\ live[d].appended \in Nat
                              /\ live[d].conns \in Nat \cup {-1}
           /\ \A a \in Conns \cup Docs : save[a].pc \in {"start", "write", "mark", "pend", "end"} /\ save[a].ver \in Nat
                                         /\ save[a].text \subseteq Text
           /\ budget.loads \in 0..MaxLoads /\ budget.edits \in 0..MaxEdits /\ budget.external \in 0..MaxExternal
           /\ budget.faults \in Nat /\ budget.loads \in Nat /\ budget.edits \in Nat
           /\ Len(file) \in Nat /\ Len(file) >= 1
           /\ NoDoc \notin Docs /\ \A d \in Docs : d \in Nat
<1>1. \A c \in Conns : /\ conn[c].pc \in Pcs /\ conn[c].doc \in Docs \cup {NoDoc} /\ conn[c].text \subseteq Text
                       /\ conn[c].ver \in Nat /\ conn[c].n \in Nat /\ conn[c].seq \in Nat
  BY DEF Shapes, ConnRow
<1>2. \A d \in Docs : /\ live[d].mem \subseteq Text /\ live[d].last \in Nat /\ live[d].appended \in Nat
                      /\ live[d].conns \in Nat \cup {-1}
  BY DEF Shapes, LiveRow
<1>3. \A a \in Conns \cup Docs : save[a].pc \in {"start", "write", "mark", "pend", "end"} /\ save[a].ver \in Nat
                                 /\ save[a].text \subseteq Text
  BY DEF Shapes, SaveRow
<1>4. /\ budget.loads \in 0..MaxLoads /\ budget.edits \in 0..MaxEdits /\ budget.external \in 0..MaxExternal
      /\ budget.faults \in Nat
  BY DEF Shapes
<1>5. budget.loads \in Nat /\ budget.edits \in Nat
  BY <1>4, CollabAssumption
<1>6. Len(file) \in Nat /\ Len(file) >= 1
  BY DEF Shapes
<1>7. NoDoc \notin Docs /\ \A d \in Docs : d \in Nat
  BY CollabAssumption DEF Docs, NoDoc
<1> QED BY <1>1, <1>2, <1>3, <1>4, <1>5, <1>6, <1>7

\* A connection that is nowhere, or has not begun.
LEMMA OutRow ==
    /\ Out \in ConnRow /\ [Out EXCEPT !.pc = "new"] \in ConnRow
    /\ Out.pc = "out" /\ [Out EXCEPT !.pc = "new"].pc = "new"
    /\ \A r \in {Out, [Out EXCEPT !.pc = "new"]} : r.doc = NoDoc /\ r.ver = 0 /\ r.n = 0 /\ r.seq = 0 /\ r.text = {}
<1>1. {"out", "new"} \subseteq Pcs /\ {} \in SUBSET Text /\ 0 \in Nat /\ NoDoc \in Docs \cup {NoDoc}
  BY DEF Pcs, Apart
<1>2. [Out EXCEPT !.pc = "new"] = [pc |-> "new", doc |-> NoDoc, ver |-> 0, n |-> 0, seq |-> 0, text |-> {}]
  BY DEF Out
<1>3. Out \in ConnRow
  BY <1>1 DEF Out, ConnRow
<1>4. [Out EXCEPT !.pc = "new"] \in ConnRow
  BY <1>1, <1>2 DEF ConnRow
<1> QED BY <1>2, <1>3, <1>4 DEF Out

LEMMA InitInv == Init => CollabInv
<1> SUFFICES ASSUME Init PROVE CollabInv
  OBVIOUS
<1> USE DEF Init
<1>1. {} \subseteq Text /\ NoDoc \notin Docs
  BY CollabAssumption DEF Docs, NoDoc
<1>2. Out \in ConnRow /\ [Out EXCEPT !.pc = "new"] \in ConnRow
  BY OutRow
<1>3. Dead \in LiveRow /\ Rest \in SaveRow
  BY <1>1 DEF Dead, LiveRow, Rest, SaveRow
<1>4. file \in Seq(SUBSET Text) /\ Len(file) = 1 /\ file # <<>>
  BY <1>1
<1>5. Shapes
  <2>1. DbShape
    BY <1>1, <1>4 DEF DbShape
  <2>2. budget \in [loads : 0..MaxLoads, edits : 0..MaxEdits, external : 0..MaxExternal, faults : Nat]
    BY CollabAssumption
  <2> QED BY <1>2, <1>3, <1>4, <2>1, <2>2 DEF Shapes
<1>6. \A c \in Conns : conn[c].pc = "new" /\ conn[c].doc = NoDoc /\ conn[c].seq = 0 /\ conn[c].ver = 0 /\ conn[c].n = 0
  BY OutRow
<1>7. \A d \in Docs : live[d] = Dead /\ live[d].conns = -1 /\ live[d].last = 0
  BY DEF Dead
<1>8. \A a \in Conns \cup Docs : save[a] = Rest /\ save[a].ver = 0
  BY DEF Rest
<1>9. Numbers
  <2>1. db.next = 1 /\ budget.edits = 0
    OBVIOUS
  <2> HIDE DEF Init
  <2> QED BY <1>4, <1>6, <1>7, <1>8, <2>1 DEF Numbers
<1>10. Acks
  BY <1>6 DEF Acks, IsAt
<1>11. Counted /\ Loads /\ Savers
  BY <1>6, <1>7, <1>8 DEF Counted, Loads, Savers, Apart, Loading, Editors
<1>12. LogInv
  <2>1. Stored = {}
    BY DEF Stored
  <2> QED BY <1>6, <2>1 DEF LogInv, EditsInHub, Snapshots, Complete, Covers, IsAt, Editing
<1>13. FileInv
  BY <1>6 DEF FileInv, Leavers, Stored, Alone, Leaving
<1> QED BY <1>5, <1>9, <1>10, <1>11, <1>12, <1>13 DEF CollabInv, HeldInv

\* Steps that leave the log and the stored edits alone.
DataSame ==
    /\ db'.snap = db.snap /\ db'.snapSeq = db.snapSeq /\ db'.next = db.next /\ db'.log = db.log
    /\ acked' = acked /\ replaced' = replaced

LEMMA SameData ==
    ASSUME DataSame
    PROVE  /\ Stored' = Stored /\ Durable' = Durable
           /\ \A t, s : Covers(t, s)' = Covers(t, s)
BY DEF DataSame, Stored, Durable, Covers, Logged, LoggedAfter

\* More versions of the file: nothing that had reached it is lost.
LEMMA MoreVersions ==
    ASSUME Shapes, NEW t \in SUBSET Text, file' = Append(file, t)
    PROVE  /\ file' \in Seq(SUBSET Text) /\ file' # <<>> /\ Len(file') = Len(file) + 1
           /\ Written' = Written \cup t
<1>1. file \in Seq(SUBSET Text)
  BY DEF Shapes
<1>2. /\ file' \in Seq(SUBSET Text) /\ Len(file') = Len(file) + 1 /\ Len(file) \in Nat
      /\ file'[Len(file) + 1] = t /\ \A v \in 1..Len(file) : file'[v] = file[v]
      /\ DOMAIN file = 1..Len(file) /\ DOMAIN file' = 1..(Len(file) + 1)
  BY <1>1
<1>3. file' # <<>>
  BY <1>2
<1>4. Written' = Written \cup t
  <2>1. ASSUME NEW e \in Written' PROVE e \in Written \cup t
    <3>1. PICK v \in 1..(Len(file) + 1) : e \in file'[v]
      BY <1>2 DEF Written
    <3>2. v = Len(file) + 1 \/ v \in 1..Len(file)
      BY <1>2
    <3> QED BY <1>2, <3>1, <3>2 DEF Written
  <2>2. ASSUME NEW e \in Written PROVE e \in Written'
    <3>1. PICK v \in 1..Len(file) : e \in file[v]
      BY <1>2 DEF Written
    <3>2. v \in DOMAIN file' /\ e \in file'[v]
      BY <1>2, <3>1
    <3> QED BY <3>2 DEF Written
  <2>3. ASSUME NEW e \in t PROVE e \in Written'
    <3>1. Len(file) + 1 \in DOMAIN file'
      BY <1>2
    <3> QED BY <1>2, <3>1 DEF Written
  <2> QED BY <2>1, <2>2, <2>3
<1> QED BY <1>2, <1>3, <1>4

\* A LiveDoc that connection c lets go stays as it is, or nobody has it.
LEMMA Drops ==
    ASSUME Shapes, NEW c \in Conns, conn[c].doc \in Docs, live' = Dropped(c)
    PROVE  /\ live' \in [Docs -> LiveRow]
           /\ \A d \in Docs : \/ live'[d] = live[d]
                              \/ live'[d] = Dead /\ d = conn[c].doc /\ hub # d /\ Holders(d) = {c}
<1>1. Dead \in LiveRow
  BY DEF Dead, LiveRow
<1>2. live \in [Docs -> LiveRow]
  BY DEF Shapes
<1>3. CASE Holders(conn[c].doc) = {c} /\ hub # conn[c].doc
  <2>1. live' = [live EXCEPT ![conn[c].doc] = Dead]
    BY <1>3 DEF Dropped
  <2> QED BY <1>1, <1>2, <1>3, <2>1
<1>4. CASE ~(Holders(conn[c].doc) = {c} /\ hub # conn[c].doc)
  <2>1. live' = live
    BY <1>4 DEF Dropped
  <2> QED BY <1>2, <2>1
<1> QED BY <1>3, <1>4

-----------------------------------------------------------------------------
(* What steps leave alone *)

\* The connections stay where they are, as far as the LiveDocs and the hub see.
Places ==
    /\ \A b \in Conns : /\ conn'[b].doc = conn[b].doc
                        /\ conn'[b].pc \in Editing <=> conn[b].pc \in Editing
                        /\ conn'[b].pc \in Loading <=> conn[b].pc \in Loading
                        /\ conn'[b].pc \in Apart <=> conn[b].pc \in Apart
                        /\ conn'[b].pc \in {"save", "final"} <=> conn[b].pc \in {"save", "final"}
    /\ \A d \in Docs : live'[d].conns = live[d].conns
    /\ hub' = hub /\ lock' = lock /\ budget'.loads = budget.loads

LEMMA SamePlaces ==
    ASSUME Shapes, Counted, Loads, Places
    PROVE  Counted' /\ Loads'
<1>1. \A d : Editors(d)' = Editors(d)
  BY DEF Places, Editors
<1>2. \A b \in Conns : conn[b].doc # NoDoc => conn[b].doc \in Docs
  BY Fields
<1>3. Counted'
  BY <1>1, <1>2 DEF Counted, Places, Doc
<1>4. hub # NoDoc => hub \in Docs
  BY DEF Shapes
<1>5. Loads'
  BY <1>4 DEF Loads, Places
<1> QED BY <1>3, <1>5

\* The acknowledgements are untouched.
SameHistory == acked' = acked /\ replaced' = replaced /\ late' = late /\ budget'.edits = budget.edits

LEMMA SameAcks ==
    ASSUME Shapes, Acks, SameHistory, Len(file') \in Nat, Len(file) <= Len(file'),
           \A b \in Conns : conn'[b].pc = "append" => conn[b].pc = "append" /\ conn'[b].n = conn[b].n
    PROVE  Acks'
<1>1. Len(file) \in Nat
  BY Fields
<1>2. \A e \in DOMAIN acked : acked[e] \in Nat /\ acked[e] <= Len(file')
  BY <1>1 DEF Acks
<1>3. DOMAIN acked \subseteq 1..budget.edits /\ replaced \subseteq DOMAIN acked /\ late \subseteq replaced
  BY DEF Acks
<1>4. \A b \in Conns : conn'[b].pc = "append" => conn'[b].n \in (1..budget.edits) \ DOMAIN acked
  BY DEF Acks, IsAt
<1>5. \A b, c \in Conns : conn'[b].pc = "append" /\ conn'[c].pc = "append" /\ conn'[b].n = conn'[c].n => b = c
  BY DEF Acks, IsAt
<1> QED BY <1>2, <1>3, <1>4, <1>5 DEF Acks, SameHistory, IsAt

\* The log, the file and the edits only grow.
Growing ==
    /\ db'.next \in Nat /\ db.next <= db'.next
    /\ Len(file') \in Nat /\ Len(file) <= Len(file')
    /\ budget'.edits \in Nat /\ budget.edits <= budget'.edits

LEMMA MoreNumbers ==
    ASSUME Shapes, Numbers, Growing,
           \A d \in Docs : live'[d].last = live[d].last \/ live'[d].last < db'.next,
           \A b \in Conns : /\ conn'[b].seq = conn[b].seq \/ conn'[b].seq < db'.next
                            /\ conn'[b].ver = conn[b].ver \/ conn'[b].ver <= Len(file')
                            /\ conn'[b].n = conn[b].n \/ conn'[b].n <= budget'.edits,
           \A a \in Conns \cup Docs : save'[a].ver = save[a].ver \/ save'[a].ver <= Len(file')
    PROVE  Numbers'
<1>1. Len(file) \in Nat /\ db.next \in Nat /\ budget.edits \in Nat
  BY Fields DEF Shapes, DbShape
<1>2. \A d \in Docs : live'[d].last < db'.next
  BY <1>1, Fields DEF Growing, Numbers
<1>3. \A b \in Conns : conn'[b].seq < db'.next
  BY <1>1, Fields DEF Growing, Numbers
<1>4. \A b \in Conns : conn'[b].ver <= Len(file')
  BY <1>1, Fields DEF Growing, Numbers
<1>5. \A b \in Conns : conn'[b].n <= budget'.edits
  BY <1>1, Fields DEF Growing, Numbers
<1>6. \A a \in Conns \cup Docs : save'[a].ver <= Len(file')
  BY <1>1, Fields DEF Growing, Numbers
<1> QED BY <1>2, <1>3, <1>4, <1>5, <1>6 DEF Numbers

\* A stored edit is still to be found wherever it was: Covers after the step.
CoversNext(text, seq) ==
    \/ seq <= db'.snapSeq
    \/ Stored' \subseteq text \cup {db'.log[q] : q \in {p \in DOMAIN db'.log : p > seq}}

Kept ==
    /\ Stored \subseteq Durable => (Stored \subseteq Durable)'
    /\ \A t \in SUBSET Text, s \in Nat : s < db.next /\ Covers(t, s) => CoversNext(t, s)

LEMMA SameKept == ASSUME DataSame PROVE Kept
BY SameData DEF Kept, DataSame, Covers, CoversNext, Logged, LoggedAfter

Snapping == {"compact", "rescue", "final"}

LEMMA MoreSnapshots ==
    ASSUME Shapes, Shapes', Numbers, Snapshots, Kept,
           \A b \in Conns : conn'[b].pc \in Snapping =>
               \/ conn[b].pc \in Snapping /\ conn'[b].text = conn[b].text /\ conn'[b].seq = conn[b].seq
               \/ \E d \in Docs : conn'[b].text = live[d].mem /\ conn'[b].seq = live[d].last
               \/ Stored' \subseteq conn'[b].text,
           \A d \in Docs : \/ live[d].mem \subseteq live'[d].mem /\ live'[d].last = live[d].last
                           \/ live'[d].last = 0
                           \/ Stored' \subseteq live'[d].mem
    PROVE  Snapshots'
<1>1. \A b \in Conns : conn[b].text \in SUBSET Text /\ conn[b].seq \in Nat /\ conn[b].seq < db.next
  BY Fields DEF Numbers
<1>2. \A d \in Docs : live[d].mem \in SUBSET Text /\ live[d].last \in Nat /\ live[d].last < db.next
  BY Fields DEF Numbers
<1>3. (Stored \subseteq Durable)'
  BY DEF Snapshots, Kept
<1>4. \A d \in Docs : CoversNext(live[d].mem, live[d].last)
  BY <1>2 DEF Snapshots, Kept
<1>5. \A d \in Docs : CoversNext(live'[d].mem, live'[d].last)
  <2>1. db'.snapSeq \in Nat
    BY DEF Shapes, DbShape
  <2> SUFFICES ASSUME NEW d \in Docs PROVE CoversNext(live'[d].mem, live'[d].last)
    OBVIOUS
  <2>2. CASE live[d].mem \subseteq live'[d].mem /\ live'[d].last = live[d].last
    BY <1>4, <2>2 DEF CoversNext
  <2>3. CASE live'[d].last = 0
    BY <2>1, <2>3 DEF CoversNext
  <2>4. CASE Stored' \subseteq live'[d].mem
    BY <2>4 DEF CoversNext
  <2> QED BY <2>2, <2>3, <2>4
<1>6. \A b \in Conns : conn'[b].pc \in Snapping => CoversNext(conn'[b].text, conn'[b].seq)
  <2> SUFFICES ASSUME NEW b \in Conns, conn'[b].pc \in Snapping PROVE CoversNext(conn'[b].text, conn'[b].seq)
    OBVIOUS
  <2>1. CASE conn[b].pc \in Snapping /\ conn'[b].text = conn[b].text /\ conn'[b].seq = conn[b].seq
    <3>1. Covers(conn[b].text, conn[b].seq)
      BY <2>1 DEF Snapshots, Snapping
    <3> QED BY <1>1, <2>1, <3>1 DEF Kept
  <2>2. CASE \E d \in Docs : conn'[b].text = live[d].mem /\ conn'[b].seq = live[d].last
    BY <1>4, <2>2
  <2>3. CASE Stored' \subseteq conn'[b].text
    BY <2>3 DEF CoversNext
  <2> QED BY <2>1, <2>2, <2>3
<1> QED BY <1>3, <1>5, <1>6 DEF Snapshots, Snapping, CoversNext, Covers, Logged, LoggedAfter

\* No more edits are stored and none is lost, and nobody begins to edit, to snapshot or to load
\* anything else than what the hub or a LiveDoc has.
LEMMA SameLog ==
    ASSUME Shapes, Shapes', Numbers, Counted', LogInv, stray' = stray, hub' = hub,
           Stored' = Stored, db'.next = db.next, LogInv /\ ~stray => Kept,
           \A b \in Conns :
               /\ conn'[b].pc \in Editing => conn'[b].doc = hub \/ (conn[b].pc \in Editing /\ conn'[b].doc = conn[b].doc)
               /\ conn'[b].pc = "append" => \/ conn'[b].n \in live'[conn'[b].doc].mem
                                            \/ conn[b].pc = "append" /\ conn'[b].n = conn[b].n /\ conn'[b].doc = conn[b].doc
               /\ conn'[b].pc \in Snapping =>
                      \/ conn[b].pc \in Snapping /\ conn'[b].text = conn[b].text /\ conn'[b].seq = conn[b].seq
                      \/ \E d \in Docs : conn'[b].text = live[d].mem /\ conn'[b].seq = live[d].last
                      \/ ~stray => Stored \subseteq conn'[b].text
               /\ conn'[b].pc \in Loading => conn'[b] = conn[b],
           \A d \in Docs :
               \/ live[d].mem \subseteq live'[d].mem /\ (live'[d].last = live[d].last \/ (~stray => Stored \subseteq live[d].mem))
               \/ live'[d] = Dead /\ d # hub /\ \A b \in Conns : conn'[b].doc # d
    PROVE  LogInv'
<1> SUFFICES ASSUME ~stray PROVE (EditsInHub /\ Snapshots /\ Complete)'
  BY DEF LogInv
<1>1. EditsInHub /\ Snapshots /\ Complete
  BY DEF LogInv
<1>2. Stored' = Stored /\ Kept
  OBVIOUS
<1>3. \A b \in Conns : conn'[b].doc \in Docs \cup {NoDoc}
  BY DEF Shapes, ConnRow
<1>4. \A d \in Docs : live[d].mem \subseteq live'[d].mem \/ (d # hub /\ \A b \in Conns : conn'[b].doc # d)
  OBVIOUS
<1>5. Snapshots'
  <2>1. \A d \in Docs : \/ live[d].mem \subseteq live'[d].mem /\ live'[d].last = live[d].last
                        \/ live'[d].last = 0
                        \/ Stored' \subseteq live'[d].mem
    BY <1>2 DEF Dead
  <2> QED BY <1>1, <1>2, <2>1, MoreSnapshots
<1>6. \A b \in Conns : conn[b].pc \in Editing => conn[b].doc = hub
  BY <1>1 DEF EditsInHub
<1>7. \A b \in Conns : conn'[b].pc \in Editing => conn'[b].doc = hub
  BY <1>6
<1>8. ASSUME NEW b \in Conns, conn'[b].pc = "append" PROVE conn'[b].n \in live'[conn'[b].doc].mem
  <2>1. CASE conn[b].pc = "append" /\ conn'[b].n = conn[b].n /\ conn'[b].doc = conn[b].doc
    <3>1. conn[b].n \in live[conn[b].doc].mem
      BY <1>1, <2>1 DEF EditsInHub, IsAt, Doc
    <3>2. conn[b].doc = hub
      BY <1>6, <2>1 DEF Editing
    <3>3. hub \in Docs \/ hub = NoDoc
      BY DEF Shapes
    <3>4. CASE hub \in Docs
      BY <1>4, <2>1, <3>1, <3>2, <3>4
    <3>5. CASE hub = NoDoc
      BY <1>8, <2>1, <3>2, <3>5 DEF Counted, Apart
    <3> QED BY <3>3, <3>4, <3>5
  <2> QED BY <1>8, <2>1
<1>9. Complete'
  <2>1. hub # NoDoc => hub \in Docs
    BY DEF Shapes
  <2>2. hub # NoDoc => Stored \subseteq live'[hub].mem
    BY <1>1, <1>4, <2>1 DEF Complete
  <2>3. \A b \in Conns : conn'[b].pc = "import" => conn'[b].seq = db.next - 1
    BY <1>1 DEF Complete, IsAt, Loading
  <2>4. ASSUME NEW b \in Conns, conn'[b].pc = "insert", conn'[b].doc \in Docs PROVE Stored \subseteq live'[conn'[b].doc].mem
    <3>1. conn'[b] = conn[b]
      BY <2>4 DEF Loading
    <3>2. Stored \subseteq live[conn[b].doc].mem
      BY <1>1, <2>4, <3>1 DEF Complete, IsAt, Doc
    <3> QED BY <1>4, <2>4, <3>1, <3>2
  <2>5. \A b \in Conns : conn'[b].pc = "insert" => conn'[b].doc \in Docs
    BY <1>3 DEF Counted, Apart
  <2> QED BY <1>2, <2>2, <2>3, <2>4, <2>5 DEF Complete, IsAt, Doc
<1> QED BY <1>5, <1>7, <1>8, <1>9 DEF EditsInHub, IsAt, Doc

\* Steps that neither write the file nor move the hub.  Who leaves has left before, or leaves
\* the LiveDoc of the hub; what has still to be written stays so.
LEMMA SameFile ==
    ASSUME Shapes, FileInv, hub' = hub, lock' = lock, file' = file, db'.pending = db.pending,
           cut' = cut, stray' = stray, replaced' = replaced, late' = late,
           \A e \in replaced : acked'[e] = acked[e],
           ~cut => \A b \in Conns : conn'[b].pc \in {"unload", "save"} =>
                      \/ hub # NoDoc /\ conn'[b].doc = hub
                      \/ /\ conn'[b] = conn[b] /\ save'[b] = save[b]
                         /\ live'[conn[b].doc].dirty = live[conn[b].doc].dirty
                         /\ live[conn[b].doc].mem \subseteq live'[conn[b].doc].mem,
           ~cut => \A b \in Conns : conn[b].pc = "save" /\ save[b].pc # "end" => 
                      conn'[b] = conn[b] /\ save'[b] = save[b] /\ live'[conn[b].doc].dirty = live[conn[b].doc].dirty,
           ~cut /\ hub # NoDoc =>
                      /\ save'[hub] = save[hub] /\ (live[hub].dirty => live'[hub].dirty)
                      /\ \A b \in Conns : conn[b].pc = "record" => conn'[b].pc = "record" \/ live'[hub].dirty,
           ~cut => \A e \in Stored' : \/ e \in Stored /\ acked'[e] = acked[e]
                                      \/ hub # NoDoc /\ \E b \in Conns : conn'[b].pc = "record"
    PROVE  FileInv'
<1>1. stray' => cut'
  BY DEF FileInv
<1> SUFFICES ASSUME ~cut
             PROVE  /\ Leavers'
                    /\ \A e \in Stored' : Reached(e)' \/ Cover(e)'
                    /\ \A e \in replaced' : acked'[e] < Len(file')
                    /\ late' = {}
  BY <1>1 DEF FileInv
<1>2. /\ Leavers /\ late = {}
      /\ \A e \in Stored : Reached(e) \/ Cover(e)
      /\ \A e \in replaced : acked[e] < Len(file)
  BY DEF FileInv
<1>3. Written' = Written /\ (Alone' <=> Alone)
  BY DEF Written, Alone
<1>4. \A e \in Stored : Reached(e) /\ acked'[e] = acked[e] => Reached(e)'
  BY <1>3 DEF Reached
<1>5. hub = NoDoc => \A e \in Stored' : e \in Stored /\ acked'[e] = acked[e]
  OBVIOUS
<1>6. ~Alone => \A b \in Conns : Leaving(b)' /\ conn'[b].doc # hub' => ~Unwritten(b)'
  BY <1>2 DEF Leavers, Leaving, Unwritten, Doc
<1>7. ASSUME Alone, NEW b \in Conns, Leaving(b)'
      PROVE  /\ Unwritten(b)' => Stored' \subseteq Doc(b)'.mem
             /\ save'[b].pc = "write" => Stored' \subseteq save'[b].text
             /\ save'[b].pc = "mark" => \A e \in Stored' : Reached(e)'
  <2>1. hub = NoDoc
    BY <1>7 DEF Alone
  <2>2. /\ conn'[b] = conn[b] /\ save'[b] = save[b]
        /\ live'[conn[b].doc].dirty = live[conn[b].doc].dirty
        /\ live[conn[b].doc].mem \subseteq live'[conn[b].doc].mem
    BY <1>7, <2>1 DEF Leaving
  <2>3. Leaving(b)
    BY <1>7, <2>2 DEF Leaving
  <2>4. /\ Unwritten(b) => Stored \subseteq Doc(b).mem
        /\ save[b].pc = "write" => Stored \subseteq save[b].text
        /\ save[b].pc = "mark" => \A e \in Stored : Reached(e)
    BY <1>2, <1>7, <2>3 DEF Leavers
  <2>5. Unwritten(b)' => Unwritten(b)
    BY <2>2 DEF Unwritten, Doc
  <2>6. Stored' \subseteq Stored
    BY <1>5, <2>1
  <2> QED BY <1>4, <1>5, <2>1, <2>2, <2>4, <2>5, <2>6 DEF Doc
<1>8. Leavers'
  BY <1>3, <1>6, <1>7 DEF Leavers
<1>9. ASSUME NEW e \in Stored' PROVE Reached(e)' \/ Cover(e)'
  <2>1. CASE hub # NoDoc /\ \E b \in Conns : conn'[b].pc = "record"
    BY <2>1 DEF Cover, IsAt
  <2>2. CASE e \in Stored /\ acked'[e] = acked[e]
    <3>1. CASE Reached(e)
      BY <1>4, <2>2, <3>1
    <3>2. CASE hub # NoDoc /\ (live[hub].dirty \/ (save[hub].pc = "write" /\ e \in save[hub].text)
                                 \/ \E b \in Conns : IsAt(b, "record"))
      BY <3>2 DEF Cover, IsAt
    <3>3. CASE Alone /\ (db.pending \/ \E b \in Conns : IsAt(b, "save") /\
                    (save[b].pc \in {"write", "pend"} \/ (save[b].pc = "start" /\ Doc(b).dirty)))
      <4>1. CASE db.pending
        BY <1>3, <3>3, <4>1 DEF Cover
      <4>2. ASSUME NEW b \in Conns, IsAt(b, "save"),
                   save[b].pc \in {"write", "pend"} \/ (save[b].pc = "start" /\ Doc(b).dirty)
            PROVE  Cover(e)'
        <5>1. conn'[b] = conn[b] /\ save'[b] = save[b] /\ live'[conn[b].doc].dirty = live[conn[b].doc].dirty
          BY <4>2 DEF IsAt
        <5>2. IsAt(b, "save")' /\ (save'[b].pc \in {"write", "pend"} \/ (save'[b].pc = "start" /\ Doc(b)'.dirty))
          BY <4>2, <5>1 DEF IsAt, Doc
        <5> QED BY <1>3, <3>3, <5>2 DEF Cover
      <4> QED BY <3>3, <4>1, <4>2
    <3> QED BY <1>2, <2>2, <3>1, <3>2, <3>3 DEF Cover
  <2> QED BY <2>1, <2>2
<1> QED BY <1>2, <1>8, <1>9

-----------------------------------------------------------------------------
(* The log *)

\* An appended update is in everything that is read from the log.
LEMMA AppendKeeps ==
    ASSUME Shapes, NEW e \in Text, db' = Appended(e), replaced' = replaced,
           Stored' \subseteq Stored \cup {e}
    PROVE  /\ DbShape' \/ file' # file
           /\ db'.snap = db.snap /\ db'.snapSeq = db.snapSeq /\ db'.next = db.next + 1
           /\ db'.saved = db.saved /\ db'.pending = db.pending
           /\ Kept
<1>1. /\ DOMAIN db = {"snap", "snapSeq", "next", "log", "saved", "pending"}
      /\ db.snap \subseteq Text /\ db.snapSeq \in Nat /\ db.next \in Nat /\ db.snapSeq < db.next
      /\ DOMAIN db.log \subseteq 1..(db.next - 1) /\ \A q \in DOMAIN db.log : db.log[q] \in Text
      /\ db.saved \in Nat /\ db.saved <= Len(file) /\ db.pending \in BOOLEAN
  BY DEF Shapes, DbShape
<1>2. /\ db'.snap = db.snap /\ db'.snapSeq = db.snapSeq /\ db'.next = db.next + 1
      /\ db'.saved = db.saved /\ db'.pending = db.pending /\ DOMAIN db' = DOMAIN db
      /\ db'.log = [q \in DOMAIN db.log \cup {db.next} |-> IF q = db.next THEN e ELSE db.log[q]]
  BY <1>1 DEF Appended
<1>3. /\ DOMAIN db'.log = DOMAIN db.log \cup {db.next} /\ db'.log[db.next] = e
      /\ \A q \in DOMAIN db.log : db'.log[q] = db.log[q]
  BY <1>1, <1>2
<1>4. DOMAIN db'.log \subseteq 1..(db'.next - 1) /\ \A q \in DOMAIN db'.log : db'.log[q] \in Text
  BY <1>1, <1>2, <1>3
<1>5. DbShape' \/ file' # file
  BY <1>1, <1>2, <1>4 DEF DbShape
<1>6. \A s \in Nat : s < db.next => Logged(s) \cup {e} \subseteq {db'.log[q] : q \in {p \in DOMAIN db'.log : p > s}}
  <2> SUFFICES ASSUME NEW s \in Nat, s < db.next
               PROVE  Logged(s) \cup {e} \subseteq {db'.log[q] : q \in {p \in DOMAIN db'.log : p > s}}
    OBVIOUS
  <2>1. db.next \in {p \in DOMAIN db'.log : p > s}
    BY <1>1, <1>3
  <2>2. \A q \in LoggedAfter(s) : q \in {p \in DOMAIN db'.log : p > s} /\ db'.log[q] = db.log[q]
    BY <1>3 DEF LoggedAfter
  <2> QED BY <1>3, <2>1, <2>2 DEF Logged
<1>7. Stored \subseteq Durable => (Stored \subseteq Durable)'
  <2>1. Logged(db.snapSeq) \cup {e} \subseteq {db'.log[q] : q \in {p \in DOMAIN db'.log : p > db.snapSeq}}
    BY <1>1, <1>6
  <2>2. Durable' = db.snap \cup {db'.log[q] : q \in {p \in DOMAIN db'.log : p > db.snapSeq}}
    BY <1>2 DEF Durable, LoggedAfter
  <2>3. Durable = db.snap \cup Logged(db.snapSeq)
    BY DEF Durable, Logged
  <2> QED BY <2>1, <2>2, <2>3
<1>8. \A t \in SUBSET Text, s \in Nat : s < db.next /\ Covers(t, s) => CoversNext(t, s)
  BY <1>2, <1>6 DEF Covers, CoversNext
<1> QED BY <1>2, <1>5, <1>7, <1>8 DEF Kept

\* A compaction with a snapshot that covers its number loses nothing.
LEMMA CompactKeeps ==
    ASSUME Shapes, NEW text \in SUBSET Text, NEW seq \in Nat, seq < db.next, db' = Compacted(text, seq),
           acked' = acked, replaced' = replaced
    PROVE  /\ DbShape' \/ file' # file
           /\ db'.next = db.next /\ db'.saved = db.saved /\ db'.pending = db.pending
           /\ Covers(text, seq) => Kept
<1>1. /\ DOMAIN db = {"snap", "snapSeq", "next", "log", "saved", "pending"}
      /\ db.snap \subseteq Text /\ db.snapSeq \in Nat /\ db.next \in Nat /\ db.snapSeq < db.next
      /\ DOMAIN db.log \subseteq 1..(db.next - 1) /\ \A q \in DOMAIN db.log : db.log[q] \in Text
      /\ db.saved \in Nat /\ db.saved <= Len(file) /\ db.pending \in BOOLEAN
  BY DEF Shapes, DbShape
<1>2. /\ db'.snap = (IF db.snapSeq < seq THEN text ELSE db.snap)
      /\ db'.snapSeq = (IF db.snapSeq < seq THEN seq ELSE db.snapSeq)
      /\ db'.next = db.next /\ db'.saved = db.saved /\ db'.pending = db.pending /\ DOMAIN db' = DOMAIN db
      /\ db'.log = KeepAfter(db.log, seq)
  BY <1>1 DEF Compacted
<1>3. DOMAIN db'.log = {p \in DOMAIN db.log : p > seq} /\ \A q \in DOMAIN db'.log : db'.log[q] = db.log[q]
  BY <1>2 DEF KeepAfter
<1>4. DbShape' \/ file' # file
  <2>1. db'.snap \subseteq Text /\ db'.snapSeq \in Nat /\ db'.snapSeq < db.next
    BY <1>1, <1>2
  <2>2. DOMAIN db'.log \subseteq 1..(db.next - 1) /\ \A q \in DOMAIN db'.log : db'.log[q] \in Text
    BY <1>1, <1>3
  <2> QED BY <1>1, <1>2, <2>1, <2>2 DEF DbShape
<1>5. \A s \in Nat : s >= seq => {db'.log[q] : q \in {p \in DOMAIN db'.log : p > s}} = Logged(s)
  <2> SUFFICES ASSUME NEW s \in Nat, s >= seq
               PROVE  {db'.log[q] : q \in {p \in DOMAIN db'.log : p > s}} = Logged(s)
    OBVIOUS
  <2>1. {p \in DOMAIN db'.log : p > s} = LoggedAfter(s)
    BY <1>1, <1>3 DEF LoggedAfter
  <2>2. \A q \in LoggedAfter(s) : db'.log[q] = db.log[q]
    BY <1>3, <2>1
  <2> QED BY <2>1, <2>2 DEF Logged
<1>6. ASSUME Covers(text, seq) PROVE Kept
  <2>1. Stored' = Stored
    BY DEF Stored
  <2>2. Durable' = db'.snap \cup {db'.log[q] : q \in {p \in DOMAIN db'.log : p > db'.snapSeq}}
    BY DEF Durable, LoggedAfter
  <2>3. Durable = db.snap \cup Logged(db.snapSeq)
    BY DEF Durable, Logged
  <2>4. CASE db.snapSeq < seq
    <3>1. Stored \subseteq Durable'
      BY <1>1, <1>2, <1>5, <1>6, <2>2, <2>4 DEF Covers
    <3>2. \A t \in SUBSET Text, s \in Nat : Covers(t, s) => CoversNext(t, s)
      <4> SUFFICES ASSUME NEW t \in SUBSET Text, NEW s \in Nat, Covers(t, s) PROVE CoversNext(t, s)
        OBVIOUS
      <4>1. CASE s <= seq
        BY <1>2, <2>4, <4>1 DEF CoversNext
      <4>2. CASE s > seq
        <5>1. ~(s <= db.snapSeq)
          BY <1>1, <2>4, <4>2
        <5> QED BY <1>5, <2>1, <4>2, <5>1 DEF Covers, CoversNext
      <4> QED BY <4>1, <4>2
    <3> QED BY <2>1, <3>1, <3>2 DEF Kept
  <2>5. CASE ~(db.snapSeq < seq)
    <3>1. db'.snapSeq = db.snapSeq /\ db'.snap = db.snap
      BY <1>2, <2>5
    <3>2. Durable' = Durable
      BY <1>1, <1>5, <2>2, <2>3, <2>5, <3>1
    <3>3. \A t \in SUBSET Text, s \in Nat : Covers(t, s) => CoversNext(t, s)
      <4> SUFFICES ASSUME NEW t \in SUBSET Text, NEW s \in Nat, Covers(t, s) PROVE CoversNext(t, s)
        OBVIOUS
      <4>1. CASE s <= db.snapSeq
        BY <3>1, <4>1 DEF CoversNext
      <4>2. CASE s > db.snapSeq
        <5>1. s >= seq /\ ~(s <= db.snapSeq)
          BY <1>1, <2>5, <4>2
        <5> QED BY <1>5, <2>1, <5>1 DEF Covers, CoversNext
      <4> QED BY <1>1, <4>1, <4>2
    <3> QED BY <2>1, <3>2, <3>3 DEF Kept
  <2> QED BY <2>4, <2>5
<1> QED BY <1>2, <1>4, <1>6

-----------------------------------------------------------------------------
(* save_doc *)

\* A saver is a connection that unloads a LiveDoc out of the hub, or the task of the one in it.
LEMMA WhoSaves ==
    ASSUME HeldInv, NEW a \in Conns \cup Docs, NEW d \in Docs, Saves(a, d)
    PROVE  /\ \/ a \in Conns /\ a \notin Docs /\ conn[a].pc = "save" /\ conn[a].doc = d /\ d # hub
              \/ a = d /\ hub = d /\ a \notin Conns
           /\ d # NoDoc
<1>1. Conns \cap Docs = {} /\ NoDoc \notin Docs
  BY Fields, CollabAssumption DEF HeldInv
<1>2. CASE a \in Conns /\ conn[a].pc = "save" /\ conn[a].doc = d
  BY <1>1, <1>2 DEF HeldInv, Loads
<1> QED BY <1>1, <1>2 DEF Saves, IsAt

\* All that a step of a saver does but for the file.
SaverStep(a, d) ==
    /\ Saves(a, d)
    /\ conn' = conn /\ hub' = hub /\ lock' = lock /\ stray' = stray
    /\ SameHistory /\ DataSame /\ Growing /\ budget'.loads = budget.loads
    /\ \A x \in Docs : live'[x].mem = live[x].mem /\ live'[x].last = live[x].last /\ live'[x].conns = live[x].conns
    /\ \A x \in Conns \cup Docs : x # a => save'[x] = save[x]
    /\ save'[a].ver = save[a].ver \/ save'[a].ver <= Len(file')

LEMMA SaverKeeps ==
    ASSUME CollabInv, NEW a \in Conns \cup Docs, NEW d \in Docs, SaverStep(a, d), Shapes'
    PROVE  HeldInv' /\ LogInv'
<1>1. HeldInv /\ Shapes /\ Numbers /\ Acks /\ Counted /\ Loads /\ Savers /\ LogInv
  BY DEF CollabInv, HeldInv
<1>2. Counted' /\ Loads'
  <2>1. Places
    BY DEF SaverStep, Places
  <2> QED BY <1>1, <2>1, SamePlaces
<1>3. Numbers'
  <2>1. Growing /\ \A x \in Conns \cup Docs : save'[x].ver = save[x].ver \/ save'[x].ver <= Len(file')
    BY DEF SaverStep
  <2> QED BY <1>1, <2>1, MoreNumbers DEF SaverStep
<1>4. Acks'
  BY <1>1, SameAcks DEF SaverStep, Growing
<1>5. Savers'
  <2>1. \/ a \in Conns /\ a \notin Docs /\ conn[a].pc = "save"
        \/ a = hub /\ a \notin Conns
    BY <1>1, WhoSaves DEF SaverStep
  <2> QED BY <1>1, <2>1 DEF Savers, SaverStep
<1>6. LogInv'
  <2>1. \A x \in Docs : live[x].mem \subseteq live'[x].mem /\ live'[x].last = live[x].last
    BY DEF SaverStep
  <2>2. conn' = conn /\ hub' = hub /\ stray' = stray /\ Stored' = Stored /\ db'.next = db.next /\ Kept
    BY SameData, SameKept DEF SaverStep, DataSame
  <2>3. \A b \in Conns : conn[b].pc = "append" => conn[b].n \in live'[conn[b].doc].mem \/ conn[b].pc = "append"
    OBVIOUS
  <2> QED BY <1>1, <1>2, <2>1, <2>2, <2>3, SameLog
<1> QED BY <1>1, <1>2, <1>3, <1>4, <1>5, <1>6 DEF HeldInv

LEMMA TakeShape ==
    ASSUME Shapes, NEW a \in Conns \cup Docs, NEW d \in Docs, Take(a, d)
    PROVE  /\ Shapes' /\ SaverStep(a, d) /\ save[a].pc = "start"
           /\ file' = file /\ db' = db /\ cut' = cut /\ live'[d].dirty = FALSE
           /\ \A x \in Docs : x # d => live'[x] = live[x]
           /\ live[d].dirty => save'[a].pc = "write" /\ save'[a].text = live[d].mem
           /\ ~live[d].dirty => live' = live /\ a \in Conns /\ save'[a].pc = "end"
<1>1. /\ live' = [live EXCEPT ![d].dirty = FALSE] /\ save[a].pc = "start"
      /\ save' = [save EXCEPT ![a] = IF live[d].dirty THEN [pc |-> "write", text |-> live[d].mem, ver |-> 0] ELSE Ended(a)]
      /\ live[d].dirty \/ a \in Conns
      /\ db' = db /\ file' = file /\ hub' = hub /\ lock' = lock /\ conn' = conn /\ budget' = budget
      /\ acked' = acked /\ replaced' = replaced /\ late' = late /\ stray' = stray /\ cut' = cut
      /\ Saves(a, d)
  BY DEF Take
<1>2. live \in [Docs -> LiveRow] /\ save \in [Conns \cup Docs -> SaveRow] /\ db.next \in Nat
  BY DEF Shapes, DbShape
<1>3. /\ live' \in [Docs -> LiveRow] /\ \A x \in Docs : x # d => live'[x] = live[x]
      /\ live'[d] = [live[d] EXCEPT !.dirty = FALSE]
  BY <1>1, <1>2 DEF LiveRow
<1>4. /\ live'[d].dirty = FALSE /\ live'[d].mem = live[d].mem /\ live'[d].last = live[d].last
      /\ live'[d].conns = live[d].conns
  BY <1>2, <1>3 DEF LiveRow
<1>5. /\ [pc |-> "write", text |-> live[d].mem, ver |-> 0] \in SaveRow
      /\ Ended(a) \in SaveRow /\ Ended(a).ver = 0 /\ (a \in Conns => Ended(a).pc = "end")
  BY <1>2 DEF SaveRow, LiveRow, Ended, Rest
<1>6. /\ save' \in [Conns \cup Docs -> SaveRow] /\ \A x \in Conns \cup Docs : x # a => save'[x] = save[x]
      /\ save'[a] = IF live[d].dirty THEN [pc |-> "write", text |-> live[d].mem, ver |-> 0] ELSE Ended(a)
  BY <1>1, <1>2, <1>5
<1>7. Shapes'
  BY <1>1, <1>3, <1>6 DEF Shapes, DbShape
<1>8. save'[a].ver = 0 /\ Len(file) \in Nat /\ budget.edits \in Nat
  BY <1>5, <1>6, Fields
<1>9. SaverStep(a, d)
  BY <1>1, <1>2, <1>3, <1>4, <1>6, <1>8 DEF SaverStep, SameHistory, DataSame, Growing
<1>10. ~live[d].dirty => live' = live
  BY <1>1, <1>2 DEF LiveRow
<1> QED BY <1>1, <1>3, <1>4, <1>5, <1>6, <1>7, <1>9, <1>10

\* The other steps of save_doc: the result of the step is r.
SaveTo(a, d, r) ==
    /\ Saves(a, d) /\ save' = [save EXCEPT ![a] = r] /\ r \in SaveRow /\ (r.ver = save[a].ver \/ r.ver <= Len(file'))
    /\ hub' = hub /\ lock' = lock /\ conn' = conn
    /\ acked' = acked /\ replaced' = replaced /\ late' = late /\ stray' = stray
    /\ budget' = budget \/ budget' = [budget EXCEPT !.faults = @ + 1]
    /\ live' = live \/ live' = [live EXCEPT ![d].dirty = TRUE]
    /\ file' = file \/ file' = Append(file, save[a].text)
    /\ db' = db \/ (db' = [db EXCEPT !.saved = save[a].ver, !.pending = FALSE]) \/ db' = [db EXCEPT !.pending = TRUE]
    /\ cut' \in BOOLEAN

LEMMA SaveShape ==
    ASSUME Shapes, Numbers, NEW a \in Conns \cup Docs, NEW d \in Docs, NEW r, SaveTo(a, d, r)
    PROVE  /\ Shapes' /\ SaverStep(a, d) /\ save'[a] = r
           /\ \A x \in Docs : x # d => live'[x] = live[x]
           /\ Len(file) \in Nat /\ Len(file') \in Nat /\ Len(file) <= Len(file') /\ Written \subseteq Written'
           /\ file' = Append(file, save[a].text) => Written' = Written \cup save[a].text /\ Len(file') = Len(file) + 1
<1>1. live \in [Docs -> LiveRow] /\ save \in [Conns \cup Docs -> SaveRow] /\ db.next \in Nat /\ Len(file) \in Nat
  BY DEF Shapes, DbShape
<1>2. /\ live' \in [Docs -> LiveRow] /\ \A x \in Docs : x # d => live'[x] = live[x]
      /\ \A x \in Docs : live'[x].mem = live[x].mem /\ live'[x].last = live[x].last /\ live'[x].conns = live[x].conns
  <2>1. CASE live' = live
    BY <1>1, <2>1
  <2>2. CASE live' = [live EXCEPT ![d].dirty = TRUE]
    BY <1>1, <2>2 DEF LiveRow
  <2> QED BY <2>1, <2>2 DEF SaveTo
<1>3. /\ save' \in [Conns \cup Docs -> SaveRow] /\ \A x \in Conns \cup Docs : x # a => save'[x] = save[x]
      /\ save'[a] = r
  BY <1>1 DEF SaveTo
<1>4. /\ file' \in Seq(SUBSET Text) /\ file' # <<>> /\ Len(file') \in Nat /\ Len(file) <= Len(file')
      /\ Written \subseteq Written'
      /\ file' = Append(file, save[a].text) => Written' = Written \cup save[a].text /\ Len(file') = Len(file) + 1
  <2>1. file \in Seq(SUBSET Text) /\ file # <<>> /\ save[a].text \in SUBSET Text
    BY Fields DEF Shapes
  <2>2. CASE file' = Append(file, save[a].text)
    BY <1>1, <2>1, <2>2, MoreVersions
  <2>3. CASE file' = file /\ file' # Append(file, save[a].text)
    BY <1>1, <2>1, <2>3 DEF Written
  <2> QED BY <2>2, <2>3 DEF SaveTo
<1>5. /\ budget' \in [loads : 0..MaxLoads, edits : 0..MaxEdits, external : 0..MaxExternal, faults : Nat]
      /\ budget'.loads = budget.loads /\ budget'.edits = budget.edits
  <2>1. budget \in [loads : 0..MaxLoads, edits : 0..MaxEdits, external : 0..MaxExternal, faults : Nat]
    BY DEF Shapes
  <2>2. CASE budget' = [budget EXCEPT !.faults = @ + 1]
    BY <2>1, <2>2
  <2> QED BY <2>1, <2>2 DEF SaveTo
<1>6. DbShape' /\ DataSame
  <2>1. /\ DOMAIN db = {"snap", "snapSeq", "next", "log", "saved", "pending"}
        /\ db.saved \in Nat /\ db.saved <= Len(file) /\ db.pending \in BOOLEAN
        /\ save[a].ver \in Nat /\ save[a].ver <= Len(file)
    BY Fields DEF Shapes, DbShape, Numbers
  <2>2. /\ db'.snap = db.snap /\ db'.snapSeq = db.snapSeq /\ db'.next = db.next /\ db'.log = db.log
        /\ DOMAIN db' = DOMAIN db /\ db'.saved \in {db.saved, save[a].ver} /\ db'.pending \in {db.pending, TRUE, FALSE}
    <3>1. CASE db' = db
      BY <3>1
    <3>2. CASE db' = [db EXCEPT !.saved = save[a].ver, !.pending = FALSE]
      BY <2>1, <3>2
    <3>3. CASE db' = [db EXCEPT !.pending = TRUE]
      BY <2>1, <3>3
    <3> QED BY <3>1, <3>2, <3>3 DEF SaveTo
  <2>3. db'.saved \in Nat /\ db'.saved <= Len(file') /\ db'.pending \in BOOLEAN
    <3>1. \A v \in {db.saved, save[a].ver} : v \in Nat /\ v <= Len(file')
      BY <1>1, <1>4, <2>1
    <3>2. \A p \in {db.pending, TRUE, FALSE} : p \in BOOLEAN
      BY <2>1
    <3> QED BY <2>2, <3>1, <3>2
  <2>4. DbShape'
    BY <2>1, <2>2, <2>3 DEF Shapes, DbShape
  <2> QED BY <2>2, <2>4 DEF DataSame, SaveTo
<1>7. Shapes'
  BY <1>2, <1>3, <1>4, <1>5, <1>6 DEF Shapes, SaveTo
<1>8. SaverStep(a, d)
  <2>1. Growing
    BY <1>1, <1>4, <1>5, <1>6, Fields DEF Growing, DataSame
  <2> QED BY <1>2, <1>3, <1>5, <1>6, <2>1 DEF SaverStep, SaveTo, SameHistory
<1> QED BY <1>1, <1>2, <1>3, <1>4, <1>7, <1>8

\* What a step of a saver has to show of the file.
LEMMA SaverFile ==
    ASSUME CollabInv, NEW a \in Conns \cup Docs, NEW d \in Docs, SaverStep(a, d), Written \subseteq Written',
           cut => cut',
           ~cut' => /\ Leavers'
                    /\ \A e \in Stored : Cover(e) /\ ~Reached(e) => Reached(e)' \/ Cover(e)'
    PROVE  FileInv'
<1>1. /\ stray' = stray /\ acked' = acked /\ replaced' = replaced /\ late' = late /\ Stored' = Stored
      /\ Len(file') \in Nat /\ Len(file) <= Len(file') /\ Len(file) \in Nat
  BY SameData, Fields DEF SaverStep, SameHistory, Growing, CollabInv, HeldInv
<1>2. \A e \in DOMAIN acked : acked[e] \in Nat
  BY DEF CollabInv, HeldInv, Acks
<1>3. Stored \subseteq DOMAIN acked /\ replaced \subseteq DOMAIN acked
  BY DEF CollabInv, HeldInv, Acks, Stored
<1>4. \A e \in Stored : Reached(e) => Reached(e)'
  BY <1>1, <1>2, <1>3 DEF Reached
<1>5. ~cut => /\ \A e \in Stored : Reached(e) \/ Cover(e)
              /\ \A e \in replaced : acked[e] < Len(file)
              /\ late = {} /\ ~stray
  BY DEF CollabInv, FileInv
<1>6. ~cut => \A e \in replaced : acked[e] < Len(file')
  BY <1>1, <1>2, <1>3, <1>5
<1> QED BY <1>1, <1>4, <1>5, <1>6 DEF FileInv

\* The task of the LiveDoc in the hub: those that leave another one are not touched.
LEMMA TaskLeavers ==
    ASSUME CollabInv, ~cut, NEW d \in Docs, SaverStep(d, d), hub = d, d \notin Conns,
           \A x \in Docs : x # d => live'[x] = live[x]
    PROVE  Leavers'
<1>1. hub # NoDoc /\ ~Alone /\ ~Alone' /\ hub' = hub /\ conn' = conn
  BY Fields DEF CollabInv, HeldInv, SaverStep, Alone
<1>2. \A b \in Conns : save'[b] = save[b]
  BY DEF SaverStep
<1>3. \A b \in Conns : Leaving(b) /\ conn[b].doc # hub => ~Unwritten(b) /\ conn[b].doc \in Docs
  <2>1. \A b \in Conns : Leaving(b) => conn[b].doc # NoDoc
    BY DEF CollabInv, HeldInv, Counted, Leaving, Apart
  <2> QED BY <1>1, <2>1, Fields DEF CollabInv, HeldInv, FileInv, Leavers
<1> QED BY <1>1, <1>2, <1>3 DEF Leavers, Leaving, Unwritten, Doc

\* A connection that has something to write has all edits.
LEMMA ConnSaves ==
    ASSUME CollabInv, ~cut, NEW a \in Conns, conn[a].pc = "save", Unwritten(a), conn[a].doc # hub
    PROVE  /\ Alone /\ Stored \subseteq Doc(a).mem
           /\ save[a].pc = "write" => Stored \subseteq save[a].text
           /\ save[a].pc = "mark" => \A e \in Stored : Reached(e)
BY DEF CollabInv, FileInv, Leavers, Leaving

LEMMA ConnLeavers ==
    ASSUME CollabInv, ~cut, Alone, NEW a \in Conns, NEW d \in Docs, SaverStep(a, d), conn[a].doc = d,
           \A x \in Docs : x # d => live'[x] = live[x],
           Written \subseteq Written',
           live'[d].dirty => live[d].dirty \/ Stored \subseteq live[d].mem,
           Unwritten(a)' => Stored \subseteq live[d].mem,
           save'[a].pc = "write" => Stored \subseteq save'[a].text,
           save'[a].pc = "mark" => \A e \in Stored : Reached(e)'
    PROVE  Leavers'
<1>1. Stored' = Stored /\ conn' = conn /\ Alone' /\ acked' = acked
  BY SameData DEF SaverStep, Alone, SameHistory
<1>2. \A e \in Stored : Reached(e) => Reached(e)'
  <2>1. \A e \in Stored : acked[e] \in Nat
    BY DEF CollabInv, HeldInv, Acks, Stored
  <2>2. Len(file') \in Nat /\ Len(file) <= Len(file') /\ Len(file) \in Nat
    BY Fields DEF SaverStep, Growing, CollabInv, HeldInv
  <2> QED BY <1>1, <2>1, <2>2 DEF Reached
<1>3. ASSUME NEW b \in Conns, Leaving(b)
      PROVE  /\ Unwritten(b)' => Stored \subseteq Doc(b)'.mem
             /\ save'[b].pc = "write" => Stored \subseteq save'[b].text
             /\ save'[b].pc = "mark" => \A e \in Stored : Reached(e)'
  <2>1. conn[b].doc \in Docs
    <3>1. conn[b].doc # NoDoc
      BY <1>3 DEF CollabInv, HeldInv, Counted, Leaving, Apart
    <3> QED BY <3>1, Fields DEF CollabInv, HeldInv
  <2>2. Doc(b)'.mem = Doc(b).mem
    BY <1>1, <2>1 DEF SaverStep, Doc
  <2>3. CASE b = a
    BY <1>1, <2>2, <2>3 DEF Doc
  <2>4. CASE b # a
    <3>1. save'[b] = save[b]
      BY <2>4 DEF SaverStep
    <3>2. /\ Unwritten(b) => Stored \subseteq Doc(b).mem
          /\ save[b].pc = "write" => Stored \subseteq save[b].text
          /\ save[b].pc = "mark" => \A e \in Stored : Reached(e)
      BY <1>3 DEF CollabInv, FileInv, Leavers
    <3>3. Unwritten(b)' => Unwritten(b) \/ Stored \subseteq Doc(b).mem
      BY <1>1, <2>1, <3>1 DEF Unwritten, Doc
    <3> QED BY <1>2, <2>2, <3>1, <3>2, <3>3
  <2> QED BY <2>3, <2>4
<1> QED BY <1>1, <1>3 DEF Leavers, Leaving

LEMMA TakeInv ==
    ASSUME CollabInv, NEW a \in Conns \cup Docs, NEW d \in Docs, Take(a, d)
    PROVE  CollabInv'
<1>1. Shapes /\ HeldInv
  BY DEF CollabInv, HeldInv
<1>2. /\ Shapes' /\ SaverStep(a, d) /\ save[a].pc = "start"
      /\ file' = file /\ db' = db /\ cut' = cut /\ live'[d].dirty = FALSE
      /\ \A x \in Docs : x # d => live'[x] = live[x]
      /\ live[d].dirty => save'[a].pc = "write" /\ save'[a].text = live[d].mem
      /\ ~live[d].dirty => live' = live /\ a \in Conns /\ save'[a].pc = "end"
  BY <1>1, TakeShape
<1>3. HeldInv' /\ LogInv'
  BY <1>2, SaverKeeps
<1>4. /\ \/ a \in Conns /\ a \notin Docs /\ conn[a].pc = "save" /\ conn[a].doc = d /\ d # hub
         \/ a = d /\ hub = d /\ a \notin Conns
      /\ d # NoDoc
  BY <1>1, <1>2, WhoSaves DEF SaverStep
<1>5. Written' = Written /\ hub' = hub /\ lock' = lock /\ conn' = conn
  BY <1>2 DEF Written, SaverStep
<1>6. ASSUME ~cut
      PROVE  Leavers' /\ \A e \in Stored : Cover(e) /\ ~Reached(e) => Reached(e)' \/ Cover(e)'
  <2>0. ~stray
    BY <1>6 DEF CollabInv, FileInv
  <2>1. CASE a = d /\ hub = d /\ a \notin Conns
    <3>1. Leavers'
      BY <1>2, <1>6, <2>1, TaskLeavers
    <3>2. live[d].dirty /\ save'[hub].pc = "write" /\ save'[hub].text = live[d].mem
      BY <1>2, <2>1
    <3>3. Stored \subseteq live[d].mem
      BY <1>4, <2>0, <2>1 DEF CollabInv, LogInv, Complete
    <3>4. \A e \in Stored : Cover(e)'
      BY <1>4, <1>5, <2>1, <3>2, <3>3 DEF Cover
    <3> QED BY <3>1, <3>4
  <2>2. CASE a \in Conns /\ conn[a].pc = "save" /\ conn[a].doc = d /\ d # hub /\ live[d].dirty
    <3>1. Unwritten(a)
      BY <2>2 DEF Unwritten, Doc
    <3>2. Alone /\ Stored \subseteq live[d].mem
      BY <1>6, <2>2, <3>1, ConnSaves DEF Doc
    <3>3. Leavers'
      BY <1>2, <1>5, <1>6, <2>2, <3>2, ConnLeavers
    <3>4. Alone' /\ IsAt(a, "save")' /\ save'[a].pc = "write"
      BY <1>2, <1>5, <2>2, <3>2 DEF Alone, IsAt
    <3> QED BY <2>2, <3>3, <3>4 DEF Cover
  <2>3. CASE a \in Conns /\ conn[a].pc = "save" /\ conn[a].doc = d /\ d # hub /\ ~live[d].dirty
    <3>1. live' = live /\ save'[a].pc = "end" /\ \A x \in Conns \cup Docs : x # a => save'[x] = save[x]
      BY <1>2, <2>3 DEF SaverStep
    <3>2. ~Unwritten(a)'
      BY <1>2, <1>5, <2>3, <3>1 DEF Unwritten, Doc
    <3>3. Alone' = Alone
      BY <1>5 DEF Alone
    <3>4. CASE Alone
      <4>1. Leavers'
        BY <1>2, <1>5, <1>6, <2>3, <3>1, <3>2, <3>4, ConnLeavers
      <4> QED
        <5> SUFFICES ASSUME NEW e \in Stored, Cover(e) PROVE Cover(e)'
          BY <4>1
        <5>1. hub = NoDoc
          BY <3>4 DEF Alone
        <5>2. \/ db.pending
              \/ \E b \in Conns : IsAt(b, "save") /\
                    (save[b].pc \in {"write", "pend"} \/ (save[b].pc = "start" /\ Doc(b).dirty))
          BY <5>1 DEF Cover
        <5>3. CASE db.pending
          BY <1>2, <3>3, <3>4, <5>3 DEF Cover
        <5>4. ASSUME NEW b \in Conns, IsAt(b, "save"),
                     save[b].pc \in {"write", "pend"} \/ (save[b].pc = "start" /\ Doc(b).dirty)
              PROVE  Cover(e)'
          <6>1. b # a
            BY <1>2, <2>3, <5>4 DEF Doc
          <6>2. IsAt(b, "save")' /\ save'[b] = save[b] /\ Doc(b)' = Doc(b)
            BY <1>5, <3>1, <5>4, <6>1 DEF IsAt, Doc
          <6> QED BY <3>3, <3>4, <5>4, <6>2 DEF Cover
        <5> QED BY <5>2, <5>3, <5>4
    <3>5. CASE ~Alone
      <4>1. \A b \in Conns : Leaving(b) /\ conn[b].doc # hub => ~Unwritten(b)
        BY <1>6, <3>5 DEF CollabInv, FileInv, Leavers
      <4>2. \A b \in Conns : Leaving(b)' /\ conn'[b].doc # hub' => ~Unwritten(b)'
        BY <1>5, <3>1, <3>2, <4>1 DEF Leaving, Unwritten, Doc
      <4>3. hub # NoDoc => save'[hub] = save[hub]
        <5>1. hub # NoDoc => hub \in Docs /\ hub # a
          BY <1>1, <1>4, <2>3 DEF Shapes
        <5> QED BY <3>1, <5>1
      <4>4. \A e \in Stored : Cover(e) => Cover(e)'
        BY <1>5, <3>1, <3>5, <4>3 DEF Cover, IsAt
      <4> QED BY <3>3, <3>5, <4>2, <4>4 DEF Leavers
    <3> QED BY <3>4, <3>5
  <2> QED BY <1>4, <2>1, <2>2, <2>3
<1>7. FileInv'
  BY <1>2, <1>5, <1>6, SaverFile
<1> QED BY <1>3, <1>7 DEF CollabInv

\* The steps after take_dirty.
LEMMA SaveRows ==
    ASSUME Shapes, NEW a \in Conns \cup Docs
    PROVE  /\ Ended(a) \in SaveRow /\ Ended(a).ver = 0 /\ Ended(a).pc \in {"start", "end"}
           /\ [save[a] EXCEPT !.pc = "mark", !.ver = Len(file) + 1] \in SaveRow
           /\ [save[a] EXCEPT !.pc = "mark", !.ver = Len(file) + 1].pc = "mark"
           /\ [save[a] EXCEPT !.pc = "mark", !.ver = Len(file) + 1].ver = Len(file) + 1
           /\ [save[a] EXCEPT !.pc = "pend"] \in SaveRow /\ [save[a] EXCEPT !.pc = "pend"].pc = "pend"
           /\ [save[a] EXCEPT !.pc = "pend"].ver = save[a].ver
           /\ Len(file) \in Nat /\ save \in [Conns \cup Docs -> SaveRow]
<1>1. save \in [Conns \cup Docs -> SaveRow] /\ Len(file) \in Nat
  BY Fields DEF Shapes
<1>2. save[a] \in SaveRow
  BY <1>1
<1>3. Ended(a) \in SaveRow /\ Ended(a).ver = 0 /\ Ended(a).pc \in {"start", "end"}
  BY DEF SaveRow, Ended, Rest
<1>4. /\ [save[a] EXCEPT !.pc = "mark", !.ver = Len(file) + 1] \in SaveRow
      /\ [save[a] EXCEPT !.pc = "mark", !.ver = Len(file) + 1].pc = "mark"
      /\ [save[a] EXCEPT !.pc = "mark", !.ver = Len(file) + 1].ver = Len(file) + 1
  <2>1. Len(file) + 1 \in Nat
    BY <1>1
  <2> QED BY <1>2, <2>1 DEF SaveRow
<1>5. /\ [save[a] EXCEPT !.pc = "pend"] \in SaveRow /\ [save[a] EXCEPT !.pc = "pend"].pc = "pend"
      /\ [save[a] EXCEPT !.pc = "pend"].ver = save[a].ver
  BY <1>2 DEF SaveRow
<1> QED BY <1>1, <1>3, <1>4, <1>5

\* The saver has something to write: nothing but the LiveDoc in the hub is at work, or the
\* saver is a connection that has all edits.
LEMMA AtWork ==
    ASSUME CollabInv, ~cut, NEW a \in Conns \cup Docs, NEW d \in Docs, Saves(a, d),
           save[a].pc \in {"write", "mark", "pend"}
    PROVE  /\ d # NoDoc
           /\ \/ a = d /\ hub = d /\ a \notin Conns /\ ~Alone
              \/ /\ a \in Conns /\ conn[a].pc = "save" /\ conn[a].doc = d /\ d # hub /\ Alone
                 /\ Stored \subseteq live[d].mem
                 /\ save[a].pc = "write" => Stored \subseteq save[a].text
                 /\ save[a].pc = "mark" => \A e \in Stored : Reached(e)
<1>1. /\ d # NoDoc
      /\ \/ a \in Conns /\ a \notin Docs /\ conn[a].pc = "save" /\ conn[a].doc = d /\ d # hub
         \/ a = d /\ hub = d /\ a \notin Conns
  BY WhoSaves DEF CollabInv
<1>2. CASE a \in Conns /\ a \notin Docs /\ conn[a].pc = "save" /\ conn[a].doc = d /\ d # hub
  <2>1. Unwritten(a)
    BY DEF Unwritten
  <2> QED BY <1>1, <1>2, <2>1, ConnSaves DEF Doc
<1> QED BY <1>1, <1>2 DEF Alone

LEMMA WriteInv ==
    ASSUME CollabInv, NEW a \in Conns \cup Docs, NEW d \in Docs, Write(a, d)
    PROVE  CollabInv'
<1> DEFINE r == [save[a] EXCEPT !.pc = "mark", !.ver = Len(file) + 1]
<1>1. Shapes /\ HeldInv /\ Numbers /\ Acks
  BY DEF CollabInv, HeldInv
<1>2. /\ Saves(a, d) /\ save[a].pc = "write" /\ save' = [save EXCEPT ![a] = r]
      /\ file' = Append(file, save[a].text)
      /\ db' = db /\ hub' = hub /\ lock' = lock /\ live' = live /\ conn' = conn /\ budget' = budget
      /\ acked' = acked /\ replaced' = replaced /\ late' = late /\ stray' = stray /\ cut' = cut
  <2>1. save \in [Conns \cup Docs -> SaveRow]
    BY <1>1, SaveRows
  <2>2. save' = [save EXCEPT ![a].pc = "mark", ![a].ver = Len(file) + 1]
    BY DEF Write
  <2>3. save' = [save EXCEPT ![a] = r]
    BY <2>1, <2>2 DEF SaveRow
  <2> QED BY <2>3 DEF Write
<1>3. r \in SaveRow /\ r.pc = "mark" /\ r.ver = Len(file) + 1
  BY <1>1, SaveRows
<1> HIDE DEF r
<1>4. Len(file') = Len(file) + 1 /\ Len(file) \in Nat
  BY <1>1, <1>2 DEF Shapes
<1>5. SaveTo(a, d, r)
  <2>1. cut' \in BOOLEAN
    BY <1>1, <1>2 DEF Shapes
  <2>2. r.ver <= Len(file')
    BY <1>3, <1>4
  <2> QED BY <1>2, <1>3, <2>1, <2>2 DEF SaveTo
<1>6. /\ Shapes' /\ SaverStep(a, d) /\ save'[a] = r
      /\ \A x \in Docs : x # d => live'[x] = live[x]
      /\ Written' = Written \cup save[a].text
  BY <1>1, <1>2, <1>5, SaveShape
<1>7. HeldInv' /\ LogInv'
  BY <1>6, SaverKeeps
<1>8. ASSUME ~cut
      PROVE  Leavers' /\ \A e \in Stored : Cover(e) /\ ~Reached(e) => Reached(e)' \/ Cover(e)'
  <2>1. \A e \in Stored : acked[e] \in Nat /\ acked[e] <= Len(file)
    BY <1>1 DEF Acks, Stored
  <2>2. \A e \in Stored : e \in save[a].text => Reached(e)'
    BY <1>2, <1>4, <1>6, <2>1 DEF Reached
  <2>3. CASE a = d /\ hub = d /\ a \notin Conns /\ ~Alone
    <3>1. Leavers'
      BY <1>6, <1>8, <2>3, TaskLeavers
    <3>2. \A e \in Stored : Cover(e) => Reached(e)' \/ Cover(e)'
      BY <1>2, <2>2, <2>3 DEF Cover, IsAt
    <3> QED BY <3>1, <3>2
  <2>4. CASE /\ a \in Conns /\ conn[a].doc = d /\ d # hub /\ Alone
             /\ Stored \subseteq live[d].mem /\ Stored \subseteq save[a].text
    <3>1. \A e \in Stored : Reached(e)'
      BY <2>2, <2>4
    <3>2. Leavers'
      BY <1>2, <1>3, <1>6, <1>8, <2>4, <3>1, ConnLeavers
    <3> QED BY <3>1, <3>2
  <2> QED BY <1>2, <1>8, <2>3, <2>4, AtWork
<1>9. FileInv'
  BY <1>2, <1>6, <1>8, SaverFile
<1> QED BY <1>7, <1>9 DEF CollabInv

LEMMA WriteFailInv ==
    ASSUME CollabInv, NEW a \in Conns \cup Docs, NEW d \in Docs, WriteFail(a, d)
    PROVE  CollabInv'
<1> DEFINE r == [save[a] EXCEPT !.pc = "pend"]
<1>1. Shapes /\ HeldInv /\ Numbers
  BY DEF CollabInv, HeldInv
<1>2. /\ Saves(a, d) /\ save[a].pc = "write" /\ save' = [save EXCEPT ![a] = r]
      /\ live' = [live EXCEPT ![d].dirty = TRUE] /\ budget' = [budget EXCEPT !.faults = @ + 1]
      /\ db' = db /\ hub' = hub /\ lock' = lock /\ file' = file /\ conn' = conn
      /\ acked' = acked /\ replaced' = replaced /\ late' = late /\ stray' = stray /\ cut' = cut
  <2>1. save \in [Conns \cup Docs -> SaveRow]
    BY <1>1, SaveRows
  <2>2. save' = [save EXCEPT ![a].pc = "pend"]
    BY DEF WriteFail
  <2>3. save' = [save EXCEPT ![a] = r]
    BY <2>1, <2>2 DEF SaveRow
  <2> QED BY <2>3 DEF WriteFail, Fault
<1>3. r \in SaveRow /\ r.pc = "pend" /\ r.ver = save[a].ver
  BY <1>1, SaveRows
<1> HIDE DEF r
<1>4. live'[d].dirty = TRUE
  BY <1>1, <1>2 DEF Shapes, LiveRow
<1>5. SaveTo(a, d, r)
  <2>1. cut' \in BOOLEAN
    BY <1>1, <1>2 DEF Shapes
  <2> QED BY <1>2, <1>3, <2>1 DEF SaveTo
<1>6. /\ Shapes' /\ SaverStep(a, d) /\ save'[a] = r
      /\ \A x \in Docs : x # d => live'[x] = live[x]
      /\ Written \subseteq Written'
  BY <1>1, <1>5, SaveShape
<1>7. HeldInv' /\ LogInv'
  BY <1>6, SaverKeeps
<1>8. ASSUME ~cut
      PROVE  Leavers' /\ \A e \in Stored : Cover(e) /\ ~Reached(e) => Reached(e)' \/ Cover(e)'
  <2>1. CASE a = d /\ hub = d /\ a \notin Conns /\ ~Alone /\ d # NoDoc
    <3>1. Leavers'
      BY <1>6, <1>8, <2>1, TaskLeavers
    <3>2. \A e \in Stored : Cover(e)'
      BY <1>2, <1>4, <2>1 DEF Cover
    <3> QED BY <3>1, <3>2
  <2>2. CASE /\ a \in Conns /\ conn[a].pc = "save" /\ conn[a].doc = d /\ d # hub /\ Alone
             /\ Stored \subseteq live[d].mem
    <3>1. Leavers'
      BY <1>3, <1>6, <1>8, <2>2, ConnLeavers
    <3>2. Alone' /\ IsAt(a, "save")' /\ save'[a].pc = "pend"
      BY <1>2, <1>3, <1>6, <2>2 DEF Alone, IsAt
    <3> QED BY <2>2, <3>1, <3>2 DEF Cover
  <2> QED BY <1>2, <1>8, <2>1, <2>2, AtWork
<1>9. FileInv'
  BY <1>2, <1>6, <1>8, SaverFile
<1> QED BY <1>7, <1>9 DEF CollabInv

\* set_saved_node_version and set_pending_save, whether they succeed or not.
LEMMA MarkInv ==
    ASSUME CollabInv, NEW a \in Conns \cup Docs, NEW d \in Docs, Mark(a, d) \/ Pend(a, d) \/ MarkFail(a, d)
    PROVE  CollabInv'
<1>1. Shapes /\ HeldInv /\ Numbers
  BY DEF CollabInv, HeldInv
<1>2. /\ Saves(a, d) /\ save[a].pc \in {"mark", "pend"} /\ save' = [save EXCEPT ![a] = Ended(a)]
      /\ budget' = budget \/ budget' = [budget EXCEPT !.faults = @ + 1]
      /\ live' = live /\ hub' = hub /\ lock' = lock /\ file' = file /\ conn' = conn
      /\ acked' = acked /\ replaced' = replaced /\ late' = late /\ stray' = stray
      /\ (cut' = cut) \/ (cut' = (cut \/ save[a].pc = "pend"))
      /\ db' = db \/ (db' = [db EXCEPT !.saved = save[a].ver, !.pending = FALSE]) \/ db' = [db EXCEPT !.pending = TRUE]
      /\ ~cut' => save[a].pc = "mark" \/ db' = [db EXCEPT !.pending = TRUE]
      /\ cut => cut'
  <2>1. CASE Mark(a, d)
    BY <2>1 DEF Mark
  <2>2. CASE Pend(a, d)
    BY <2>2 DEF Pend
  <2>3. CASE MarkFail(a, d)
    BY <2>3 DEF MarkFail, Fault
  <2> QED BY <2>1, <2>2, <2>3
<1>3. Ended(a) \in SaveRow /\ Ended(a).ver = 0 /\ Ended(a).pc \in {"start", "end"} /\ Len(file) \in Nat
  BY <1>1, SaveRows
<1>4. cut' \in BOOLEAN
  BY <1>1, <1>2 DEF Shapes
<1>5. SaveTo(a, d, Ended(a))
  BY <1>2, <1>3, <1>4 DEF SaveTo
<1>6. /\ Shapes' /\ SaverStep(a, d) /\ save'[a] = Ended(a)
      /\ Written \subseteq Written'
  BY <1>1, <1>5, SaveShape
<1>7. HeldInv' /\ LogInv'
  BY <1>6, SaverKeeps
<1>8. ASSUME ~cut'
      PROVE  Leavers' /\ \A e \in Stored : Cover(e) /\ ~Reached(e) => Reached(e)' \/ Cover(e)'
  <2>0. ~cut
    BY <1>2, <1>8
  <2>1. CASE a = d /\ hub = d /\ a \notin Conns /\ ~Alone /\ d # NoDoc
    <3>1. Leavers'
      BY <1>2, <1>6, <2>0, <2>1, TaskLeavers
    <3>2. \A e \in Stored : Cover(e) => Cover(e)'
      BY <1>2, <2>1 DEF Cover, IsAt
    <3> QED BY <3>1, <3>2
  <2>2. CASE /\ a \in Conns /\ conn[a].pc = "save" /\ conn[a].doc = d /\ d # hub /\ Alone
             /\ Stored \subseteq live[d].mem
             /\ save[a].pc = "mark" => \A e \in Stored : Reached(e)
    <3>1. Leavers'
      BY <1>2, <1>3, <1>6, <2>0, <2>2, ConnLeavers
    <3>2. CASE save[a].pc = "mark"
      BY <2>2, <3>1, <3>2
    <3>3. CASE db' = [db EXCEPT !.pending = TRUE]
      <4>1. db'.pending
        BY <1>1, <3>3 DEF Shapes, DbShape
      <4>2. Alone'
        BY <1>2, <2>2 DEF Alone
      <4> QED BY <3>1, <4>1, <4>2 DEF Cover
    <3> QED BY <1>2, <1>8, <3>2, <3>3
  <2> QED BY <1>2, <2>0, <2>1, <2>2, AtWork
<1>9. FileInv'
  BY <1>2, <1>6, <1>8, SaverFile
<1> QED BY <1>7, <1>9 DEF CollabInv

LEMMA SaverInv ==
    ASSUME CollabInv, NEW a \in Conns \cup Docs, NEW d \in Docs, Saver(a, d)
    PROVE  CollabInv'
BY TakeInv, WriteInv, WriteFailInv, MarkInv DEF Saver

-----------------------------------------------------------------------------
(* Editing *)

\* What the steps of an edit have in common.
EditStep(c) ==
    /\ conn[c].pc \in Editing /\ conn'[c].pc \in Editing /\ conn'[c].doc = conn[c].doc
    /\ \A b \in Conns : b # c => conn'[b] = conn[b]
    /\ \A d \in Docs : /\ d # conn[c].doc => live'[d] = live[d]
                       /\ live[d].mem \subseteq live'[d].mem /\ (live[d].dirty => live'[d].dirty)
                       /\ live'[d].conns = live[d].conns
    /\ hub' = hub /\ lock' = lock /\ save' = save /\ file' = file /\ stray' = stray /\ cut' = cut
    /\ replaced' = replaced /\ late' = late /\ budget'.loads = budget.loads /\ db'.pending = db.pending

LEMMA EditPlaces ==
    ASSUME HeldInv, NEW c \in Conns, EditStep(c)
    PROVE  Counted' /\ Loads' /\ Savers'
<1>1. Shapes /\ Counted /\ Loads /\ Savers
  BY DEF HeldInv
<1>2. /\ conn[c].pc \notin Loading /\ conn[c].pc \notin Apart /\ conn[c].pc \notin {"save", "final"}
      /\ conn'[c].pc \notin Loading /\ conn'[c].pc \notin Apart /\ conn'[c].pc \notin {"save", "final"}
  BY DEF EditStep, Editing, Loading, Apart
<1>3. Places
  BY <1>2 DEF EditStep, Places
<1>4. Savers'
  BY <1>1, <1>2 DEF Savers, EditStep
<1> QED BY <1>1, <1>3, <1>4, SamePlaces

\* Who edits has the LiveDoc of the hub, and nobody loads one.
LEMMA EditorInHub ==
    ASSUME HeldInv, LogInv, ~stray, NEW c \in Conns, conn[c].pc \in Editing
    PROVE  /\ conn[c].doc = hub /\ hub # NoDoc /\ hub \in Docs /\ ~lock
           /\ Stored \subseteq live[hub].mem /\ \A b \in Conns : conn[b].pc \notin Loading
<1>1. conn[c].doc = hub
  BY DEF LogInv, EditsInHub
<1>2. hub # NoDoc
  BY <1>1 DEF HeldInv, Counted, Apart, Editing
<1>3. hub \in Docs
  BY <1>2 DEF HeldInv, Shapes
<1> QED BY <1>1, <1>2, <1>3 DEF HeldInv, Loads, LogInv, Complete

LEMMA EditLog ==
    ASSUME HeldInv, LogInv, NEW c \in Conns, EditStep(c), Shapes', ~stray => Kept,
           \/ Stored' \subseteq Stored
           \/ conn[c].pc = "append" /\ Stored' \subseteq Stored \cup {conn[c].n},
           conn'[c].pc = "append" => conn'[c].n \in live'[conn[c].doc].mem,
           conn'[c].pc \in Snapping => Stored' \subseteq Stored /\ conn'[c].text = live[conn[c].doc].mem
    PROVE  LogInv'
<1> SUFFICES ASSUME ~stray PROVE (EditsInHub /\ Snapshots /\ Complete)'
  BY DEF LogInv, EditStep
<1>1. /\ Shapes /\ Numbers /\ EditsInHub /\ Snapshots /\ Complete /\ Kept
  BY DEF HeldInv, LogInv
<1>2. /\ conn[c].doc = hub /\ hub # NoDoc /\ hub \in Docs /\ ~lock
      /\ Stored \subseteq live[hub].mem /\ \A b \in Conns : conn[b].pc \notin Loading
  BY EditorInHub DEF EditStep
<1>3. Stored' \subseteq live'[hub].mem
  <2>1. live[hub].mem \subseteq live'[hub].mem
    BY <1>2 DEF EditStep
  <2>2. conn[c].pc = "append" => conn[c].n \in live[hub].mem
    BY <1>1, <1>2 DEF EditsInHub, IsAt, Doc
  <2> QED BY <1>2, <2>1, <2>2
<1>4. EditsInHub'
  <2>1. \A b \in Conns : conn'[b].pc \in Editing => conn'[b].doc = hub'
    BY <1>1, <1>2 DEF EditsInHub, EditStep
  <2>2. ASSUME NEW b \in Conns, conn'[b].pc = "append" PROVE conn'[b].n \in live'[conn'[b].doc].mem
    <3>1. CASE b = c
      BY <2>2, <3>1 DEF EditStep
    <3>2. CASE b # c
      <4>1. conn'[b] = conn[b] /\ conn[b].doc = hub
        BY <1>1, <2>2, <3>2 DEF EditStep, EditsInHub, Editing
      <4>2. conn[b].n \in live[hub].mem
        BY <1>1, <2>2, <4>1 DEF EditsInHub, IsAt, Doc
      <4> QED BY <1>2, <4>1, <4>2 DEF EditStep
    <3> QED BY <3>1, <3>2
  <2> QED BY <2>1, <2>2 DEF EditsInHub, IsAt, Doc
<1>5. Snapshots'
  <2>1. \A b \in Conns : conn'[b].pc \in Snapping =>
            \/ conn[b].pc \in Snapping /\ conn'[b].text = conn[b].text /\ conn'[b].seq = conn[b].seq
            \/ Stored' \subseteq conn'[b].text
    BY <1>2 DEF EditStep
  <2>2. \A d \in Docs : \/ live[d].mem \subseteq live'[d].mem /\ live'[d].last = live[d].last
                        \/ Stored' \subseteq live'[d].mem
    BY <1>2, <1>3 DEF EditStep
  <2> QED BY <1>1, <2>1, <2>2, MoreSnapshots
<1>6. Complete'
  <2>1. \A b \in Conns : conn'[b].pc \notin Loading
    BY <1>2 DEF EditStep, Editing, Loading
  <2> QED BY <1>3, <2>1 DEF Complete, IsAt, Loading, EditStep
<1> QED BY <1>4, <1>5, <1>6

LEMMA EditFile ==
    ASSUME CollabInv, NEW c \in Conns, EditStep(c),
           conn[c].pc = "record" => live'[conn[c].doc].dirty,
           \A e \in replaced : acked'[e] = acked[e],
           \A e \in Stored' : (e \in Stored /\ acked'[e] = acked[e]) \/ conn'[c].pc = "record"
    PROVE  FileInv'
<1>1. Shapes /\ HeldInv /\ LogInv /\ FileInv
  BY DEF CollabInv, HeldInv
<1>2. /\ hub' = hub /\ lock' = lock /\ save' = save /\ file' = file /\ stray' = stray /\ cut' = cut
      /\ replaced' = replaced /\ late' = late /\ db'.pending = db.pending
  BY DEF EditStep
<1>3. ~cut => conn[c].doc = hub /\ hub # NoDoc /\ hub \in Docs
  BY <1>1, EditorInHub DEF FileInv, EditStep
<1>4. \A b \in Conns : conn[b].pc \in {"unload", "save"} => conn[b].doc \in Docs
  BY <1>1, Fields DEF HeldInv, Counted, Apart
<1>5. ~cut => \A b \in Conns : conn'[b].pc \in {"unload", "save"} =>
                      \/ hub # NoDoc /\ conn'[b].doc = hub
                      \/ /\ conn'[b] = conn[b] /\ save'[b] = save[b]
                         /\ live'[conn[b].doc].dirty = live[conn[b].doc].dirty
                         /\ live[conn[b].doc].mem \subseteq live'[conn[b].doc].mem
  BY <1>2, <1>3, <1>4 DEF EditStep, Editing
<1>6. ~cut => \A b \in Conns : conn[b].pc = "save" /\ save[b].pc # "end" =>
                      conn'[b] = conn[b] /\ save'[b] = save[b] /\ live'[conn[b].doc].dirty = live[conn[b].doc].dirty
  <2>1. \A b \in Conns : conn[b].pc = "save" => conn[b].doc # hub
    BY <1>1 DEF HeldInv, Loads
  <2> QED BY <1>2, <1>3, <1>4, <2>1 DEF EditStep, Editing
<1>7. ~cut /\ hub # NoDoc =>
                      /\ save'[hub] = save[hub] /\ (live[hub].dirty => live'[hub].dirty)
                      /\ \A b \in Conns : conn[b].pc = "record" => conn'[b].pc = "record" \/ live'[hub].dirty
  BY <1>2, <1>3 DEF EditStep
<1>8. ~cut => \A e \in Stored' : \/ e \in Stored /\ acked'[e] = acked[e]
                                 \/ hub # NoDoc /\ \E b \in Conns : conn'[b].pc = "record"
  BY <1>3
<1> QED BY <1>1, <1>2, <1>5, <1>6, <1>7, <1>8, SameFile

\* A connection that keeps its LiveDoc and forgets the rest.
LEMMA StayRow ==
    ASSUME Shapes, NEW c \in Conns, NEW p \in Pcs
    PROVE  /\ Stay(c, p) \in ConnRow /\ Stay(c, p).pc = p /\ Stay(c, p).doc = conn[c].doc
           /\ Stay(c, p).seq = 0 /\ Stay(c, p).ver = 0 /\ Stay(c, p).n = 0 /\ Stay(c, p).text = {}
<1>1. conn[c].doc \in Docs \cup {NoDoc}
  BY Fields
<1>2. Out \in ConnRow /\ Out.ver = 0 /\ Out.n = 0 /\ Out.seq = 0 /\ Out.text = {}
  BY OutRow
<1> QED BY <1>1, <1>2 DEF Stay, ConnRow

LEMMA Faults ==
    ASSUME Shapes, Fault
    PROVE  /\ budget' \in [loads : 0..MaxLoads, edits : 0..MaxEdits, external : 0..MaxExternal, faults : Nat]
           /\ budget'.loads = budget.loads /\ budget'.edits = budget.edits
BY DEF Shapes, Fault

\* The steps that leave the edits and the file alone: the numbers still are in order.
LEMMA EditNumbers ==
    ASSUME HeldInv, NEW c \in Conns, EditStep(c), db'.next \in Nat, db.next <= db'.next,
           budget'.edits \in Nat, budget.edits <= budget'.edits,
           \A d \in Docs : live'[d].last = live[d].last \/ live'[d].last < db'.next,
           conn'[c].seq < db'.next, conn'[c].ver = conn[c].ver \/ conn'[c].ver = 0,
           conn'[c].n <= budget'.edits
    PROVE  Numbers'
<1>1. Shapes /\ Numbers /\ Len(file) \in Nat
  BY Fields DEF HeldInv
<1>2. Growing
  BY <1>1 DEF Growing, EditStep
<1>3. \A b \in Conns : /\ conn'[b].seq = conn[b].seq \/ conn'[b].seq < db'.next
                       /\ conn'[b].ver = conn[b].ver \/ conn'[b].ver <= Len(file')
                       /\ conn'[b].n = conn[b].n \/ conn'[b].n <= budget'.edits
  BY <1>1 DEF EditStep
<1> QED BY <1>1, <1>2, <1>3, MoreNumbers DEF EditStep

LEMMA EditInv ==
    ASSUME CollabInv, NEW c \in Conns, Edit(c)
    PROVE  CollabInv'
<1> DEFINE e == budget.edits + 1
           d == conn[c].doc
           r == [conn[c] EXCEPT !.pc = "append", !.n = e]
           l == [live[d] EXCEPT !.mem = @ \cup {e}, !.dirty = @ \/ c \in Ai]
<1>1. Shapes /\ HeldInv /\ LogInv /\ Acks /\ Numbers /\ Counted
  BY DEF CollabInv, HeldInv
<1>2. /\ conn[c].pc = "in" /\ budget.edits < MaxEdits
      /\ conn \in [Conns -> ConnRow] /\ live \in [Docs -> LiveRow]
      /\ budget.edits \in 0..MaxEdits /\ MaxEdits \in Nat
  BY <1>1, Fields, CollabAssumption DEF Edit, IsAt, Shapes
<1>3. d \in Docs
  BY <1>1, <1>2, Fields DEF Counted, Apart
<1>4. e \in Nat /\ e \in Text /\ e \in 1..MaxEdits
  BY <1>2 DEF Text
<1>5. /\ db' = db /\ file' = file /\ hub' = hub /\ lock' = lock /\ save' = save /\ acked' = acked
      /\ replaced' = replaced /\ late' = late /\ stray' = stray /\ cut' = cut
      /\ budget' = [budget EXCEPT !.edits = e]
      /\ conn' = [conn EXCEPT ![c] = r] /\ live' = [live EXCEPT ![d] = l]
  <2>1. conn' = [conn EXCEPT ![c] = r]
    BY <1>2 DEF Edit, ConnRow
  <2>2. live' = [live EXCEPT ![d] = l]
    BY <1>2, <1>3 DEF Edit, LiveRow
  <2> QED BY <2>1, <2>2 DEF Edit
<1>6. /\ r \in ConnRow /\ r.pc = "append" /\ r.n = e /\ r.doc = d /\ r.seq = conn[c].seq /\ r.ver = conn[c].ver
  <2>1. conn[c] \in ConnRow /\ "append" \in Pcs
    BY <1>2 DEF Pcs, Editing
  <2> QED BY <1>4, <2>1 DEF ConnRow
<1>7. /\ l \in LiveRow /\ l.mem = live[d].mem \cup {e} /\ l.last = live[d].last /\ l.conns = live[d].conns
      /\ live[d].dirty => l.dirty
  <2>1. live[d] \in LiveRow
    BY <1>2, <1>3
  <2> QED BY <1>4, <2>1 DEF LiveRow
<1> HIDE DEF r, l
<1>8. /\ conn' \in [Conns -> ConnRow] /\ conn'[c] = r /\ \A b \in Conns : b # c => conn'[b] = conn[b]
      /\ live' \in [Docs -> LiveRow] /\ live'[d] = l /\ \A x \in Docs : x # d => live'[x] = live[x]
  BY <1>2, <1>3, <1>5, <1>6, <1>7
<1>9. /\ budget' \in [loads : 0..MaxLoads, edits : 0..MaxEdits, external : 0..MaxExternal, faults : Nat]
      /\ budget'.loads = budget.loads /\ budget'.edits = e
  <2>1. e \in 0..MaxEdits
    BY <1>2
  <2>2. budget \in [loads : 0..MaxLoads, edits : 0..MaxEdits, external : 0..MaxExternal, faults : Nat]
    BY <1>1 DEF Shapes
  <2> HIDE DEF e
  <2> QED BY <1>5, <2>1, <2>2
<1>10. Shapes'
  BY <1>1, <1>5, <1>8, <1>9 DEF Shapes, DbShape
<1>11. EditStep(c)
  BY <1>2, <1>3, <1>5, <1>6, <1>7, <1>8, <1>9 DEF EditStep, Editing
<1>12. Numbers'
  <2>1. /\ db'.next \in Nat /\ db.next <= db'.next /\ conn[c].seq < db'.next
        /\ budget'.edits \in Nat /\ budget.edits <= budget'.edits /\ e <= budget'.edits
    BY <1>1, <1>2, <1>4, <1>5, <1>9 DEF Shapes, DbShape, Numbers
  <2> HIDE DEF e
  <2>2. \A x \in Docs : live'[x].last = live[x].last
    BY <1>3, <1>7, <1>8
  <2> QED BY <1>1, <1>6, <1>8, <1>11, <2>1, <2>2, EditNumbers
<1>13. Acks'
  <2>1. DOMAIN acked \subseteq 1..budget.edits /\ \A x \in DOMAIN acked : acked[x] \in Nat /\ acked[x] <= Len(file)
    BY <1>1 DEF Acks
  <2>2. 1..budget.edits \subseteq 1..e /\ e \notin 1..budget.edits /\ e \in 1..e
    BY <1>2
  <2> HIDE DEF e
  <2>3. \A b \in Conns : b # c /\ conn[b].pc = "append" => conn[b].n \in (1..budget.edits) \ DOMAIN acked
    BY <1>1 DEF Acks, IsAt
  <2>4. \A b \in Conns : conn'[b].pc = "append" => conn'[b].n \in (1..e) \ DOMAIN acked
    BY <1>6, <1>8, <2>1, <2>2, <2>3
  <2>5. \A a, b \in Conns : conn'[a].pc = "append" /\ conn'[b].pc = "append" /\ conn'[a].n = conn'[b].n => a = b
    <3>1. \A b \in Conns : b # c /\ conn'[b].pc = "append" => conn'[b].n # conn'[c].n
      BY <1>6, <1>8, <2>2, <2>3
    <3>2. \A a, b \in Conns : conn[a].pc = "append" /\ conn[b].pc = "append" /\ conn[a].n = conn[b].n => a = b
      BY <1>1 DEF Acks, IsAt
    <3>3. \A a, b \in Conns : a # c /\ b # c =>
              (conn'[a].pc = "append" /\ conn'[b].pc = "append" /\ conn'[a].n = conn'[b].n => a = b)
      BY <1>8, <3>2
    <3> QED BY <3>1, <3>3
  <2> QED BY <1>1, <1>5, <1>9, <2>1, <2>2, <2>4, <2>5 DEF Acks, IsAt
<1>14. DataSame /\ Stored' = Stored
  BY <1>5 DEF DataSame, Stored
<1>15. LogInv'
  <2>1. conn'[c].n \in live'[conn[c].doc].mem /\ conn'[c].pc \notin Snapping
    BY <1>6, <1>7, <1>8 DEF Snapping
  <2> QED BY <1>1, <1>10, <1>11, <1>14, <2>1, SameKept, EditLog
<1>16. FileInv'
  BY <1>2, <1>5, <1>11, <1>14, EditFile
<1> QED BY <1>10, <1>11, <1>12, <1>13, <1>15, <1>16, <1>1, EditPlaces DEF CollabInv, HeldInv

LEMMA AppendUpdateInv ==
    ASSUME CollabInv, NEW c \in Conns, AppendUpdate(c)
    PROVE  CollabInv'
<1> DEFINE n == conn[c].n
           r == [conn[c] EXCEPT !.pc = "record", !.seq = db.next]
<1>1. Shapes /\ HeldInv /\ LogInv /\ Acks /\ Numbers
  BY DEF CollabInv, HeldInv
<1>2. /\ conn[c].pc = "append" /\ conn \in [Conns -> ConnRow] /\ db.next \in Nat /\ Len(file) \in Nat
      /\ budget.edits \in 0..MaxEdits
  BY <1>1, Fields DEF AppendUpdate, IsAt, Shapes, DbShape
<1>3. n \in (1..budget.edits) \ DOMAIN acked
  BY <1>1, <1>2 DEF Acks, IsAt
<1>4. n \in Text
  BY <1>2, <1>3, CollabAssumption DEF Text
<1>5. /\ db' = Appended(n) /\ file' = file /\ hub' = hub /\ lock' = lock /\ save' = save /\ live' = live
      /\ replaced' = replaced /\ late' = late /\ stray' = stray /\ cut' = cut /\ budget' = budget
      /\ acked' = [e \in DOMAIN acked \cup {n} |-> IF e = n THEN Len(file) ELSE acked[e]]
      /\ conn' = [conn EXCEPT ![c] = r]
  <2>1. conn' = [conn EXCEPT ![c] = r]
    BY <1>2 DEF AppendUpdate, ConnRow
  <2> QED BY <2>1 DEF AppendUpdate
<1>6. /\ r \in ConnRow /\ r.pc = "record" /\ r.n = n /\ r.doc = conn[c].doc /\ r.seq = db.next /\ r.ver = conn[c].ver
  <2>1. conn[c] \in ConnRow /\ "record" \in Pcs
    BY <1>2 DEF Pcs, Editing
  <2> QED BY <1>2, <2>1 DEF ConnRow
<1> HIDE DEF r
<1>7. conn' \in [Conns -> ConnRow] /\ conn'[c] = r /\ \A b \in Conns : b # c => conn'[b] = conn[b]
  BY <1>2, <1>5, <1>6
<1>8. DOMAIN acked' = DOMAIN acked \cup {n} /\ acked'[n] = Len(file) /\ \A e \in DOMAIN acked : acked'[e] = acked[e]
  BY <1>3, <1>5
<1>9. Stored' \subseteq Stored \cup {n} /\ n \notin replaced /\ replaced \subseteq DOMAIN acked
  BY <1>1, <1>3, <1>5, <1>8 DEF Stored, Acks
<1> HIDE DEF n
<1>10. DbShape' /\ Kept /\ db'.next = db.next + 1 /\ db'.pending = db.pending
  BY <1>1, <1>4, <1>5, <1>9, AppendKeeps
<1>11. Shapes'
  BY <1>1, <1>5, <1>7, <1>10 DEF Shapes
<1>12. EditStep(c)
  BY <1>2, <1>5, <1>6, <1>7, <1>10 DEF EditStep, Editing
<1>13. Numbers'
  <2>1. db'.next \in Nat /\ db.next <= db'.next /\ db.next < db'.next /\ n <= budget.edits /\ budget.edits \in Nat
    BY <1>2, <1>3, <1>10
  <2> QED BY <1>1, <1>5, <1>6, <1>7, <1>12, <2>1, EditNumbers
<1>14. Acks'
  <2>1. DOMAIN acked' \subseteq 1..budget.edits
    BY <1>1, <1>3, <1>8 DEF Acks
  <2>2. \A e \in DOMAIN acked' : acked'[e] \in Nat /\ acked'[e] <= Len(file)
    BY <1>1, <1>2, <1>8 DEF Acks
  <2>3. \A b \in Conns : conn'[b].pc = "append" => b # c /\ conn'[b] = conn[b]
    BY <1>6, <1>7
  <2>4. \A b \in Conns : conn'[b].pc = "append" => conn'[b].n \in (1..budget.edits) \ DOMAIN acked'
    BY <1>1, <1>2, <1>8, <2>3 DEF Acks, IsAt, n
  <2>5. \A a, b \in Conns : conn'[a].pc = "append" /\ conn'[b].pc = "append" /\ conn'[a].n = conn'[b].n => a = b
    BY <1>1, <2>3 DEF Acks, IsAt
  <2> QED BY <1>1, <1>5, <1>8, <2>1, <2>2, <2>4, <2>5 DEF Acks, IsAt
<1>15. LogInv'
  <2>1. conn'[c].pc \notin Snapping /\ conn'[c].pc # "append"
    BY <1>6, <1>7 DEF Snapping
  <2>2. Stored' \subseteq Stored \cup {conn[c].n}
    BY <1>9 DEF n
  <2> QED BY <1>1, <1>2, <1>10, <1>11, <1>12, <2>1, <2>2, EditLog
<1>16. FileInv'
  <2>1. conn'[c].pc = "record" /\ \A e \in replaced : acked'[e] = acked[e]
    BY <1>6, <1>7, <1>8, <1>9
  <2> QED BY <1>2, <1>12, <2>1, EditFile
<1> QED BY <1>11, <1>12, <1>13, <1>14, <1>15, <1>16, <1>1, EditPlaces DEF CollabInv, HeldInv

LEMMA AppendFailInv ==
    ASSUME CollabInv, NEW c \in Conns, AppendFail(c)
    PROVE  CollabInv'
<1> DEFINE n == conn[c].n
           d == conn[c].doc
           r == IF c \in Ai THEN [conn[c] EXCEPT !.pc = "rescue", !.seq = Doc(c).last, !.text = Doc(c).mem]
                ELSE [conn[c] EXCEPT !.pc = "leave"]
<1>1. Shapes /\ HeldInv /\ LogInv /\ Acks /\ Numbers /\ Counted
  BY DEF CollabInv, HeldInv
<1>2. /\ conn[c].pc = "append" /\ conn \in [Conns -> ConnRow] /\ db.next \in Nat /\ Len(file) \in Nat
      /\ budget.edits \in 0..MaxEdits
  BY <1>1, Fields DEF AppendFail, IsAt, Shapes, DbShape
<1>3. n \in 1..budget.edits /\ n \in Text
  <2>1. n \in 1..budget.edits
    BY <1>1, <1>2 DEF Acks, IsAt
  <2> QED BY <1>2, <2>1, CollabAssumption DEF Text
<1>4. /\ db' = db \/ db' = Appended(n)
      /\ file' = file /\ hub' = hub /\ lock' = lock /\ save' = save /\ live' = live
      /\ replaced' = replaced /\ late' = late /\ stray' = stray /\ cut' = cut /\ acked' = acked
      /\ conn' = [conn EXCEPT ![c] = r] /\ Fault
  BY <1>2 DEF AppendFail
<1>5. d \in Docs /\ live[d] \in LiveRow
  BY <1>1, <1>2, Fields DEF Counted, Apart, Shapes
<1>6. /\ r \in ConnRow /\ r.pc \in {"rescue", "leave"} /\ r.n = n /\ r.doc = d /\ r.ver = conn[c].ver
      /\ r.seq \in {conn[c].seq, live[d].last}
      /\ r.pc = "rescue" => r.text = live[d].mem
  <2>1. conn[c] \in ConnRow /\ "rescue" \in Pcs /\ "leave" \in Pcs
    BY <1>2 DEF Pcs, Editing
  <2>2. live[d].last \in Nat /\ live[d].mem \in SUBSET Text
    BY <1>5 DEF LiveRow
  <2>3. CASE c \in Ai
    BY <2>1, <2>2, <2>3 DEF ConnRow, Doc
  <2>4. CASE c \notin Ai
    BY <2>1, <2>4 DEF ConnRow
  <2> QED BY <2>3, <2>4
<1> HIDE DEF r
<1>7. conn' \in [Conns -> ConnRow] /\ conn'[c] = r /\ \A b \in Conns : b # c => conn'[b] = conn[b]
  BY <1>2, <1>4, <1>6
<1>8. Stored' = Stored
  BY <1>4 DEF Stored
<1>9. DbShape' /\ Kept /\ db'.next \in {db.next, db.next + 1} /\ db'.pending = db.pending
  <2>1. CASE db' = db
    <3>1. DataSame
      BY <1>4, <2>1 DEF DataSame
    <3> QED BY <1>1, <1>4, <2>1, <3>1, SameKept DEF Shapes, DbShape
  <2>2. CASE db' = Appended(n)
    <3> HIDE DEF n
    <3> QED BY <1>1, <1>3, <1>4, <1>8, <2>2, AppendKeeps
  <2> QED BY <1>4, <2>1, <2>2
<1>10. /\ budget' \in [loads : 0..MaxLoads, edits : 0..MaxEdits, external : 0..MaxExternal, faults : Nat]
       /\ budget'.loads = budget.loads /\ budget'.edits = budget.edits
  BY <1>1, <1>4, Faults
<1>11. Shapes'
  BY <1>1, <1>4, <1>7, <1>9, <1>10 DEF Shapes
<1>12. EditStep(c)
  BY <1>2, <1>4, <1>6, <1>7, <1>9, <1>10 DEF EditStep, Editing
<1>13. Numbers'
  <2>1. db'.next \in Nat /\ db.next <= db'.next /\ n <= budget.edits /\ budget.edits \in Nat
    BY <1>2, <1>3, <1>9
  <2>2. conn[c].seq < db.next /\ live[d].last < db.next /\ conn[c].seq \in Nat /\ live[d].last \in Nat
    BY <1>1, <1>5, Fields DEF Numbers
  <2>3. conn'[c].seq < db'.next
    BY <1>2, <1>6, <1>7, <2>1, <2>2
  <2> QED BY <1>1, <1>4, <1>6, <1>7, <1>10, <1>12, <2>1, <2>3, EditNumbers
<1>14. Acks'
  <2>1. \A b \in Conns : conn'[b].pc = "append" => conn'[b] = conn[b]
    BY <1>6, <1>7
  <2> QED BY <1>1, <1>2, <1>4, <1>10, <2>1, SameAcks DEF SameHistory
<1>15. LogInv'
  <2>1. (conn'[c].pc \in Snapping => conn'[c].text = live[conn[c].doc].mem) /\ conn'[c].pc # "append"
    BY <1>6, <1>7 DEF Snapping
  <2> QED BY <1>1, <1>8, <1>9, <1>11, <1>12, <2>1, EditLog
<1>16. FileInv'
  BY <1>2, <1>4, <1>8, <1>12, EditFile
<1> QED BY <1>11, <1>12, <1>13, <1>14, <1>15, <1>16, <1>1, EditPlaces DEF CollabInv, HeldInv

\* The steps after the append leave the edits and their acknowledgements alone.
LEMMA EditRest ==
    ASSUME CollabInv, NEW c \in Conns, EditStep(c), DbShape', db'.next = db.next, acked' = acked,
           live' \in [Docs -> LiveRow], conn' \in [Conns -> ConnRow],
           budget' \in [loads : 0..MaxLoads, edits : 0..MaxEdits, external : 0..MaxExternal, faults : Nat],
           budget'.edits = budget.edits,
           \A d \in Docs : live'[d].last = live[d].last \/ live'[d].last < db.next,
           conn'[c].seq = conn[c].seq \/ conn'[c].seq = 0, conn'[c].ver = conn[c].ver \/ conn'[c].ver = 0,
           conn'[c].n = conn[c].n \/ conn'[c].n = 0, conn'[c].pc # "append",
           LogInv /\ ~stray => Kept,
           conn'[c].pc \in Snapping => conn'[c].text = live[conn[c].doc].mem,
           conn[c].pc = "record" => live'[conn[c].doc].dirty
    PROVE  CollabInv'
<1>1. Shapes /\ HeldInv /\ LogInv /\ Acks /\ Numbers
  BY DEF CollabInv, HeldInv
<1>2. Stored' = Stored /\ replaced' = replaced /\ late' = late /\ file' = file
  BY DEF Stored, EditStep
<1>3. Shapes'
  BY <1>1 DEF Shapes, EditStep
<1>4. /\ budget.edits \in Nat /\ db.next \in Nat /\ Len(file) \in Nat /\ 0 < db.next
      /\ conn[c].seq < db.next /\ conn[c].n <= budget.edits /\ 0 <= budget.edits
  <2>1. budget.edits \in Nat /\ db.next \in Nat /\ db.snapSeq \in Nat /\ db.snapSeq < db.next /\ Len(file) \in Nat
    BY <1>1, Fields DEF Shapes, DbShape
  <2> QED BY <1>1, <2>1 DEF Numbers
<1>5. Numbers'
  BY <1>1, <1>4, EditNumbers
<1>6. Acks'
  <2>1. \A b \in Conns : conn'[b].pc = "append" => conn'[b] = conn[b]
    BY DEF EditStep
  <2> QED BY <1>1, <1>2, <1>4, <2>1, SameAcks DEF SameHistory
<1>7. LogInv'
  BY <1>1, <1>2, <1>3, EditLog
<1>8. FileInv'
  BY <1>2, EditFile
<1> QED BY <1>1, <1>3, <1>5, <1>6, <1>7, <1>8, EditPlaces DEF CollabInv, HeldInv

\* What these steps leave the connection with.
LEMMA AfterRow ==
    ASSUME Shapes, NEW c \in Conns, NEW p \in {"leave", After(c)}
    PROVE  /\ Stay(c, p) \in ConnRow /\ Stay(c, p).pc \in {"in", "leave"} /\ Stay(c, p).doc = conn[c].doc
           /\ Stay(c, p).seq = 0 /\ Stay(c, p).ver = 0 /\ Stay(c, p).n = 0
<1>1. p \in {"in", "leave"}
  BY DEF After
<1>2. p \in Pcs
  BY <1>1 DEF Pcs, Editing
<1> QED BY <1>1, <1>2, StayRow

LEMMA RecordInv ==
    ASSUME CollabInv, NEW c \in Conns, Record(c)
    PROVE  CollabInv'
<1> DEFINE d == conn[c].doc
           n == Doc(c).appended + 1
           r == IF n >= CompactEvery THEN [conn[c] EXCEPT !.pc = "compact", !.text = Doc(c).mem] ELSE Stay(c, After(c))
           l == [live[d] EXCEPT !.last = conn[c].seq, !.dirty = TRUE, !.appended = IF n >= CompactEvery THEN 0 ELSE n]
<1>1. Shapes /\ HeldInv /\ LogInv /\ Acks /\ Numbers /\ Counted
  BY DEF CollabInv, HeldInv
<1>2. conn[c].pc = "record" /\ conn \in [Conns -> ConnRow] /\ live \in [Docs -> LiveRow]
  BY <1>1 DEF Record, IsAt, Shapes
<1>3. d \in Docs /\ live[d] \in LiveRow
  BY <1>1, <1>2, Fields DEF Counted, Apart
<1>4. n \in Nat
  BY <1>3 DEF LiveRow, Doc
<1>5. /\ db' = db /\ file' = file /\ hub' = hub /\ lock' = lock /\ save' = save /\ budget' = budget
      /\ replaced' = replaced /\ late' = late /\ stray' = stray /\ cut' = cut /\ acked' = acked
      /\ conn' = [conn EXCEPT ![c] = r] /\ live' = [live EXCEPT ![d] = l]
  <2>1. conn' = [conn EXCEPT ![c] = r]
    BY <1>2 DEF Record
  <2>2. live' = [live EXCEPT ![d] = l]
    BY <1>2, <1>3 DEF Record, LiveRow
  <2> QED BY <2>1, <2>2 DEF Record
<1>6. /\ r \in ConnRow /\ r.pc \in {"compact", "in", "leave"} /\ r.doc = d
      /\ r.seq = conn[c].seq \/ r.seq = 0
      /\ r.ver = conn[c].ver \/ r.ver = 0
      /\ r.n = conn[c].n \/ r.n = 0
      /\ r.pc = "compact" => r.text = live[d].mem
  <2>1. CASE n >= CompactEvery
    <3>1. conn[c] \in ConnRow /\ "compact" \in Pcs
      BY <1>2 DEF Pcs, Editing
    <3>2. live[d].mem \in SUBSET Text
      BY <1>3 DEF LiveRow
    <3> HIDE DEF n
    <3> QED BY <2>1, <3>1, <3>2 DEF ConnRow, Doc
  <2>2. CASE ~(n >= CompactEvery)
    <3>1. r = Stay(c, After(c))
      BY <2>2
    <3> HIDE DEF r, n
    <3> QED BY <1>1, <3>1, AfterRow
  <2> QED BY <2>1, <2>2
<1>7. /\ l \in LiveRow /\ l.mem = live[d].mem /\ l.last = conn[c].seq /\ l.conns = live[d].conns /\ l.dirty = TRUE
  <2>1. conn[c].seq \in Nat /\ (IF n >= CompactEvery THEN 0 ELSE n) \in Nat
    BY <1>1, <1>4, Fields
  <2> HIDE DEF n
  <2> QED BY <1>3, <2>1 DEF LiveRow
<1> HIDE DEF r, l, n
<1>8. /\ conn' \in [Conns -> ConnRow] /\ conn'[c] = r /\ \A b \in Conns : b # c => conn'[b] = conn[b]
      /\ live' \in [Docs -> LiveRow] /\ live'[d] = l /\ \A x \in Docs : x # d => live'[x] = live[x]
  BY <1>2, <1>3, <1>5, <1>6, <1>7
<1>9. EditStep(c)
  BY <1>2, <1>3, <1>5, <1>6, <1>7, <1>8 DEF EditStep, Editing
<1>10. DataSame /\ DbShape'
  BY <1>1, <1>5 DEF DataSame, Shapes, DbShape
<1>11. \A x \in Docs : live'[x].last = live[x].last \/ live'[x].last < db.next
  BY <1>1, <1>3, <1>7, <1>8 DEF Numbers
<1>12. conn'[c].pc \in Snapping => conn'[c].text = live[d].mem
  BY <1>6, <1>8 DEF Snapping
<1>13. /\ conn'[c].seq = conn[c].seq \/ conn'[c].seq = 0
       /\ conn'[c].ver = conn[c].ver \/ conn'[c].ver = 0
       /\ conn'[c].n = conn[c].n \/ conn'[c].n = 0
       /\ conn'[c].pc # "append" /\ live'[d].dirty
  BY <1>6, <1>7, <1>8
<1>14. budget \in [loads : 0..MaxLoads, edits : 0..MaxEdits, external : 0..MaxExternal, faults : Nat]
  BY <1>1 DEF Shapes
<1> QED BY <1>5, <1>8, <1>9, <1>10, <1>11, <1>12, <1>13, <1>14, SameKept, EditRest

\* compact, after an edit or as the AI's rescue; its failure.
LEMMA CompactInv ==
    ASSUME CollabInv, NEW c \in Conns, Compact(c) \/ Rescue(c) \/ CompactFail(c)
    PROVE  CollabInv'
<1> DEFINE d == conn[c].doc
<1>1. Shapes /\ HeldInv /\ LogInv /\ Acks /\ Numbers /\ Counted
  BY DEF CollabInv, HeldInv
<1>2. /\ conn[c].pc \in {"compact", "rescue"} /\ conn \in [Conns -> ConnRow] /\ live \in [Docs -> LiveRow]
      /\ budget \in [loads : 0..MaxLoads, edits : 0..MaxEdits, external : 0..MaxExternal, faults : Nat]
  BY <1>1 DEF Compact, Rescue, CompactFail, IsAt, Shapes
<1>3. d \in Docs /\ live[d] \in LiveRow /\ conn[c] \in ConnRow
  BY <1>1, <1>2, Fields DEF Counted, Apart
<1>4. /\ file' = file /\ hub' = hub /\ lock' = lock /\ save' = save
      /\ replaced' = replaced /\ late' = late /\ stray' = stray /\ cut' = cut /\ acked' = acked
      /\ db' = db \/ db' = Compacted(conn[c].text, conn[c].seq)
      /\ live' = live \/ live' = [live EXCEPT ![d].appended = 0]
      /\ budget' = budget \/ Fault
      /\ \/ conn' = [conn EXCEPT ![c].pc = "leave"]
         \/ \E p \in {"leave", After(c)} : conn' = [conn EXCEPT ![c] = Stay(c, p)]
  BY DEF Compact, Rescue, CompactFail
<1>5. /\ conn' \in [Conns -> ConnRow] /\ \A b \in Conns : b # c => conn'[b] = conn[b]
      /\ conn'[c].pc \in {"in", "leave"} /\ conn'[c].doc = d
      /\ conn'[c].seq = conn[c].seq \/ conn'[c].seq = 0
      /\ conn'[c].ver = conn[c].ver \/ conn'[c].ver = 0
      /\ conn'[c].n = conn[c].n \/ conn'[c].n = 0
  <2>1. CASE conn' = [conn EXCEPT ![c].pc = "leave"]
    <3>1. "leave" \in Pcs
      BY DEF Pcs, Editing
    <3> QED BY <1>2, <1>3, <2>1, <3>1 DEF ConnRow
  <2>2. ASSUME NEW p \in {"leave", After(c)}, conn' = [conn EXCEPT ![c] = Stay(c, p)] 
        PROVE  <1>5!:
    <3>1. /\ Stay(c, p) \in ConnRow /\ Stay(c, p).pc \in {"in", "leave"} /\ Stay(c, p).doc = conn[c].doc
          /\ Stay(c, p).seq = 0 /\ Stay(c, p).ver = 0 /\ Stay(c, p).n = 0
      BY <1>1, AfterRow
    <3>2. conn' \in [Conns -> ConnRow] /\ conn'[c] = Stay(c, p) /\ \A b \in Conns : b # c => conn'[b] = conn[b]
      BY <1>2, <2>2, <3>1
    <3> QED BY <3>1, <3>2
  <2> QED BY <1>4, <2>1, <2>2
<1>6. /\ live' \in [Docs -> LiveRow]
      /\ \A x \in Docs : /\ x # d => live'[x] = live[x]
                         /\ live'[x].mem = live[x].mem /\ live'[x].last = live[x].last
                         /\ live'[x].conns = live[x].conns /\ live'[x].dirty = live[x].dirty
  <2>1. CASE live' = live
    BY <1>2, <2>1
  <2>2. CASE live' = [live EXCEPT ![d].appended = 0]
    BY <1>2, <1>3, <2>2 DEF LiveRow
  <2> QED BY <1>4, <2>1, <2>2
<1>7. /\ budget' \in [loads : 0..MaxLoads, edits : 0..MaxEdits, external : 0..MaxExternal, faults : Nat]
      /\ budget'.loads = budget.loads /\ budget'.edits = budget.edits
  BY <1>1, <1>2, <1>4, Faults
<1>8. DbShape' /\ db'.next = db.next /\ db'.pending = db.pending /\ (LogInv /\ ~stray => Kept)
  <2>1. CASE db' = db
    <3>1. DataSame
      BY <1>4, <2>1 DEF DataSame
    <3> QED BY <1>1, <1>4, <2>1, <3>1, SameKept DEF Shapes, DbShape
  <2>2. CASE db' = Compacted(conn[c].text, conn[c].seq)
    <3>1. conn[c].text \in SUBSET Text /\ conn[c].seq \in Nat /\ conn[c].seq < db.next
      BY <1>1, Fields DEF Numbers
    <3>2. LogInv /\ ~stray => Covers(conn[c].text, conn[c].seq)
      BY <1>2 DEF LogInv, Snapshots
    <3> QED BY <1>1, <1>4, <2>2, <3>1, <3>2, CompactKeeps
  <2> QED BY <1>4, <2>1, <2>2
<1>9. EditStep(c)
  BY <1>2, <1>3, <1>4, <1>5, <1>6, <1>7, <1>8 DEF EditStep, Editing
<1>10. conn'[c].pc \notin Snapping /\ conn'[c].pc # "append" /\ conn[c].pc # "record"
  BY <1>2, <1>5 DEF Snapping
<1> QED BY <1>4, <1>5, <1>6, <1>7, <1>8, <1>9, <1>10, EditRest

-----------------------------------------------------------------------------
(* Joining and leaving *)

\* A connection goes elsewhere; nothing is edited or written.
MoveStep(c) ==
    /\ \A b \in Conns : b # c => conn'[b] = conn[b]
    /\ file' = file /\ SameHistory /\ db'.next = db.next
    /\ conn'[c].pc # "append" /\ (conn'[c].n = conn[c].n \/ conn'[c].n = 0)
    /\ conn'[c].ver = conn[c].ver \/ conn'[c].ver = 0 \/ conn'[c].ver = Len(file)
    /\ conn'[c].seq = conn[c].seq \/ conn'[c].seq < db.next
    /\ \A d \in Docs : live'[d].last = live[d].last \/ live'[d].last < db.next
    /\ \A a \in Conns \cup Docs : save'[a].ver = save[a].ver \/ save'[a].ver = 0

LEMMA MoveKeeps ==
    ASSUME HeldInv, NEW c \in Conns, MoveStep(c)
    PROVE  Numbers' /\ Acks'
<1>1. Shapes /\ Numbers /\ Acks /\ Len(file) \in Nat /\ db.next \in Nat /\ budget.edits \in Nat
  BY Fields DEF HeldInv, Shapes, DbShape
<1>2. Growing
  BY <1>1 DEF MoveStep, SameHistory, Growing
<1>3. \A b \in Conns : /\ conn'[b].seq = conn[b].seq \/ conn'[b].seq < db'.next
                       /\ conn'[b].ver = conn[b].ver \/ conn'[b].ver <= Len(file')
                       /\ conn'[b].n = conn[b].n \/ conn'[b].n <= budget'.edits
  BY <1>1 DEF MoveStep, SameHistory
<1>4. \A a \in Conns \cup Docs : save'[a].ver = save[a].ver \/ save'[a].ver <= Len(file')
  BY <1>1 DEF MoveStep
<1>5. Numbers'
  BY <1>1, <1>2, <1>3, <1>4, MoreNumbers DEF MoveStep
<1>6. Acks'
  <2>1. \A b \in Conns : conn'[b].pc = "append" => conn'[b] = conn[b]
    BY DEF MoveStep
  <2> QED BY <1>1, <1>2, <2>1, SameAcks DEF MoveStep, Growing
<1> QED BY <1>5, <1>6

\* A connection that does not edit lets its LiveDoc go.
LetsGo(c) ==
    /\ conn[c].pc \in Loading \cup {"unload", "save", "final"}
    /\ conn' = [conn EXCEPT ![c] = Out] /\ live' = Dropped(c)
    /\ hub' = hub /\ budget'.loads = budget.loads
    /\ lock' <=> lock /\ conn[c].pc \notin Loading

LEMMA GoesOut ==
    ASSUME HeldInv, NEW c \in Conns, LetsGo(c)
    PROVE  /\ Counted' /\ Loads' /\ conn' \in [Conns -> ConnRow] /\ live' \in [Docs -> LiveRow]
           /\ conn'[c] = Out /\ \A b \in Conns : b # c => conn'[b] = conn[b]
           /\ \A d \in Docs : \/ live'[d] = live[d]
                              \/ live'[d] = Dead /\ d # hub /\ \A b \in Conns : conn'[b].doc # d
<1>1. Shapes /\ Counted /\ Loads
  BY DEF HeldInv
<1>2. /\ conn' \in [Conns -> ConnRow] /\ conn'[c] = Out /\ \A b \in Conns : b # c => conn'[b] = conn[b]
      /\ Out.pc = "out" /\ Out.doc = NoDoc
  BY <1>1, OutRow DEF LetsGo, Shapes
<1>3. conn[c].doc \in Docs /\ NoDoc \notin Docs /\ conn[c].pc \notin Editing
  BY <1>1, Fields DEF LetsGo, Counted, Apart, Loading, Editing
<1>4. /\ live' \in [Docs -> LiveRow]
      /\ \A d \in Docs : \/ live'[d] = live[d]
                         \/ live'[d] = Dead /\ d = conn[c].doc /\ hub # d /\ Holders(d) = {c}
  BY <1>1, <1>3, Drops DEF LetsGo
<1>5. \A d \in Docs : \/ live'[d] = live[d]
                      \/ live'[d] = Dead /\ d # hub /\ \A b \in Conns : conn'[b].doc # d
  BY <1>2, <1>3, <1>4 DEF Holders
<1>6. \A d : Editors(d)' = Editors(d)
  BY <1>2, <1>3 DEF Editors, Editing
<1>7. Counted'
  <2>1. \A b \in Conns : conn'[b].doc = NoDoc <=> conn'[b].pc \in Apart
    BY <1>1, <1>2 DEF Counted, Apart
  <2>2. \A b \in Conns : conn'[b].doc # NoDoc => b # c /\ conn'[b] = conn[b] /\ conn[b].doc \in Docs
    BY <1>1, <1>2, Fields
  <2>3. \A b \in Conns : conn'[b].doc # NoDoc => conn'[b].doc <= budget.loads /\ live'[conn'[b].doc].conns # -1
    BY <1>1, <1>5, <2>2 DEF Counted, Doc
  <2>4. \A d \in Docs : live'[d].conns # -1 => IsFiniteSet(Editors(d)) /\ live'[d].conns = Cardinality(Editors(d))
    BY <1>1, <1>5 DEF Counted, Dead
  <2> QED BY <1>6, <2>1, <2>3, <2>4 DEF Counted, Doc, LetsGo
<1>8. Loads'
  <2>1. \A b \in Conns : conn'[b].pc \in Loading => b # c /\ conn'[b] = conn[b]
    BY <1>2 DEF Loading
  <2>2. lock' <=> \E b \in Conns : conn'[b].pc \in Loading
    BY <1>1, <1>2, <2>1 DEF Loads, LetsGo, Loading
  <2>3. \A a, b \in Conns : conn'[a].pc \in Loading /\ conn'[b].doc = conn'[a].doc => b = a
    <3>1. \A a \in Conns : conn'[a].pc \in Loading => conn'[a].doc # NoDoc
      BY <1>1, <2>1 DEF Counted, Loading, Apart
    <3> QED BY <1>1, <1>2, <2>1, <3>1 DEF Loads
  <2>4. \A a, b \in Conns : conn'[a].pc \in Loading /\ conn'[b].pc \in Loading => b = a
    BY <1>1, <2>1 DEF Loads
  <2>5. hub # NoDoc => hub \in Docs /\ live'[hub] = live[hub]
    BY <1>1, <1>5 DEF Shapes
  <2>6. \A b \in Conns : conn'[b].pc \in {"save", "final"} => conn'[b].doc # hub
    BY <1>1, <1>2 DEF Loads
  <2> QED BY <1>1, <2>2, <2>3, <2>4, <2>5, <2>6 DEF Loads, LetsGo
<1> QED BY <1>2, <1>4, <1>5, <1>7, <1>8

\* It leaves nothing behind that has to be stored or written.
LEMMA OutKeeps ==
    ASSUME CollabInv, NEW c \in Conns, LetsGo(c), Shapes', MoveStep(c),
           stray' = stray, cut' = cut, lock' = lock, db'.pending = db.pending,
           LogInv /\ ~stray => Kept,
           conn[c].pc = "save" => save[c].pc = "end", save'[c] = Rest,
           \A a \in Conns \cup Docs : a # c => save'[a] = save[a]
    PROVE  CollabInv'
<1>1. Shapes /\ HeldInv /\ LogInv /\ FileInv /\ Numbers /\ Savers
  BY DEF CollabInv, HeldInv
<1>2. /\ Counted' /\ Loads' /\ conn'[c] = Out /\ \A b \in Conns : b # c => conn'[b] = conn[b]
      /\ \A d \in Docs : \/ live'[d] = live[d]
                         \/ live'[d] = Dead /\ d # hub /\ \A b \in Conns : conn'[b].doc # d
  BY <1>1, GoesOut
<1>3. Numbers' /\ Acks'
  BY <1>1, MoveKeeps
<1>4. c \notin Docs /\ Out.pc = "out" /\ Out.doc = NoDoc
  BY CollabAssumption, OutRow
<1>5. Savers'
  BY <1>1, <1>2, <1>4 DEF Savers, LetsGo
<1>6. Stored' = Stored /\ acked' = acked /\ replaced' = replaced /\ late' = late /\ file' = file /\ hub' = hub
  BY DEF Stored, MoveStep, SameHistory, LetsGo
<1>7. LogInv'
  <2>1. \A b \in Conns : conn'[b] = conn[b] \/ conn'[b].pc = "out"
    BY <1>2, <1>4
  <2>2. \A b \in Conns :
               /\ conn'[b].pc \in Editing => conn[b].pc \in Editing /\ conn'[b].doc = conn[b].doc
               /\ conn'[b].pc = "append" => conn[b].pc = "append" /\ conn'[b].n = conn[b].n /\ conn'[b].doc = conn[b].doc
               /\ conn'[b].pc \in Snapping =>
                      conn[b].pc \in Snapping /\ conn'[b].text = conn[b].text /\ conn'[b].seq = conn[b].seq
               /\ conn'[b].pc \in Loading => conn'[b] = conn[b]
    BY <2>1 DEF Editing, Snapping, Loading
  <2> QED BY <1>1, <1>2, <1>6, <2>2, SameLog DEF MoveStep
<1>8. FileInv'
  <2>1. \A b \in Conns : conn'[b].pc \in {"unload", "save"} => b # c /\ conn[b].doc \in Docs
    <3>1. \A b \in Conns : conn'[b].pc \in {"unload", "save"} => b # c /\ conn[b].doc # NoDoc
      BY <1>2, <1>4 DEF Counted, Apart
    <3> QED BY <1>1, <3>1, Fields
  <2>2. \A b \in Conns : conn'[b].pc \in {"unload", "save"} =>
            /\ conn'[b] = conn[b] /\ save'[b] = save[b] /\ live'[conn[b].doc] = live[conn[b].doc]
    BY <1>2, <2>1
  <2>3. \A b \in Conns : conn[b].pc = "save" /\ save[b].pc # "end" => conn'[b].pc = "save"
    BY <1>2
  <2>4. hub # NoDoc => save'[hub] = save[hub] /\ live'[hub] = live[hub]
    <3>1. hub # NoDoc => hub \in Docs
      BY <1>1 DEF Shapes
    <3> QED BY <1>2, <1>4, <3>1
  <2>5. \A b \in Conns : conn[b].pc = "record" => conn'[b].pc = "record"
    BY <1>2 DEF LetsGo, Loading
  <2> QED BY <1>1, <1>6, <2>2, <2>3, <2>4, <2>5, SameFile
<1> QED BY <1>2, <1>3, <1>5, <1>7, <1>8 DEF CollabInv, HeldInv

LEMMA UnloadNotInv ==
    ASSUME CollabInv, NEW c \in Conns, UnloadNot(c)
    PROVE  CollabInv'
<1>1. Shapes /\ HeldInv /\ Savers
  BY DEF CollabInv, HeldInv
<1>2. /\ conn[c].pc = "unload" /\ ~lock /\ live' = Dropped(c) /\ conn' = [conn EXCEPT ![c] = Out]
      /\ db' = db /\ file' = file /\ hub' = hub /\ lock' = lock /\ save' = save /\ budget' = budget
      /\ acked' = acked /\ replaced' = replaced /\ late' = late /\ stray' = stray /\ cut' = cut
  BY DEF UnloadNot, IsAt
<1>3. LetsGo(c)
  BY <1>2 DEF LetsGo, Loading
<1>4. /\ conn' \in [Conns -> ConnRow] /\ live' \in [Docs -> LiveRow]
      /\ conn'[c] = Out /\ \A b \in Conns : b # c => conn'[b] = conn[b]
      /\ \A d \in Docs : live'[d] = live[d] \/ live'[d] = Dead
  BY <1>1, <1>3, GoesOut
<1>5. Shapes'
  BY <1>1, <1>2, <1>4 DEF Shapes, DbShape
<1>6. db.next > 0 /\ Dead.last = 0
  BY <1>1 DEF Shapes, DbShape, Dead
<1>7. MoveStep(c)
  BY <1>2, <1>4, <1>6, OutRow DEF MoveStep, SameHistory
<1>8. Kept
  BY <1>2, SameKept DEF DataSame
<1> QED BY <1>1, <1>2, <1>3, <1>5, <1>7, <1>8, OutKeeps DEF Savers

LEMMA FinalInv ==
    ASSUME CollabInv, NEW c \in Conns, Final(c)
    PROVE  CollabInv'
<1>1. Shapes /\ HeldInv /\ Numbers /\ Savers /\ Loads
  BY DEF CollabInv, HeldInv
<1>2. /\ conn[c].pc = "final" /\ live' = Dropped(c) /\ conn' = [conn EXCEPT ![c] = Out]
      /\ file' = file /\ hub' = hub /\ lock' = lock /\ save' = save
      /\ acked' = acked /\ replaced' = replaced /\ late' = late /\ stray' = stray /\ cut' = cut
      /\ db' = db \/ db' = Compacted(conn[c].text, conn[c].seq)
      /\ budget' = budget \/ Fault
  BY DEF Final, IsAt
<1>3. /\ budget' \in [loads : 0..MaxLoads, edits : 0..MaxEdits, external : 0..MaxExternal, faults : Nat]
      /\ budget'.loads = budget.loads /\ budget'.edits = budget.edits
  BY <1>1, <1>2, Faults DEF Shapes
<1>4. LetsGo(c)
  BY <1>2, <1>3 DEF LetsGo, Loading
<1>5. /\ conn' \in [Conns -> ConnRow] /\ live' \in [Docs -> LiveRow]
      /\ conn'[c] = Out /\ \A b \in Conns : b # c => conn'[b] = conn[b]
      /\ \A d \in Docs : live'[d] = live[d] \/ live'[d] = Dead
  BY <1>1, <1>4, GoesOut
<1>6. DbShape' /\ db'.next = db.next /\ db'.pending = db.pending /\ (LogInv /\ ~stray => Kept)
  <2>1. CASE db' = db
    <3>1. DataSame
      BY <1>2, <2>1 DEF DataSame
    <3> QED BY <1>1, <1>2, <2>1, <3>1, SameKept DEF Shapes, DbShape
  <2>2. CASE db' = Compacted(conn[c].text, conn[c].seq)
    <3>1. conn[c].text \in SUBSET Text /\ conn[c].seq \in Nat /\ conn[c].seq < db.next
      BY <1>1, Fields DEF Numbers
    <3>2. LogInv /\ ~stray => Covers(conn[c].text, conn[c].seq)
      BY <1>2 DEF LogInv, Snapshots
    <3> QED BY <1>1, <1>2, <2>2, <3>1, <3>2, CompactKeeps
  <2> QED BY <1>2, <2>1, <2>2
<1>7. Shapes'
  BY <1>1, <1>2, <1>3, <1>5, <1>6 DEF Shapes
<1>8. db.next > 0 /\ Dead.last = 0
  BY <1>1 DEF Shapes, DbShape, Dead
<1>9. MoveStep(c)
  BY <1>2, <1>3, <1>5, <1>6, <1>8, OutRow DEF MoveStep, SameHistory
<1>10. save'[c] = Rest
  BY <1>1, <1>2 DEF Savers
<1> QED BY <1>2, <1>4, <1>6, <1>7, <1>9, <1>10, OutKeeps

LEMMA SquashInv ==
    ASSUME CollabInv, NEW c \in Conns, Squash(c)
    PROVE  CollabInv'
<1> DEFINE d == conn[c].doc
<1>1. Shapes /\ HeldInv /\ Numbers /\ Savers /\ Loads /\ Counted /\ LogInv /\ FileInv
  BY DEF CollabInv, HeldInv
<1>2. /\ conn[c].pc = "save" /\ save[c].pc = "end" /\ save' = [save EXCEPT ![c] = Rest]
      /\ db' = db /\ file' = file /\ hub' = hub /\ lock' = lock /\ budget' = budget
      /\ acked' = acked /\ replaced' = replaced /\ late' = late /\ stray' = stray /\ cut' = cut
  BY DEF Squash, IsAt
<1>3. /\ save' \in [Conns \cup Docs -> SaveRow] /\ save'[c] = Rest /\ Rest.ver = 0
      /\ \A a \in Conns \cup Docs : a # c => save'[a] = save[a]
  <2>1. Rest \in SaveRow /\ Rest.ver = 0
    BY DEF Rest, SaveRow
  <2> QED BY <1>1, <1>2, <2>1 DEF Shapes
<1>4. db.next > 0 /\ Dead.last = 0 /\ db.next \in Nat
  BY <1>1 DEF Shapes, DbShape, Dead
<1>5. Kept /\ Stored' = Stored
  BY <1>2, SameKept DEF DataSame, Stored
<1>6. CASE live' = Dropped(c) /\ conn' = [conn EXCEPT ![c] = Out]
  <2>1. LetsGo(c)
    BY <1>2, <1>6 DEF LetsGo, Loading
  <2>2. /\ conn' \in [Conns -> ConnRow] /\ live' \in [Docs -> LiveRow]
        /\ conn'[c] = Out /\ \A b \in Conns : b # c => conn'[b] = conn[b]
        /\ \A x \in Docs : live'[x] = live[x] \/ live'[x] = Dead
    BY <1>1, <2>1, GoesOut
  <2>3. Shapes'
    BY <1>1, <1>2, <1>3, <2>2 DEF Shapes, DbShape
  <2>4. MoveStep(c)
    BY <1>2, <1>3, <1>4, <2>2, OutRow DEF MoveStep, SameHistory
  <2> QED BY <1>2, <1>3, <1>5, <2>1, <2>3, <2>4, OutKeeps
<1>7. CASE /\ live' = [live EXCEPT ![d].appended = 0]
           /\ conn' = [conn EXCEPT ![c].pc = "final", ![c].seq = Doc(c).last, ![c].text = Doc(c).mem]
  <2>1. d \in Docs /\ d # hub /\ live \in [Docs -> LiveRow] /\ conn \in [Conns -> ConnRow]
    BY <1>1, <1>2, Fields DEF Counted, Apart, Loads, Shapes
  <2>2. /\ live' \in [Docs -> LiveRow]
        /\ \A x \in Docs : /\ x # d => live'[x] = live[x]
                           /\ live'[x].mem = live[x].mem /\ live'[x].last = live[x].last
                           /\ live'[x].conns = live[x].conns /\ live'[x].dirty = live[x].dirty
    BY <1>7, <2>1 DEF LiveRow
  <2>3. /\ conn' \in [Conns -> ConnRow] /\ \A b \in Conns : b # c => conn'[b] = conn[b]
        /\ conn'[c].pc = "final" /\ conn'[c].doc = d /\ conn'[c].n = conn[c].n /\ conn'[c].ver = conn[c].ver
        /\ conn'[c].seq = live[d].last /\ conn'[c].text = live[d].mem
    <3>1. "final" \in Pcs /\ live[d].last \in Nat /\ live[d].mem \in SUBSET Text
      BY <2>1 DEF Pcs, LiveRow
    <3>2. conn[c] \in ConnRow
      BY <2>1
    <3> QED BY <1>7, <2>1, <3>1, <3>2 DEF ConnRow, Doc
  <2>4. Shapes'
    BY <1>1, <1>2, <1>3, <2>2, <2>3 DEF Shapes, DbShape
  <2>5. Counted' /\ Loads'
    <3>1. Places
      BY <1>2, <2>2, <2>3 DEF Places, Editing, Loading, Apart
    <3> QED BY <1>1, <3>1, SamePlaces
  <2>6. Numbers' /\ Acks'
    <3>1. conn'[c].seq < db.next
      BY <1>1, <2>1, <2>3 DEF Numbers
    <3>2. MoveStep(c)
      BY <1>2, <1>3, <2>2, <2>3, <3>1 DEF MoveStep, SameHistory
    <3> QED BY <1>1, <3>2, MoveKeeps
  <2>7. Savers'
    <3>1. c \notin Docs
      BY CollabAssumption
    <3> QED BY <1>1, <1>2, <1>3, <2>3, <3>1 DEF Savers
  <2>8. LogInv'
    <3>1. \A b \in Conns :
               /\ conn'[b].pc \in Editing => conn[b].pc \in Editing /\ conn'[b].doc = conn[b].doc
               /\ conn'[b].pc = "append" => conn[b].pc = "append" /\ conn'[b].n = conn[b].n /\ conn'[b].doc = conn[b].doc
               /\ conn'[b].pc \in Snapping =>
                      \/ conn[b].pc \in Snapping /\ conn'[b].text = conn[b].text /\ conn'[b].seq = conn[b].seq
                      \/ \E x \in Docs : conn'[b].text = live[x].mem /\ conn'[b].seq = live[x].last
               /\ conn'[b].pc \in Loading => conn'[b] = conn[b]
      BY <2>1, <2>3 DEF Editing, Loading
    <3>2. \A x \in Docs : live[x].mem \subseteq live'[x].mem /\ live'[x].last = live[x].last
      BY <2>2
    <3> QED BY <1>1, <1>2, <1>5, <2>4, <2>5, <3>1, <3>2, SameLog
  <2>9. FileInv'
    <3>1. \A b \in Conns : conn'[b].pc \in {"unload", "save"} => b # c /\ conn[b].doc \in Docs
      <4>1. \A b \in Conns : conn'[b].pc \in {"unload", "save"} => b # c /\ conn[b].doc # NoDoc
        BY <1>1, <2>3 DEF Counted, Apart
      <4> QED BY <1>1, <4>1, Fields
    <3>2. \A b \in Conns : conn'[b].pc \in {"unload", "save"} =>
              /\ conn'[b] = conn[b] /\ save'[b] = save[b] /\ live'[conn[b].doc].dirty = live[conn[b].doc].dirty
              /\ live[conn[b].doc].mem \subseteq live'[conn[b].doc].mem
      BY <1>3, <2>2, <2>3, <3>1
    <3>3. \A b \in Conns : conn[b].pc = "save" /\ save[b].pc # "end" => conn'[b].pc = "save"
      BY <1>2, <2>3
    <3>4. hub # NoDoc => save'[hub] = save[hub] /\ live'[hub] = live[hub]
      <4>1. hub # NoDoc => hub \in Docs /\ hub # c
        BY <1>1, CollabAssumption DEF Shapes
      <4> QED BY <1>3, <2>1, <2>2, <4>1
    <3>5. \A b \in Conns : conn[b].pc = "record" => conn'[b].pc = "record"
      BY <1>2, <2>3
    <3> QED BY <1>1, <1>2, <1>5, <3>2, <3>3, <3>4, <3>5, SameFile
  <2> QED BY <2>4, <2>5, <2>6, <2>7, <2>8, <2>9 DEF CollabInv, HeldInv
<1> QED BY <1>6, <1>7 DEF Squash

LEMMA FetchInv ==
    ASSUME CollabInv, NEW c \in Conns, Fetch(c)
    PROVE  CollabInv'
<1>1. Shapes /\ HeldInv /\ Numbers /\ Savers /\ Loads /\ Counted /\ LogInv /\ FileInv
  BY DEF CollabInv, HeldInv
<1>2. /\ conn[c].pc = "new" /\ conn' = [conn EXCEPT ![c].pc = "join", ![c].ver = Len(file)]
      /\ db' = db /\ file' = file /\ hub' = hub /\ lock' = lock /\ live' = live /\ save' = save /\ budget' = budget
      /\ acked' = acked /\ replaced' = replaced /\ late' = late /\ stray' = stray /\ cut' = cut
  BY DEF Fetch, IsAt
<1>3. /\ conn' \in [Conns -> ConnRow] /\ \A b \in Conns : b # c => conn'[b] = conn[b]
      /\ conn'[c].pc = "join" /\ conn'[c].doc = conn[c].doc /\ conn'[c].n = conn[c].n /\ conn'[c].ver = Len(file)
      /\ conn'[c].seq = conn[c].seq
  <2>1. "join" \in Pcs /\ Len(file) \in Nat /\ conn \in [Conns -> ConnRow]
    BY <1>1, Fields DEF Pcs, Apart, Shapes
  <2>2. conn[c] \in ConnRow
    BY <2>1
  <2> QED BY <1>2, <2>1, <2>2 DEF ConnRow
<1>4. Shapes'
  BY <1>1, <1>2, <1>3 DEF Shapes, DbShape
<1>5. Counted' /\ Loads'
  <2>1. Places
    BY <1>2, <1>3 DEF Places, Editing, Loading, Apart
  <2> QED BY <1>1, <2>1, SamePlaces
<1>6. Numbers' /\ Acks'
  <2>1. MoveStep(c)
    BY <1>2, <1>3 DEF MoveStep, SameHistory
  <2> QED BY <1>1, <2>1, MoveKeeps
<1>7. Savers'
  BY <1>1, <1>2, <1>3 DEF Savers
<1>8. Kept /\ Stored' = Stored
  BY <1>2, SameKept DEF DataSame, Stored
<1>9. LogInv'
  <2>1. \A b \in Conns : conn'[b] = conn[b] \/ conn'[b].pc = "join"
    BY <1>3
  <2>2. \A b \in Conns :
               /\ conn'[b].pc \in Editing => conn'[b] = conn[b]
               /\ conn'[b].pc = "append" => conn'[b] = conn[b]
               /\ conn'[b].pc \in Snapping => conn'[b] = conn[b]
               /\ conn'[b].pc \in Loading => conn'[b] = conn[b]
    BY <2>1 DEF Editing, Snapping, Loading
  <2> QED BY <1>1, <1>2, <1>4, <1>5, <1>8, <2>2, SameLog
<1>10. FileInv'
  <2>1. \A b \in Conns : conn'[b].pc \in {"unload", "save"} => conn'[b] = conn[b]
    BY <1>3
  <2>2. \A b \in Conns : conn[b].pc \in {"save", "record"} => conn'[b] = conn[b]
    BY <1>2, <1>3
  <2> QED BY <1>1, <1>2, <1>8, <2>1, <2>2, SameFile
<1> QED BY <1>4, <1>5, <1>6, <1>7, <1>9, <1>10 DEF CollabInv, HeldInv

LEMMA JoinSharedInv ==
    ASSUME CollabInv, NEW c \in Conns, JoinShared(c)
    PROVE  CollabInv'
<1> DEFINE r == [Out EXCEPT !.pc = "in", !.doc = hub]
<1>1. Shapes /\ HeldInv /\ Numbers /\ Savers /\ Loads /\ Counted /\ LogInv /\ FileInv
  BY DEF CollabInv, HeldInv
<1>2. /\ conn[c].pc = "join" /\ ~lock /\ hub # NoDoc
      /\ live' = [live EXCEPT ![hub].conns = @ + 1] /\ conn' = [conn EXCEPT ![c] = r]
      /\ db' = db /\ file' = file /\ hub' = hub /\ lock' = lock /\ save' = save /\ budget' = budget
      /\ acked' = acked /\ replaced' = replaced /\ late' = late /\ stray' = stray /\ cut' = cut
  BY DEF JoinShared, IsAt
<1>3. hub \in Docs /\ hub <= budget.loads /\ live[hub].conns \in Nat
  BY <1>1, <1>2, Fields DEF Shapes, Loads
<1>4. r \in ConnRow /\ r.pc = "in" /\ r.doc = hub /\ r.ver = 0 /\ r.n = 0 /\ r.seq = 0
  <2>1. "in" \in Pcs /\ hub \in Docs \cup {NoDoc}
    BY <1>3 DEF Pcs, Editing
  <2> QED BY <2>1, OutRow DEF ConnRow
<1> HIDE DEF r
<1>5. conn' \in [Conns -> ConnRow] /\ conn'[c] = r /\ \A b \in Conns : b # c => conn'[b] = conn[b]
  BY <1>1, <1>2, <1>4 DEF Shapes
<1>6. /\ live' \in [Docs -> LiveRow] /\ live'[hub].conns = live[hub].conns + 1
      /\ \A x \in Docs : /\ x # hub => live'[x] = live[x]
                         /\ live'[x].mem = live[x].mem /\ live'[x].last = live[x].last /\ live'[x].dirty = live[x].dirty
  <2>1. live \in [Docs -> LiveRow] /\ live[hub].conns + 1 \in Nat \cup {-1}
    BY <1>1, <1>3 DEF Shapes
  <2> QED BY <1>2, <1>3, <2>1 DEF LiveRow
<1>7. Shapes'
  BY <1>1, <1>2, <1>5, <1>6 DEF Shapes, DbShape
<1>8. Numbers' /\ Acks'
  <2>1. 0 < db.next
    BY <1>1 DEF Shapes, DbShape
  <2>2. MoveStep(c)
    BY <1>2, <1>4, <1>5, <1>6, <2>1 DEF MoveStep, SameHistory
  <2> QED BY <1>1, <2>2, MoveKeeps
<1>9. Counted'
  <2>1. \A d \in Docs : d # hub => Editors(d)' = Editors(d)
    BY <1>2, <1>4, <1>5 DEF Editors, Editing
  <2>2. ASSUME NEW d \in Docs, d = hub
        PROVE  IsFiniteSet(Editors(d)') /\ live'[d].conns = Cardinality(Editors(d)')
    <3>1. Editors(d)' = Editors(d) \cup {c} /\ c \notin Editors(d)
      BY <1>2, <1>4, <1>5, <2>2 DEF Editors, Editing
    <3>2. IsFiniteSet(Editors(d)) /\ live[d].conns = Cardinality(Editors(d))
      BY <1>1, <1>3, <2>2 DEF Counted
    <3>3. IsFiniteSet(Editors(d) \cup {c}) /\ Cardinality(Editors(d) \cup {c}) = Cardinality(Editors(d)) + 1
      BY <3>1, <3>2, FS_AddElement
    <3> QED BY <1>6, <2>2, <3>1, <3>2, <3>3
  <2>5. \A d \in Docs : live'[d].conns # -1 => IsFiniteSet(Editors(d)') /\ live'[d].conns = Cardinality(Editors(d)')
    BY <1>1, <1>6, <2>1, <2>2 DEF Counted
  <2>6. \A b \in Conns : conn'[b].doc = NoDoc <=> conn'[b].pc \in Apart
    BY <1>1, <1>2, <1>4, <1>5 DEF Counted, Apart
  <2>7. live'[hub].conns # -1
    BY <1>3, <1>6
  <2>8. \A b \in Conns : conn'[b].doc # NoDoc => conn'[b].doc <= budget.loads /\ live'[conn'[b].doc].conns # -1
    <3>1. \A b \in Conns : conn[b].doc # NoDoc => conn[b].doc \in Docs
      BY <1>1, Fields
    <3> QED BY <1>1, <1>3, <1>4, <1>5, <1>6, <2>7, <3>1 DEF Counted, Doc
  <2> QED BY <1>2, <2>5, <2>6, <2>8 DEF Counted, Doc
<1>10. Loads'
  <2>1. \A b \in Conns : conn'[b].pc \in Loading \cup {"save", "final"} => b # c
    BY <1>4, <1>5 DEF Loading
  <2>2. live'[hub].conns # -1
    BY <1>3, <1>6
  <2>3. \A b \in Conns : conn[b].pc \notin Loading
    BY <1>1, <1>2 DEF Loads
  <2> QED BY <1>1, <1>2, <1>5, <2>1, <2>2, <2>3 DEF Loads
<1>11. Savers'
  BY <1>1, <1>2, <1>5 DEF Savers
<1>12. Kept /\ Stored' = Stored
  BY <1>2, SameKept DEF DataSame, Stored
<1>13. LogInv'
  <2>1. \A b \in Conns :
               /\ conn'[b].pc \in Editing => conn'[b].doc = hub \/ conn'[b] = conn[b]
               /\ conn'[b].pc = "append" => conn'[b] = conn[b]
               /\ conn'[b].pc \in Snapping => conn'[b] = conn[b]
               /\ conn'[b].pc \in Loading => conn'[b] = conn[b]
    BY <1>4, <1>5 DEF Editing, Snapping, Loading
  <2>2. \A x \in Docs : live[x].mem \subseteq live'[x].mem /\ live'[x].last = live[x].last
    BY <1>6
  <2> QED BY <1>1, <1>2, <1>7, <1>9, <1>12, <2>1, <2>2, SameLog
<1>14. FileInv'
  <2>1. \A b \in Conns : conn'[b].pc \in {"unload", "save"} => conn'[b] = conn[b] /\ conn[b].doc \in Docs
    <3>1. \A b \in Conns : conn'[b].pc \in {"unload", "save"} => conn'[b] = conn[b] /\ conn[b].doc # NoDoc
      BY <1>1, <1>4, <1>5 DEF Counted, Apart
    <3> QED BY <1>1, <3>1, Fields
  <2>2. \A b \in Conns : conn[b].pc \in {"save", "record"} => conn'[b] = conn[b]
    BY <1>2, <1>5
  <2>3. \A b \in Conns : conn'[b].pc \in {"unload", "save"} =>
            /\ live'[conn[b].doc].dirty = live[conn[b].doc].dirty
            /\ live[conn[b].doc].mem \subseteq live'[conn[b].doc].mem
    BY <1>6, <2>1
  <2>4. \A b \in Conns : conn[b].pc = "save" => conn'[b] = conn[b] /\ live'[conn[b].doc].dirty = live[conn[b].doc].dirty
    BY <2>2, <2>3
  <2>5. live'[hub].dirty = live[hub].dirty
    BY <1>3, <1>6
  <2> QED BY <1>1, <1>2, <1>12, <2>1, <2>2, <2>3, <2>4, <2>5, SameFile
<1> QED BY <1>7, <1>8, <1>9, <1>10, <1>11, <1>13, <1>14 DEF CollabInv, HeldInv

\* During a load every stored edit has reached the file and nothing is left to be written.
LEMMA LoadQuiet ==
    ASSUME CollabInv, ~cut, NEW c \in Conns, conn[c].pc \in Loading
    PROVE  /\ lock /\ hub = NoDoc /\ ~stray
           /\ \A e \in Stored : Reached(e)
           /\ \A b \in Conns : Leaving(b) => ~Unwritten(b)
           /\ \A b \in Conns : conn[b].pc \notin Editing
<1>1. lock /\ hub = NoDoc
  BY DEF CollabInv, HeldInv, Loads
<1>2. ~Alone /\ ~stray
  BY <1>1 DEF Alone, CollabInv, FileInv
<1>3. \A e \in Stored : Reached(e)
  BY <1>1, <1>2 DEF CollabInv, FileInv, Cover
<1>4. \A b \in Conns : Leaving(b) => ~Unwritten(b)
  <2>1. \A b \in Conns : Leaving(b) => conn[b].doc # NoDoc
    BY DEF CollabInv, HeldInv, Counted, Leaving, Apart
  <2> QED BY <1>1, <1>2, <2>1 DEF CollabInv, FileInv, Leavers
<1>5. \A b \in Conns : conn[b].pc \notin Editing
  BY <1>1, <1>2, EditorInHub DEF CollabInv
<1> QED BY <1>1, <1>2, <1>3, <1>4, <1>5

LEMMA JoinFailInv ==
    ASSUME CollabInv, NEW c \in Conns, JoinFail(c)
    PROVE  CollabInv'
<1>1. Shapes /\ HeldInv /\ Numbers /\ Savers /\ Loads /\ Counted /\ LogInv /\ FileInv
  BY DEF CollabInv, HeldInv
<1>2. /\ conn[c].pc \in Loading /\ Fault /\ lock' = FALSE /\ live' = Dropped(c) /\ conn' = [conn EXCEPT ![c] = Out]
      /\ db' = db /\ file' = file /\ hub' = hub /\ save' = save
      /\ acked' = acked /\ replaced' = replaced /\ late' = late /\ stray' = stray /\ cut' = cut
  BY DEF JoinFail, Loading
<1>3. /\ budget' \in [loads : 0..MaxLoads, edits : 0..MaxEdits, external : 0..MaxExternal, faults : Nat]
      /\ budget'.loads = budget.loads /\ budget'.edits = budget.edits
  BY <1>1, <1>2, Faults
<1>4. LetsGo(c)
  BY <1>2, <1>3 DEF LetsGo
<1>5. /\ conn' \in [Conns -> ConnRow] /\ live' \in [Docs -> LiveRow] /\ Counted' /\ Loads'
      /\ conn'[c] = Out /\ \A b \in Conns : b # c => conn'[b] = conn[b]
      /\ \A d \in Docs : \/ live'[d] = live[d]
                         \/ live'[d] = Dead /\ d # hub /\ \A b \in Conns : conn'[b].doc # d
  BY <1>1, <1>4, GoesOut
<1>6. Shapes'
  BY <1>1, <1>2, <1>3, <1>5 DEF Shapes, DbShape
<1>7. Numbers' /\ Acks'
  <2>1. db.next > 0 /\ Dead.last = 0
    BY <1>1 DEF Shapes, DbShape, Dead
  <2>2. MoveStep(c)
    BY <1>2, <1>3, <1>5, <2>1, OutRow DEF MoveStep, SameHistory
  <2> QED BY <1>1, <2>2, MoveKeeps
<1>8. Savers'
  BY <1>1, <1>2, <1>5 DEF Savers, Loading
<1>9. Kept /\ Stored' = Stored
  BY <1>2, SameKept DEF DataSame, Stored
<1>10. LogInv'
  <2>1. \A b \in Conns : conn'[b] = conn[b] \/ conn'[b].pc = "out"
    BY <1>5, OutRow
  <2>2. \A b \in Conns :
               /\ conn'[b].pc \in Editing => conn'[b] = conn[b]
               /\ conn'[b].pc = "append" => conn'[b] = conn[b]
               /\ conn'[b].pc \in Snapping => conn'[b] = conn[b]
               /\ conn'[b].pc \in Loading => conn'[b] = conn[b]
    BY <2>1 DEF Editing, Snapping, Loading
  <2> QED BY <1>1, <1>2, <1>5, <1>6, <1>9, <2>2, SameLog
<1>11. FileInv'
  <2> SUFFICES ASSUME ~cut
               PROVE  /\ Leavers'
                      /\ \A e \in Stored : Reached(e)'
                      /\ \A e \in replaced : acked[e] < Len(file)
                      /\ late = {}
    BY <1>1, <1>2, <1>9 DEF FileInv
  <2>1. /\ hub = NoDoc /\ \A e \in Stored : Reached(e)
        /\ \A b \in Conns : Leaving(b) => ~Unwritten(b)
    BY <1>2, LoadQuiet
  <2>2. \A e \in Stored : Reached(e)'
    BY <1>2, <2>1 DEF Reached, Written
  <2>3. \A b \in Conns : Leaving(b)' => ~Unwritten(b)'
    <3> SUFFICES ASSUME NEW b \in Conns, Leaving(b)' PROVE ~Unwritten(b)'
      OBVIOUS
    <3>1. b # c /\ conn'[b] = conn[b]
      BY <1>5, OutRow DEF Leaving
    <3>2. Leaving(b) /\ conn[b].doc \in Docs
      <4>1. Leaving(b) /\ conn[b].doc # NoDoc
        BY <1>1, <3>1 DEF Counted, Apart, Leaving
      <4> QED BY <1>1, <4>1, Fields
    <3>3. live'[conn[b].doc] = live[conn[b].doc]
      BY <1>5, <3>1, <3>2
    <3> QED BY <1>2, <2>1, <3>1, <3>2, <3>3 DEF Unwritten, Doc
  <2>4. Leavers'
    BY <2>2, <2>3, <1>9 DEF Leavers, Unwritten
  <2> QED BY <1>1, <2>2, <2>4 DEF FileInv
<1> QED BY <1>5, <1>6, <1>7, <1>8, <1>10, <1>11 DEF CollabInv, HeldInv

LEMMA JoinInsertInv ==
    ASSUME CollabInv, NEW c \in Conns, JoinInsert(c)
    PROVE  CollabInv'
<1> DEFINE d == conn[c].doc
<1>1. Shapes /\ HeldInv /\ Numbers /\ Savers /\ Loads /\ Counted /\ LogInv /\ FileInv
  BY DEF CollabInv, HeldInv
<1>2. /\ conn[c].pc = "insert" /\ conn[c].pc \in Loading
      /\ db' = [db EXCEPT !.saved = conn[c].ver, !.pending = FALSE]
      /\ hub' = d /\ lock' = FALSE /\ live' = [live EXCEPT ![d].conns = 1]
      /\ conn' = [conn EXCEPT ![c] = Stay(c, "in")]
      /\ file' = file /\ save' = save /\ budget' = budget
      /\ acked' = acked /\ replaced' = replaced /\ late' = late /\ stray' = stray /\ cut' = cut
  BY DEF JoinInsert, IsAt, Loading
<1>3. d \in Docs /\ d # NoDoc /\ d <= budget.loads /\ lock /\ hub = NoDoc /\ live[d].conns # -1
  <2>1. d # NoDoc
    BY <1>1, <1>2 DEF Counted, Apart
  <2> QED BY <1>1, <1>2, <2>1, Fields DEF Counted, Loads, Doc
<1>4. /\ conn' \in [Conns -> ConnRow] /\ \A b \in Conns : b # c => conn'[b] = conn[b]
      /\ conn'[c].pc = "in" /\ conn'[c].doc = d /\ conn'[c].ver = 0 /\ conn'[c].n = 0 /\ conn'[c].seq = 0
  <2>1. "in" \in Pcs
    BY DEF Pcs, Editing
  <2>2. /\ Stay(c, "in") \in ConnRow /\ Stay(c, "in").pc = "in" /\ Stay(c, "in").doc = d
        /\ Stay(c, "in").seq = 0 /\ Stay(c, "in").ver = 0 /\ Stay(c, "in").n = 0
    BY <1>1, <2>1, StayRow
  <2>3. conn' \in [Conns -> ConnRow] /\ conn'[c] = Stay(c, "in") /\ \A b \in Conns : b # c => conn'[b] = conn[b]
    BY <1>1, <1>2, <2>2 DEF Shapes
  <2> QED BY <2>2, <2>3
<1>5. /\ live' \in [Docs -> LiveRow] /\ live'[d].conns = 1
      /\ \A x \in Docs : /\ x # d => live'[x] = live[x]
                         /\ live'[x].mem = live[x].mem /\ live'[x].last = live[x].last /\ live'[x].dirty = live[x].dirty
  <2>1. live \in [Docs -> LiveRow] /\ 1 \in Nat \cup {-1}
    BY <1>1 DEF Shapes
  <2> QED BY <1>2, <1>3, <2>1 DEF LiveRow
<1>6. DbShape' /\ DataSame
  <2>1. DOMAIN db = {"snap", "snapSeq", "next", "log", "saved", "pending"}
    BY <1>1 DEF Shapes, DbShape
  <2>2. /\ db'.snap = db.snap /\ db'.snapSeq = db.snapSeq /\ db'.next = db.next /\ db'.log = db.log
        /\ DOMAIN db' = DOMAIN db /\ db'.saved = conn[c].ver /\ db'.pending = FALSE
    BY <1>2, <2>1
  <2>3. conn[c].ver \in Nat /\ conn[c].ver <= Len(file)
    BY <1>1, Fields DEF Numbers
  <2> QED BY <1>1, <1>2, <2>2, <2>3 DEF Shapes, DbShape, DataSame
<1>7. Shapes'
  BY <1>1, <1>2, <1>3, <1>4, <1>5, <1>6 DEF Shapes
<1>8. Numbers' /\ Acks'
  <2>1. 0 < db.next
    BY <1>1 DEF Shapes, DbShape
  <2>2. MoveStep(c)
    BY <1>2, <1>4, <1>5, <1>6, <2>1 DEF MoveStep, SameHistory, DataSame
  <2> QED BY <1>1, <2>2, MoveKeeps
<1>9. /\ \A b \in Conns : b # c => conn[b].doc # d /\ conn[b].pc \notin Loading
  BY <1>1, <1>2 DEF Loads
<1>10. Counted'
  <2>1. \A x \in Docs : x # d => Editors(x)' = Editors(x)
    BY <1>2, <1>4 DEF Editors, Editing, Loading
  <2>2. ASSUME NEW x \in Docs, x = d PROVE Editors(x)' = {c}
    <3>1. conn'[c].pc \in Editing
      BY <1>4 DEF Editing
    <3>2. \A b \in Conns : conn'[b].doc = x => b = c
      BY <1>4, <1>9, <2>2
    <3> QED BY <1>4, <2>2, <3>1, <3>2 DEF Editors
  <2>3. \A x \in Docs : live'[x].conns # -1 => IsFiniteSet(Editors(x)') /\ live'[x].conns = Cardinality(Editors(x)')
    BY <1>1, <1>5, <2>1, <2>2, FS_Singleton DEF Counted
  <2>4. \A b \in Conns : conn'[b].doc = NoDoc <=> conn'[b].pc \in Apart
    BY <1>1, <1>3, <1>4 DEF Counted, Apart
  <2>5. \A b \in Conns : conn'[b].doc # NoDoc => conn'[b].doc <= budget.loads /\ live'[conn'[b].doc].conns # -1
    <3>1. \A b \in Conns : conn[b].doc # NoDoc => conn[b].doc \in Docs
      BY <1>1, Fields
    <3> QED BY <1>1, <1>3, <1>4, <1>5, <1>9, <3>1 DEF Counted, Doc
  <2> QED BY <1>2, <2>3, <2>4, <2>5 DEF Counted, Doc
<1>11. Loads'
  <2>1. \A b \in Conns : conn'[b].pc \notin Loading
    BY <1>4, <1>9 DEF Loading
  <2>2. \A b \in Conns : conn'[b].pc \in {"save", "final"} => conn'[b].doc # d
    BY <1>4, <1>9
  <2> QED BY <1>2, <1>3, <1>5, <2>1, <2>2 DEF Loads
<1>12. Savers'
  BY <1>1, <1>2, <1>3, <1>4, Fields DEF Savers
<1>13. Kept /\ Stored' = Stored
  BY <1>6, SameKept, SameData
<1>14. LogInv'
  <2> SUFFICES ASSUME ~stray PROVE (EditsInHub /\ Snapshots /\ Complete)'
    BY <1>2 DEF LogInv
  <2>1. EditsInHub /\ Snapshots /\ Complete
    BY <1>1 DEF LogInv
  <2>2. \A b \in Conns : conn[b].pc \notin Editing
    BY <1>1, <1>3, EditorInHub
  <2>3. EditsInHub'
    <3>1. \A b \in Conns : conn'[b].pc \in Editing => conn'[b].doc = d /\ conn'[b].pc # "append"
      BY <1>4, <2>2
    <3>2. \A b \in Conns : conn'[b].pc # "append"
      BY <3>1 DEF Editing
    <3> QED BY <1>2, <3>1, <3>2 DEF EditsInHub, IsAt
  <2>4. Snapshots'
    <3>1. \A b \in Conns : conn'[b].pc \in Snapping => conn'[b] = conn[b]
      BY <1>4 DEF Snapping
    <3>2. \A x \in Docs : live[x].mem \subseteq live'[x].mem /\ live'[x].last = live[x].last
      BY <1>5
    <3> QED BY <1>1, <1>7, <1>13, <2>1, <3>1, <3>2, MoreSnapshots
  <2>5. Complete'
    <3>1. Stored \subseteq live'[d].mem
      BY <1>2, <1>3, <1>5, <2>1 DEF Complete, IsAt, Doc
    <3>2. \A b \in Conns : conn'[b].pc \notin Loading
      BY <1>4, <1>9 DEF Loading
    <3> QED BY <1>2, <1>13, <3>1, <3>2 DEF Complete, IsAt, Loading
  <2> QED BY <2>3, <2>4, <2>5
<1>15. FileInv'
  <2> SUFFICES ASSUME ~cut
               PROVE  /\ Leavers'
                      /\ \A e \in Stored : Reached(e)'
                      /\ \A e \in replaced : acked[e] < Len(file)
                      /\ late = {}
    BY <1>1, <1>2, <1>13 DEF FileInv
  <2>1. /\ \A e \in Stored : Reached(e)
        /\ \A b \in Conns : Leaving(b) => ~Unwritten(b)
    BY <1>2, LoadQuiet
  <2>2. \A e \in Stored : Reached(e)'
    BY <1>2, <2>1 DEF Reached, Written
  <2>3. \A b \in Conns : Leaving(b)' => ~Unwritten(b)'
    <3> SUFFICES ASSUME NEW b \in Conns, Leaving(b)' PROVE ~Unwritten(b)'
      OBVIOUS
    <3>1. b # c /\ conn'[b] = conn[b] /\ Leaving(b)
      BY <1>4 DEF Leaving
    <3>2. conn[b].doc \in Docs
      <4>1. conn[b].doc # NoDoc
        BY <1>1, <3>1 DEF Counted, Apart, Leaving
      <4> QED BY <1>1, <4>1, Fields
    <3>3. live'[conn[b].doc] = live[conn[b].doc]
      BY <1>5, <1>9, <3>1, <3>2
    <3> QED BY <1>2, <2>1, <3>1, <3>3 DEF Unwritten, Doc
  <2>4. Leavers'
    BY <2>3, <1>2, <1>3 DEF Leavers, Alone
  <2> QED BY <1>1, <2>2, <2>4 DEF FileInv
<1> QED BY <1>7, <1>8, <1>10, <1>11, <1>12, <1>14, <1>15 DEF CollabInv, HeldInv

\* What a load restores is a LiveDoc with all that is durable.
LEMMA RestoredRow ==
    ASSUME Shapes
    PROVE  /\ Restored \in LiveRow /\ Restored.mem = Durable /\ Restored.dirty = db.pending
           /\ Restored.last = db.next - 1 /\ Restored.conns = 0
           /\ [Restored EXCEPT !.conns = 1] \in LiveRow /\ [Restored EXCEPT !.conns = 1].mem = Durable
           /\ [Restored EXCEPT !.conns = 1].dirty = db.pending
           /\ [Restored EXCEPT !.conns = 1].last = db.next - 1 /\ [Restored EXCEPT !.conns = 1].conns = 1
           /\ db.next - 1 \in Nat /\ db.next - 1 < db.next
<1>1. /\ db.snap \subseteq Text /\ db.snapSeq \in Nat /\ db.next \in Nat /\ db.snapSeq < db.next
      /\ DOMAIN db.log \subseteq 1..(db.next - 1) /\ \A q \in DOMAIN db.log : db.log[q] \in Text
      /\ db.pending \in BOOLEAN
  BY DEF Shapes, DbShape
<1>2. db.next - 1 \in Nat /\ db.next - 1 < db.next
  BY <1>1
<1>3. Durable \in SUBSET Text
  BY <1>1 DEF Durable, LoggedAfter
<1>4. Cardinality(LoggedAfter(db.snapSeq)) \in Nat
  <2>1. IsFiniteSet(1..(db.next - 1))
    BY <1>2, FS_Interval
  <2>2. LoggedAfter(db.snapSeq) \in SUBSET (1..(db.next - 1))
    BY <1>1 DEF LoggedAfter
  <2> QED BY <2>1, <2>2, FS_Subset, FS_CardinalityType
<1>5. Restored \in LiveRow
  BY <1>1, <1>2, <1>3, <1>4 DEF Restored, LiveRow
<1>6. /\ Restored.mem = Durable /\ Restored.dirty = db.pending
      /\ Restored.last = db.next - 1 /\ Restored.conns = 0
  BY DEF Restored
<1> QED BY <1>2, <1>5, <1>6 DEF LiveRow

LEMMA JoinLoadInv ==
    ASSUME CollabInv, NEW c \in Conns, JoinLoad(c)
    PROVE  CollabInv'
<1> DEFINE d == budget.loads + 1
           stale == Stale(conn[c].ver)
           l == IF stale THEN Restored ELSE [Restored EXCEPT !.conns = 1]
           r == IF stale THEN [conn[c] EXCEPT !.pc = "import", !.doc = d, !.seq = db.next - 1]
                ELSE [Out EXCEPT !.pc = "in", !.doc = d]
<1>1. Shapes /\ HeldInv /\ Numbers /\ Savers /\ Loads /\ Counted /\ LogInv /\ FileInv
  BY DEF CollabInv, HeldInv
<1>2. /\ conn[c].pc = "join" /\ ~lock /\ hub = NoDoc /\ budget.loads < MaxLoads
      /\ budget' = [budget EXCEPT !.loads = d]
      /\ live' = [live EXCEPT ![d] = l] /\ conn' = [conn EXCEPT ![c] = r]
      /\ lock' = stale /\ hub' = (IF stale THEN hub ELSE d) /\ cut' = (cut \/ Unloading)
      /\ db' = db /\ file' = file /\ save' = save
      /\ acked' = acked /\ replaced' = replaced /\ late' = late /\ stray' = stray
  <2>1. conn' = [conn EXCEPT ![c] = r]
    BY <1>1 DEF JoinLoad, Shapes
  <2> QED BY <2>1 DEF JoinLoad, IsAt
<1>3. d \in Docs /\ d \in Nat /\ d # NoDoc /\ d > budget.loads /\ budget.loads \in Nat
  <2>1. budget.loads \in Nat /\ MaxLoads \in Nat /\ budget.loads < MaxLoads
    BY <1>1, <1>2, Fields, CollabAssumption
  <2> QED BY <2>1 DEF Docs, NoDoc
<1>4. /\ budget' \in [loads : 0..MaxLoads, edits : 0..MaxEdits, external : 0..MaxExternal, faults : Nat]
      /\ budget'.loads = d /\ budget'.edits = budget.edits
  <2>1. d \in 0..MaxLoads
    BY <1>3 DEF Docs
  <2>2. budget \in [loads : 0..MaxLoads, edits : 0..MaxEdits, external : 0..MaxExternal, faults : Nat]
    BY <1>1 DEF Shapes
  <2> HIDE DEF d
  <2> QED BY <1>2, <2>1, <2>2
<1>5. /\ l \in LiveRow /\ l.mem = Durable /\ l.dirty = db.pending /\ l.last = db.next - 1
      /\ l.conns = (IF stale THEN 0 ELSE 1) /\ db.next - 1 < db.next /\ db.next - 1 \in Nat
  BY <1>1, RestoredRow
<1>6. /\ r \in ConnRow /\ r.doc = d /\ r.pc = (IF stale THEN "import" ELSE "in")
      /\ r.seq = (IF stale THEN db.next - 1 ELSE 0)
      /\ r.ver = conn[c].ver \/ r.ver = 0
      /\ r.n = conn[c].n \/ r.n = 0
  <2>1. conn[c] \in ConnRow /\ Out \in ConnRow /\ "import" \in Pcs /\ "in" \in Pcs /\ d \in Docs \cup {NoDoc}
    BY <1>1, <1>3, OutRow DEF Shapes, Pcs, Loading, Editing
  <2> HIDE DEF d, stale
  <2>2. CASE stale
    BY <1>5, <2>1, <2>2 DEF ConnRow
  <2>3. CASE ~stale
    BY <2>1, <2>3, OutRow DEF ConnRow
  <2> QED BY <2>2, <2>3
<1>7. stale => ~db.pending
  BY DEF Stale
<1>8. stale \in BOOLEAN
  BY DEF Stale
<1> HIDE DEF l, r, stale, d
<1>9. /\ conn' \in [Conns -> ConnRow] /\ conn'[c] = r /\ \A b \in Conns : b # c => conn'[b] = conn[b]
      /\ live' \in [Docs -> LiveRow] /\ live'[d] = l /\ \A x \in Docs : x # d => live'[x] = live[x]
  BY <1>1, <1>2, <1>3, <1>5, <1>6 DEF Shapes
<1>10. Shapes'
  <2>1. hub' \in Docs \cup {NoDoc} /\ lock' \in BOOLEAN /\ cut' \in BOOLEAN
    <3>1. hub' \in Docs \cup {NoDoc}
      BY <1>1, <1>2, <1>3
    <3>2. cut' \in BOOLEAN
      BY <1>1, <1>2 DEF Shapes, Unloading
    <3> QED BY <1>2, <1>8, <3>1, <3>2
  <2> QED BY <1>1, <1>2, <1>4, <1>9, <2>1 DEF Shapes, DbShape
<1>11. /\ \A b \in Conns : conn[b].doc # NoDoc => conn[b].doc \in Docs /\ conn[b].doc <= budget.loads /\ conn[b].doc # d
       /\ \A b \in Conns : conn[b].pc \notin Loading
  <2>1. \A b \in Conns : conn[b].doc # NoDoc => conn[b].doc \in Docs /\ conn[b].doc <= budget.loads /\ conn[b].doc \in Nat
    BY <1>1, Fields DEF Counted
  <2>2. \A b \in Conns : conn[b].pc \notin Loading
    BY <1>1, <1>2 DEF Loads
  <2> QED BY <1>3, <2>1, <2>2
<1>12. Numbers' /\ Acks'
  <2>1. 0 < db.next
    BY <1>1 DEF Shapes, DbShape
  <2>2. conn'[c].pc # "append" /\ conn'[c].seq < db.next
    BY <1>5, <1>6, <1>9, <2>1
  <2>3. \A x \in Docs : live'[x].last = live[x].last \/ live'[x].last < db.next
    BY <1>5, <1>9
  <2>4. MoveStep(c)
    BY <1>2, <1>4, <1>6, <1>9, <2>2, <2>3 DEF MoveStep, SameHistory
  <2> QED BY <1>1, <2>4, MoveKeeps
<1>13. Counted'
  <2>1. \A x \in Docs : x # d => Editors(x)' = Editors(x)
    BY <1>2, <1>6, <1>9 DEF Editors, Editing
  <2>2. ASSUME NEW x \in Docs, x = d
        PROVE  IsFiniteSet(Editors(x)') /\ live'[x].conns = Cardinality(Editors(x)')
    <3>1. \A b \in Conns : conn'[b].doc = x => b = c
      BY <1>3, <1>9, <1>11, <2>2
    <3>2. CASE stale
      <4>1. conn'[c].pc \notin Editing
        BY <1>6, <1>9, <3>2 DEF Editing
      <4>2. Editors(x)' = {}
        BY <3>1, <4>1 DEF Editors
      <4> QED BY <1>5, <1>9, <2>2, <3>2, <4>2, FS_EmptySet
    <3>3. CASE ~stale
      <4>1. conn'[c].pc \in Editing /\ conn'[c].doc = x
        BY <1>6, <1>9, <2>2, <3>3 DEF Editing
      <4>2. Editors(x)' = {c}
        BY <3>1, <4>1 DEF Editors
      <4> QED BY <1>5, <1>9, <2>2, <3>3, <4>2, FS_Singleton
    <3> QED BY <3>2, <3>3
  <2>3. \A x \in Docs : live'[x].conns # -1 => IsFiniteSet(Editors(x)') /\ live'[x].conns = Cardinality(Editors(x)')
    BY <1>1, <1>9, <2>1, <2>2 DEF Counted
  <2>4. \A b \in Conns : conn'[b].doc = NoDoc <=> conn'[b].pc \in Apart
    BY <1>1, <1>3, <1>6, <1>9 DEF Counted, Apart
  <2>5. l.conns # -1 /\ d <= d
    BY <1>3, <1>5
  <2>6. ASSUME NEW b \in Conns, conn'[b].doc # NoDoc PROVE conn'[b].doc <= d /\ live'[conn'[b].doc].conns # -1
    <3>1. CASE b = c
      BY <1>6, <1>9, <2>5, <3>1
    <3>2. CASE b # c
      <4>1. conn'[b] = conn[b] /\ conn[b].doc \in Docs /\ conn[b].doc <= budget.loads /\ conn[b].doc # d /\ conn[b].doc \in Nat
        BY <1>1, <1>9, <1>11, <2>6, <3>2, Fields
      <4>2. live[conn[b].doc].conns # -1
        BY <1>1, <2>6, <4>1 DEF Counted, Doc
      <4> QED BY <1>3, <1>9, <4>1, <4>2
    <3> QED BY <3>1, <3>2
  <2> QED BY <1>4, <2>3, <2>4, <2>6 DEF Counted, Doc
<1>14. Loads'
  <2>1. \A b \in Conns : conn'[b].pc \in Loading <=> b = c /\ stale
    BY <1>6, <1>9, <1>11 DEF Loading
  <2>2. \A b \in Conns : conn'[b].doc = d => b = c
    BY <1>3, <1>9, <1>11
  <2>3. \A b \in Conns : conn'[b].pc \in {"save", "final"} => b # c /\ conn'[b].doc # NoDoc
    BY <1>1, <1>6, <1>9 DEF Counted, Apart
  <2>4. d <= d /\ l.conns # -1
    BY <1>3, <1>5
  <2> QED BY <1>2, <1>3, <1>4, <1>6, <1>8, <1>9, <2>1, <2>2, <2>3, <2>4 DEF Loads
<1>15. Savers'
  <2>1. \A x \in Docs : save[x] = Rest
    BY <1>1, <1>2, Fields DEF Savers
  <2> QED BY <1>1, <1>2, <1>9, <2>1 DEF Savers
<1>16. Kept /\ Stored' = Stored /\ Durable' = Durable
  BY <1>2, SameKept, SameData DEF DataSame
<1>17. LogInv'
  <2> SUFFICES ASSUME ~stray PROVE (EditsInHub /\ Snapshots /\ Complete)'
    BY <1>2 DEF LogInv
  <2>1. EditsInHub /\ Snapshots /\ Complete /\ Stored \subseteq Durable
    BY <1>1 DEF LogInv, Snapshots
  <2>2. \A b \in Conns : conn[b].pc \notin Editing
    BY <1>1, <1>2, EditorInHub
  <2>3. EditsInHub'
    <3>1. \A b \in Conns : conn'[b].pc \in Editing => b = c /\ ~stale
      BY <1>6, <1>9, <2>2 DEF Editing
    <3>2. \A b \in Conns : conn'[b].pc \in Editing => conn'[b].doc = hub' /\ conn'[b].pc # "append"
      BY <1>2, <1>6, <1>9, <3>1
    <3>3. \A b \in Conns : conn'[b].pc # "append"
      BY <3>2 DEF Editing
    <3> QED BY <3>2, <3>3 DEF EditsInHub, IsAt
  <2>4. Snapshots'
    <3>1. \A b \in Conns : conn'[b].pc \in Snapping => conn'[b] = conn[b]
      BY <1>6, <1>9 DEF Snapping
    <3>2. \A x \in Docs : \/ live[x].mem \subseteq live'[x].mem /\ live'[x].last = live[x].last
                          \/ Stored' \subseteq live'[x].mem
      BY <1>5, <1>9, <1>16, <2>1
    <3> QED BY <1>1, <1>10, <1>16, <2>1, <3>1, <3>2, MoreSnapshots
  <2>5. Complete'
    <3>1. hub' # NoDoc => Stored \subseteq live'[hub'].mem
      BY <1>2, <1>5, <1>9, <2>1
    <3>2. \A b \in Conns : conn'[b].pc = "import" => conn'[b].seq = db.next - 1
      BY <1>6, <1>9, <1>11 DEF Loading
    <3>3. \A b \in Conns : conn'[b].pc # "insert"
      BY <1>6, <1>9, <1>11 DEF Loading
    <3> QED BY <1>2, <1>16, <3>1, <3>2, <3>3 DEF Complete, IsAt
  <2> QED BY <2>3, <2>4, <2>5
<1>18. FileInv'
  <2>0. stray' => cut'
    BY <1>1, <1>2 DEF FileInv
  <2> SUFFICES ASSUME ~cut, ~Unloading
               PROVE  /\ Leavers'
                      /\ \A e \in Stored : Reached(e)' \/ Cover(e)'
                      /\ \A e \in replaced : acked[e] < Len(file)
                      /\ late = {}
    BY <1>2, <1>16, <2>0 DEF FileInv
  <2>1. \A b \in Conns : Leaving(b) => ~Unwritten(b)
    BY DEF Unloading, Leaving, Unwritten
  <2>2. \A e \in Stored : Reached(e) \/ db.pending
    <3>1. \A e \in Stored : Cover(e) => db.pending
      BY <1>2, <2>1 DEF Cover, IsAt, Leaving, Unwritten
    <3> QED BY <1>1, <3>1 DEF FileInv
  <2>3. \A e \in Stored : Reached(e) => Reached(e)'
    BY <1>2 DEF Reached, Written
  <2>4. db.pending => hub' = d /\ live'[hub'].dirty
    BY <1>2, <1>5, <1>7, <1>9
  <2>5. \A e \in Stored : Reached(e)' \/ Cover(e)'
    BY <1>3, <2>2, <2>3, <2>4 DEF Cover
  <2>6. \A b \in Conns : Leaving(b)' => ~Unwritten(b)'
    <3> SUFFICES ASSUME NEW b \in Conns, Leaving(b)' PROVE ~Unwritten(b)'
      OBVIOUS
    <3>1. b # c /\ conn'[b] = conn[b] /\ Leaving(b)
      BY <1>6, <1>9 DEF Leaving
    <3>2. conn[b].doc # NoDoc
      BY <1>1, <3>1 DEF Counted, Apart, Leaving
    <3>3. live'[conn[b].doc] = live[conn[b].doc]
      BY <1>9, <1>11, <3>2
    <3> QED BY <1>2, <2>1, <3>1, <3>3 DEF Unwritten, Doc
  <2>7. ~Alone'
    BY <1>2, <1>3 DEF Alone
  <2> QED BY <1>1, <2>5, <2>6, <2>7 DEF FileInv, Leavers
<1> QED BY <1>10, <1>12, <1>13, <1>14, <1>15, <1>17, <1>18 DEF CollabInv, HeldInv

LEMMA JoinImportInv ==
    ASSUME CollabInv, NEW c \in Conns, JoinImport(c)
    PROVE  CollabInv'
<1> DEFINE d == conn[c].doc
           text == file[Len(file)]
           gone == (DOMAIN acked \cap Durable) \ text
<1>1. Shapes /\ HeldInv /\ Numbers /\ Savers /\ Loads /\ Counted /\ Acks /\ LogInv /\ FileInv
  BY DEF CollabInv, HeldInv
<1>2. /\ conn[c].pc = "import" /\ conn[c].pc \in Loading
      /\ live' = [live EXCEPT ![d].mem = text]
      /\ db' = [db EXCEPT !.snap = text, !.snapSeq = conn[c].seq, !.log = KeepAfter(@, conn[c].seq)]
      /\ conn' = [conn EXCEPT ![c].pc = "insert"]
      /\ replaced' = replaced \cup gone
      /\ late' = late \cup {e \in gone : acked[e] >= Len(file)}
      /\ file' = file /\ hub' = hub /\ lock' = lock /\ save' = save /\ budget' = budget
      /\ acked' = acked /\ stray' = stray /\ cut' = cut
  BY DEF JoinImport, IsAt, Loading
<1>3. text \in SUBSET Text /\ d \in Docs /\ hub = NoDoc /\ conn[c].seq \in Nat /\ conn[c].seq < db.next
  <2>1. text \in SUBSET Text
    BY <1>1 DEF Shapes
  <2>2. d # NoDoc
    BY <1>1, <1>2 DEF Counted, Apart
  <2> QED BY <1>1, <1>2, <2>1, <2>2, Fields DEF Loads, Numbers
<1> HIDE DEF text
<1>4. /\ conn' \in [Conns -> ConnRow] /\ \A b \in Conns : b # c => conn'[b] = conn[b]
      /\ conn'[c].pc = "insert" /\ conn'[c].doc = d /\ conn'[c].n = conn[c].n /\ conn'[c].ver = conn[c].ver
      /\ conn'[c].seq = conn[c].seq
  <2>1. "insert" \in Pcs /\ conn \in [Conns -> ConnRow]
    BY <1>1 DEF Pcs, Loading, Shapes
  <2> QED BY <1>2, <2>1 DEF ConnRow
<1>5. /\ live' \in [Docs -> LiveRow] /\ live'[d].mem = text
      /\ \A x \in Docs : /\ x # d => live'[x] = live[x]
                         /\ live'[x].last = live[x].last /\ live'[x].dirty = live[x].dirty /\ live'[x].conns = live[x].conns
  <2>1. live \in [Docs -> LiveRow]
    BY <1>1 DEF Shapes
  <2> QED BY <1>2, <1>3, <2>1 DEF LiveRow
<1>6. /\ DOMAIN db = {"snap", "snapSeq", "next", "log", "saved", "pending"}
      /\ db.next \in Nat /\ DOMAIN db.log \subseteq 1..(db.next - 1) /\ \A q \in DOMAIN db.log : db.log[q] \in Text
  BY <1>1 DEF Shapes, DbShape
<1>7. /\ db'.snap = text /\ db'.snapSeq = conn[c].seq /\ db'.next = db.next /\ db'.saved = db.saved
      /\ db'.pending = db.pending /\ db'.log = KeepAfter(db.log, conn[c].seq) /\ DOMAIN db' = DOMAIN db
  BY <1>2, <1>6
<1>8. DbShape'
  <2>1. DOMAIN db'.log \subseteq 1..(db.next - 1) /\ \A q \in DOMAIN db'.log : db'.log[q] \in Text
    BY <1>6, <1>7 DEF KeepAfter
  <2> QED BY <1>1, <1>2, <1>3, <1>6, <1>7, <2>1 DEF Shapes, DbShape
<1>9. Shapes'
  BY <1>1, <1>2, <1>4, <1>5, <1>8 DEF Shapes
<1>10. Counted' /\ Loads'
  <2>1. Places
    BY <1>2, <1>4, <1>5 DEF Places, Editing, Loading, Apart
  <2> QED BY <1>1, <2>1, SamePlaces
<1>11. Numbers'
  <2>1. Growing
    BY <1>1, <1>2, <1>6, <1>7, Fields DEF Growing
  <2>2. \A b \in Conns : conn'[b].seq = conn[b].seq /\ conn'[b].ver = conn[b].ver /\ conn'[b].n = conn[b].n
    BY <1>4
  <2> QED BY <1>1, <1>2, <1>5, <2>1, <2>2, MoreNumbers
<1>12. gone \subseteq DOMAIN acked /\ replaced \subseteq DOMAIN acked
  BY <1>1 DEF Acks
<1>13. Acks'
  <2>1. replaced' \subseteq DOMAIN acked /\ late' \subseteq replaced'
    BY <1>1, <1>2, <1>12 DEF Acks
  <2>2. \A b \in Conns : conn'[b].pc = "append" => conn'[b] = conn[b]
    BY <1>4
  <2>3. \A b \in Conns : conn'[b].pc = "append" => conn'[b].n \in (1..budget.edits) \ DOMAIN acked
    BY <1>1, <2>2 DEF Acks, IsAt
  <2>4. \A a, b \in Conns : conn'[a].pc = "append" /\ conn'[b].pc = "append" /\ conn'[a].n = conn'[b].n => a = b
    BY <1>1, <2>2 DEF Acks, IsAt
  <2>5. DOMAIN acked \subseteq 1..budget.edits /\ \A e \in DOMAIN acked : acked[e] \in Nat /\ acked[e] <= Len(file)
    BY <1>1 DEF Acks
  <2> HIDE DEF gone
  <2> QED BY <1>2, <2>1, <2>3, <2>4, <2>5 DEF Acks, IsAt
<1>14. Savers'
  BY <1>1, <1>2, <1>4 DEF Savers
<1>15. Stored' = Stored \ gone
  BY <1>2 DEF Stored
<1>16. LogInv'
  <2> SUFFICES ASSUME ~stray PROVE (EditsInHub /\ Snapshots /\ Complete)'
    BY <1>2 DEF LogInv
  <2>1. Snapshots /\ Complete /\ Stored \subseteq Durable
    BY <1>1 DEF LogInv, Snapshots
  <2>2. conn[c].seq = db.next - 1
    BY <1>2, <2>1 DEF Complete, IsAt
  <2>3. Stored' \subseteq text
    BY <1>15, <2>1 DEF Stored
  <2>4. Kept
    <3>1. (Stored \subseteq Durable)'
      BY <1>7, <2>3 DEF Durable
    <3>2. \A s \in Nat : s < db.next => s <= db'.snapSeq
      BY <1>6, <1>7, <2>2
    <3> QED BY <3>1, <3>2 DEF Kept, CoversNext
  <2>5. EditsInHub'
    <3>1. \A b \in Conns : conn[b].pc \notin Editing
      BY <1>1, <1>3, EditorInHub
    <3>2. \A b \in Conns : conn'[b].pc \notin Editing
      BY <1>4, <3>1 DEF Editing
    <3> QED BY <3>2 DEF EditsInHub, IsAt, Editing
  <2>6. Snapshots'
    <3>1. \A b \in Conns : conn'[b].pc \in Snapping => conn'[b] = conn[b]
      BY <1>4 DEF Snapping
    <3>2. \A x \in Docs : \/ live[x].mem \subseteq live'[x].mem /\ live'[x].last = live[x].last
                          \/ Stored' \subseteq live'[x].mem
      BY <1>5, <2>3
    <3> QED BY <1>1, <1>9, <2>1, <2>4, <3>1, <3>2, MoreSnapshots
  <2>7. Complete'
    <3>1. \A b \in Conns : b # c => conn[b].pc \notin Loading
      BY <1>1, <1>2 DEF Loads
    <3>2. \A b \in Conns : conn'[b].pc # "import" /\ (conn'[b].pc = "insert" => b = c)
      BY <1>4, <3>1 DEF Loading
    <3>3. Stored' \subseteq live'[conn'[c].doc].mem
      BY <1>4, <1>5, <2>3
    <3> QED BY <1>2, <1>3, <3>2, <3>3 DEF Complete, IsAt, Doc
  <2> QED BY <2>5, <2>6, <2>7
<1>17. FileInv'
  <2>0. stray' => cut'
    BY <1>1, <1>2 DEF FileInv
  <2> SUFFICES ASSUME ~cut
               PROVE  /\ Leavers'
                      /\ \A e \in Stored' : Reached(e)'
                      /\ \A e \in replaced' : acked[e] < Len(file)
                      /\ late' = {}
    BY <1>2, <2>0 DEF FileInv
  <2>1. /\ lock /\ \A e \in Stored : Reached(e)
        /\ \A b \in Conns : Leaving(b) => ~Unwritten(b)
    BY <1>2, LoadQuiet
  <2>2. \A e \in Stored' : Reached(e)'
    BY <1>2, <1>15, <2>1 DEF Reached, Written
  <2>3. \A e \in DOMAIN acked : acked[e] < Len(file)
    <3>1. \A e \in replaced : acked[e] < Len(file)
      BY <1>1 DEF FileInv
    <3> QED BY <2>1, <3>1 DEF Stored, Reached
  <2>4. \A e \in replaced' : acked[e] < Len(file)
    BY <1>2, <1>12, <2>3
  <2>5. late' = {}
    <3>1. late = {}
      BY <1>1 DEF FileInv
    <3>2. \A e \in gone : ~(acked[e] >= Len(file))
      <4>1. \A e \in DOMAIN acked : acked[e] \in Nat /\ Len(file) \in Nat
        BY <1>1, Fields DEF Acks
      <4> QED BY <1>12, <2>3, <4>1
    <3> QED BY <1>2, <3>1, <3>2
  <2>6. \A b \in Conns : Leaving(b)' => ~Unwritten(b)'
    <3> SUFFICES ASSUME NEW b \in Conns, Leaving(b)' PROVE ~Unwritten(b)'
      OBVIOUS
    <3>1. b # c /\ conn'[b] = conn[b] /\ Leaving(b)
      BY <1>4 DEF Leaving
    <3>2. conn[b].doc \in Docs
      <4>1. conn[b].doc # NoDoc
        BY <1>1, <3>1 DEF Counted, Apart, Leaving
      <4> QED BY <1>1, <4>1, Fields
    <3> QED BY <1>2, <1>5, <2>1, <3>1, <3>2 DEF Unwritten, Doc
  <2>7. ~Alone'
    BY <1>2, <2>1 DEF Alone
  <2> QED BY <2>2, <2>4, <2>5, <2>6, <2>7 DEF Leavers
<1> QED BY <1>9, <1>10, <1>11, <1>13, <1>14, <1>16, <1>17 DEF CollabInv, HeldInv

LEMMA LeaveInv ==
    ASSUME CollabInv, NEW c \in Conns, Leave(c)
    PROVE  CollabInv'
<1> DEFINE d == conn[c].doc
           k == live[d].conns
           l == [live[d] EXCEPT !.conns = IF k > 1 THEN k - 1 ELSE 0]
           r == IF k > 1 THEN Out ELSE [conn[c] EXCEPT !.pc = "unload"]
<1>1. Shapes /\ HeldInv /\ Numbers /\ Savers /\ Loads /\ Counted /\ Acks /\ LogInv /\ FileInv
  BY DEF CollabInv, HeldInv
<1>2. conn[c].pc \in {"in", "leave"} /\ conn[c].pc \in Editing
  BY DEF Leave, Editing
<1>3. d \in Docs /\ live[d] \in LiveRow /\ k # -1
  <2>1. d # NoDoc
    BY <1>1, <1>2 DEF Counted, Apart
  <2> QED BY <1>1, <2>1, Fields DEF Counted, Doc, Shapes
<1>4. /\ live' = [live EXCEPT ![d] = l] /\ conn' = [conn EXCEPT ![c] = r]
      /\ db' = db /\ file' = file /\ hub' = hub /\ lock' = lock /\ save' = save /\ budget' = budget
      /\ acked' = acked /\ replaced' = replaced /\ late' = late /\ stray' = stray /\ cut' = cut
  <2>1. live \in [Docs -> LiveRow] /\ conn \in [Conns -> ConnRow]
    BY <1>1 DEF Shapes
  <2>2. conn' = [conn EXCEPT ![c] = r]
    BY <2>1 DEF Leave, Doc
  <2>3. live' = [live EXCEPT ![d] = l]
    BY <1>3, <2>1 DEF Leave, Doc
  <2> QED BY <2>2, <2>3 DEF Leave
<1>5. IsFiniteSet(Editors(d)) /\ k = Cardinality(Editors(d)) /\ c \in Editors(d) /\ k \in Nat /\ k >= 1
  <2>1. IsFiniteSet(Editors(d)) /\ k = Cardinality(Editors(d)) /\ c \in Editors(d)
    BY <1>1, <1>2, <1>3 DEF Counted, Editors
  <2>2. k \in Nat /\ k # 0
    BY <2>1, FS_CardinalityType, FS_EmptySet
  <2> HIDE DEF k
  <2> QED BY <2>1, <2>2
<1>6. /\ l \in LiveRow /\ l.conns = k - 1 /\ l.conns # -1
      /\ l.mem = live[d].mem /\ l.last = live[d].last /\ l.dirty = live[d].dirty
  <2>1. (IF k > 1 THEN k - 1 ELSE 0) = k - 1 /\ k - 1 \in Nat
    BY <1>5
  <2>2. l = [live[d] EXCEPT !.conns = k - 1]
    BY <2>1
  <2> HIDE DEF k, l
  <2>3. l \in LiveRow /\ l.conns = k - 1 /\ l.mem = live[d].mem /\ l.last = live[d].last /\ l.dirty = live[d].dirty
    BY <1>3, <2>1, <2>2 DEF LiveRow
  <2> QED BY <2>1, <2>3
<1>7. /\ r \in ConnRow /\ r.pc \in {"out", "unload"} /\ (r.pc = "out" => r.doc = NoDoc) /\ (r.pc = "unload" => r.doc = d)
      /\ r.seq = conn[c].seq \/ r.seq = 0
      /\ r.ver = conn[c].ver \/ r.ver = 0
      /\ r.n = conn[c].n \/ r.n = 0
  <2>1. conn[c] \in ConnRow /\ "unload" \in Pcs
    BY <1>1 DEF Shapes, Pcs
  <2> HIDE DEF k
  <2>2. CASE k > 1
    BY <2>2, OutRow
  <2>3. CASE ~(k > 1)
    BY <2>1, <2>3 DEF ConnRow
  <2> QED BY <2>2, <2>3
<1> HIDE DEF l, r
<1>8. /\ conn' \in [Conns -> ConnRow] /\ conn'[c] = r /\ \A b \in Conns : b # c => conn'[b] = conn[b]
      /\ live' \in [Docs -> LiveRow] /\ live'[d] = l /\ \A x \in Docs : x # d => live'[x] = live[x]
  BY <1>1, <1>3, <1>4, <1>6, <1>7 DEF Shapes
<1>9. Shapes'
  BY <1>1, <1>4, <1>8 DEF Shapes, DbShape
<1>10. \A x \in Docs : /\ live'[x].mem = live[x].mem /\ live'[x].last = live[x].last /\ live'[x].dirty = live[x].dirty
  BY <1>6, <1>8
<1>11. Numbers' /\ Acks'
  <2>1. 0 < db.next
    BY <1>1 DEF Shapes, DbShape
  <2>2. MoveStep(c)
    BY <1>4, <1>7, <1>8, <1>10, <2>1 DEF MoveStep, SameHistory
  <2> QED BY <1>1, <2>2, MoveKeeps
<1>12. Counted'
  <2>1. \A x \in Docs : x # d => Editors(x)' = Editors(x)
    BY <1>2, <1>7, <1>8 DEF Editors, Editing
  <2>2. ASSUME NEW x \in Docs, x = d
        PROVE  IsFiniteSet(Editors(x)') /\ live'[x].conns = Cardinality(Editors(x)')
    <3>1. Editors(x)' = Editors(x) \ {c}
      BY <1>7, <1>8 DEF Editors, Editing
    <3>2. IsFiniteSet(Editors(x) \ {c}) /\ Cardinality(Editors(x) \ {c}) = Cardinality(Editors(x)) - 1
      BY <1>5, <2>2, FS_RemoveElement
    <3> QED BY <1>5, <1>6, <1>8, <2>2, <3>1, <3>2
  <2>3. \A x \in Docs : live'[x].conns # -1 => IsFiniteSet(Editors(x)') /\ live'[x].conns = Cardinality(Editors(x)')
    BY <1>1, <1>8, <2>1, <2>2 DEF Counted
  <2>4. \A b \in Conns : conn'[b].doc = NoDoc <=> conn'[b].pc \in Apart
    <3>1. d # NoDoc
      BY <1>1, <1>3, Fields
    <3> QED BY <1>1, <1>7, <1>8, <3>1 DEF Counted, Apart
  <2>5. \A b \in Conns : conn'[b].doc # NoDoc => conn'[b].doc = conn[b].doc /\ conn[b].doc \in Docs
    BY <1>1, <1>7, <1>8, Fields
  <2>6. \A b \in Conns : conn'[b].doc # NoDoc => conn'[b].doc <= budget.loads /\ live'[conn'[b].doc].conns # -1
    <3>1. \A b \in Conns : conn'[b].doc # NoDoc => conn[b].doc <= budget.loads /\ live[conn[b].doc].conns # -1
      BY <1>1, <2>5 DEF Counted, Doc
    <3>2. \A x \in Docs : live[x].conns # -1 => live'[x].conns # -1
      BY <1>6, <1>8
    <3> QED BY <2>5, <3>1, <3>2
  <2> QED BY <1>4, <2>3, <2>4, <2>6 DEF Counted, Doc
<1>13. Loads'
  <2>1. \A b \in Conns : conn'[b].pc \in Loading <=> conn[b].pc \in Loading
    BY <1>2, <1>7, <1>8 DEF Loading
  <2>2. \A b \in Conns : conn'[b].pc \in Loading => b # c
    BY <1>7, <1>8 DEF Loading
  <2>3. \A a, b \in Conns : conn'[a].pc \in Loading /\ conn'[b].doc = conn'[a].doc => b = a
    <3>1. \A a \in Conns : conn[a].pc \in Loading => conn[a].doc # NoDoc
      BY <1>1 DEF Counted, Loading, Apart
    <3>2. \A b \in Conns : conn'[b].doc = conn[b].doc \/ conn'[b].doc = NoDoc
      BY <1>7, <1>8
    <3> QED BY <1>1, <1>8, <2>1, <2>2, <3>1, <3>2 DEF Loads
  <2>4. \A b \in Conns : conn'[b].pc \in {"save", "final"} => conn'[b].doc # hub
    BY <1>1, <1>7, <1>8 DEF Loads
  <2>5. hub # NoDoc => live'[hub].conns # -1
    <3>1. hub # NoDoc => hub \in Docs
      BY <1>1 DEF Shapes
    <3> QED BY <1>1, <1>6, <1>8, <3>1 DEF Loads
  <2> QED BY <1>1, <1>4, <2>1, <2>3, <2>4, <2>5 DEF Loads
<1>14. Savers'
  BY <1>1, <1>2, <1>4, <1>8 DEF Savers
<1>15. Kept /\ Stored' = Stored
  BY <1>4, SameKept DEF DataSame, Stored
<1>16. LogInv'
  <2>1. \A b \in Conns :
               /\ conn'[b].pc \in Editing => conn'[b] = conn[b]
               /\ conn'[b].pc = "append" => conn'[b] = conn[b]
               /\ conn'[b].pc \in Snapping => conn'[b] = conn[b]
               /\ conn'[b].pc \in Loading => conn'[b] = conn[b]
    BY <1>7, <1>8 DEF Editing, Snapping, Loading
  <2>2. \A x \in Docs : live[x].mem \subseteq live'[x].mem /\ live'[x].last = live[x].last
    BY <1>10
  <2> QED BY <1>1, <1>4, <1>9, <1>12, <1>15, <2>1, <2>2, SameLog
<1>17. FileInv'
  <2>1. ~cut => hub # NoDoc /\ d = hub /\ hub \in Docs
    BY <1>1, <1>2, EditorInHub DEF FileInv
  <2>2. \A b \in Conns : conn[b].pc \in {"unload", "save"} => b # c /\ conn'[b] = conn[b] /\ conn[b].doc \in Docs
    <3>1. \A b \in Conns : conn[b].pc \in {"unload", "save"} => b # c /\ conn'[b] = conn[b] /\ conn[b].doc # NoDoc
      BY <1>1, <1>2, <1>8 DEF Counted, Apart
    <3> QED BY <1>1, <3>1, Fields
  <2>3. ~cut => \A b \in Conns : conn'[b].pc \in {"unload", "save"} =>
                      \/ hub # NoDoc /\ conn'[b].doc = hub
                      \/ /\ conn'[b] = conn[b] /\ save'[b] = save[b]
                         /\ live'[conn[b].doc].dirty = live[conn[b].doc].dirty
                         /\ live[conn[b].doc].mem \subseteq live'[conn[b].doc].mem
    BY <1>4, <1>7, <1>8, <1>10, <2>1, <2>2
  <2>4. \A b \in Conns : conn[b].pc = "save" /\ save[b].pc # "end" =>
                      conn'[b] = conn[b] /\ save'[b] = save[b] /\ live'[conn[b].doc].dirty = live[conn[b].doc].dirty
    BY <1>4, <1>10, <2>2
  <2>5. ~cut => live'[hub].dirty = live[hub].dirty
    BY <1>10, <2>1
  <2>6. \A b \in Conns : conn[b].pc = "record" => conn'[b].pc = "record"
    BY <1>2, <1>8
  <2> QED BY <1>1, <1>4, <1>15, <2>3, <2>4, <2>5, <2>6, SameFile
<1> QED BY <1>9, <1>11, <1>12, <1>13, <1>14, <1>16, <1>17 DEF CollabInv, HeldInv

LEMMA UnloadInv ==
    ASSUME CollabInv, NEW c \in Conns, Unload(c)
    PROVE  CollabInv'
<1> DEFINE d == conn[c].doc
<1>1. Shapes /\ HeldInv /\ Numbers /\ Savers /\ Loads /\ Counted /\ Acks /\ LogInv /\ FileInv
  BY DEF CollabInv, HeldInv
<1>2. /\ conn[c].pc = "unload" /\ ~lock /\ live[d].conns = 0
      /\ hub' = NoDoc /\ conn' = [conn EXCEPT ![c].pc = "save"]
      /\ save' = [a \in DOMAIN save |-> IF a = hub THEN Rest ELSE save[a]]
      /\ stray' = (stray \/ hub \notin {NoDoc, d})
      /\ cut' = (cut \/ stray' \/ (hub # NoDoc /\ save[hub].pc # "start"))
      /\ db' = db /\ file' = file /\ lock' = lock /\ live' = live /\ budget' = budget
      /\ acked' = acked /\ replaced' = replaced /\ late' = late
  BY DEF Unload, IsAt, Doc
<1>3. d \in Docs /\ d # NoDoc /\ c \notin Docs
  <2>1. d # NoDoc
    BY <1>1, <1>2 DEF Counted, Apart
  <2> QED BY <1>1, <2>1, Fields, CollabAssumption
<1>4. /\ conn' \in [Conns -> ConnRow] /\ \A b \in Conns : b # c => conn'[b] = conn[b]
      /\ conn'[c].pc = "save" /\ conn'[c].doc = d /\ conn'[c].n = conn[c].n /\ conn'[c].ver = conn[c].ver
      /\ conn'[c].seq = conn[c].seq
  <2>1. "save" \in Pcs /\ conn \in [Conns -> ConnRow]
    BY <1>1 DEF Pcs, Shapes
  <2> QED BY <1>2, <2>1 DEF ConnRow
<1>5. /\ save' \in [Conns \cup Docs -> SaveRow]
      /\ \A a \in Conns \cup Docs : save'[a] = (IF a = hub THEN Rest ELSE save[a])
      /\ \A b \in Conns : save'[b] = save[b]
      /\ Rest.ver = 0
  <2>1. save \in [Conns \cup Docs -> SaveRow] /\ Rest \in SaveRow /\ Rest.ver = 0
    BY <1>1 DEF Shapes, Rest, SaveRow
  <2>2. hub \notin Conns
    BY <1>1, CollabAssumption DEF Shapes
  <2> QED BY <1>2, <2>1, <2>2
<1>6. Shapes'
  <2>1. stray' \in BOOLEAN /\ cut' \in BOOLEAN
    BY <1>1, <1>2 DEF Shapes
  <2> QED BY <1>1, <1>2, <1>4, <1>5, <2>1 DEF Shapes, DbShape
<1>7. Numbers' /\ Acks'
  <2>1. MoveStep(c)
    BY <1>2, <1>4, <1>5 DEF MoveStep, SameHistory
  <2> QED BY <1>1, <2>1, MoveKeeps
<1>8. \A b \in Conns : conn'[b].doc = conn[b].doc /\ (conn'[b].pc \in Editing <=> conn[b].pc \in Editing)
                       /\ (conn'[b].pc \in Apart <=> conn[b].pc \in Apart)
  BY <1>2, <1>4 DEF Editing, Apart
<1>9. Counted'
  <2>1. \A x : Editors(x)' = Editors(x)
    BY <1>8 DEF Editors
  <2>2. \A b \in Conns : conn'[b].doc # NoDoc => conn'[b].doc <= budget.loads /\ live[conn'[b].doc].conns # -1
    BY <1>1, <1>8 DEF Counted, Doc
  <2>3. \A b \in Conns : conn'[b].doc = NoDoc <=> conn'[b].pc \in Apart
    BY <1>1, <1>8 DEF Counted
  <2> QED BY <1>1, <1>2, <2>1, <2>2, <2>3 DEF Counted, Doc
<1>10. \A b \in Conns : conn[b].pc \notin Loading /\ conn'[b].pc \notin Loading
  <2>1. \A b \in Conns : conn[b].pc \notin Loading
    BY <1>1, <1>2 DEF Loads
  <2> QED BY <1>4, <2>1 DEF Loading
<1>11. Loads'
  <2>1. \A b \in Conns : conn'[b].pc \in {"save", "final"} => conn'[b].doc # NoDoc
    BY <1>1, <1>3, <1>4 DEF Counted, Apart
  <2> QED BY <1>2, <1>10, <2>1 DEF Loads
<1>12. Savers'
  BY <1>1, <1>2, <1>4, <1>5 DEF Savers
<1>13. Kept /\ Stored' = Stored
  BY <1>2, SameKept DEF DataSame, Stored
\* Nobody edits what is taken out, unless it is not its own.
<1>14. ASSUME ~stray' PROVE ~stray /\ hub \in {NoDoc, d} /\ \A b \in Conns : conn[b].pc \notin Editing
  <2>1. ~stray /\ hub \in {NoDoc, d}
    BY <1>2, <1>14
  <2>2. ASSUME NEW b \in Conns, conn[b].pc \in Editing PROVE FALSE
    <3>1. conn[b].doc = hub /\ hub # NoDoc
      BY <1>1, <2>1, <2>2, EditorInHub
    <3>2. b \in Editors(d)
      BY <2>1, <2>2, <3>1 DEF Editors
    <3>3. IsFiniteSet(Editors(d)) /\ Cardinality(Editors(d)) = 0
      BY <1>1, <1>2, <1>3 DEF Counted
    <3> QED BY <3>2, <3>3, FS_EmptySet
  <2> QED BY <2>1, <2>2
<1>15. LogInv'
  <2> SUFFICES ASSUME ~stray' PROVE (EditsInHub /\ Snapshots /\ Complete)'
    BY DEF LogInv
  <2>1. Snapshots /\ \A b \in Conns : conn'[b].pc \notin Editing
    BY <1>1, <1>8, <1>14 DEF LogInv
  <2>2. EditsInHub'
    BY <2>1 DEF EditsInHub, IsAt, Editing
  <2>3. Snapshots'
    <3>1. \A b \in Conns : conn'[b].pc \in Snapping => conn'[b] = conn[b]
      BY <1>4 DEF Snapping
    <3> QED BY <1>1, <1>2, <1>6, <1>13, <2>1, <3>1, MoreSnapshots
  <2>4. Complete'
    BY <1>2, <1>10 DEF Complete, IsAt, Loading
  <2> QED BY <2>2, <2>3, <2>4
<1>16. FileInv'
  <2>0. stray' => cut'
    BY <1>2
  <2> SUFFICES ASSUME ~cut'
               PROVE  /\ Leavers'
                      /\ \A e \in Stored : Reached(e)' \/ Cover(e)'
                      /\ \A e \in replaced : acked[e] < Len(file)
                      /\ late = {}
    BY <1>2, <1>13, <2>0 DEF FileInv
  <2>1. ~cut /\ ~stray' /\ (hub # NoDoc => save[hub].pc = "start")
    BY <1>2
  <2>2. ~stray /\ hub \in {NoDoc, d} /\ \A b \in Conns : conn[b].pc \notin Editing
    BY <1>14, <2>1
  <2>3. Alone' /\ Leavers /\ \A e \in Stored : Reached(e) \/ Cover(e)
    BY <1>1, <1>2, <2>1 DEF Alone, FileInv
  <2>4. \A e \in Stored : Reached(e) => Reached(e)'
    BY <1>2 DEF Reached, Written
  <2>5. \A b \in Conns : /\ Leaving(b)' <=> Leaving(b)
                         /\ Unwritten(b)' <=> Unwritten(b)
                         /\ Doc(b)' = Doc(b)
    BY <1>2, <1>4, <1>5, <1>8 DEF Leaving, Unwritten, Doc
  <2>6. save'[c] = Rest /\ Rest.pc = "start" /\ IsAt(c, "save")'
    BY <1>1, <1>2, <1>4, <1>5 DEF Savers, Rest, IsAt
  <2>7. CASE hub = NoDoc
    <3>1. Alone
      BY <1>2, <2>7 DEF Alone
    <3>2. Leavers'
      BY <1>5, <1>13, <2>3, <2>4, <2>5, <3>1 DEF Leavers
    <3>3. ASSUME NEW e \in Stored, Cover(e) PROVE Cover(e)'
      <4>1. CASE db.pending
        BY <1>2, <2>3, <4>1 DEF Cover
      <4>2. ASSUME NEW b \in Conns, IsAt(b, "save"),
                   save[b].pc \in {"write", "pend"} \/ (save[b].pc = "start" /\ Doc(b).dirty)
            PROVE  Cover(e)'
        <5>1. IsAt(b, "save")' /\ save'[b] = save[b]
          BY <1>2, <1>4, <1>5, <4>2 DEF IsAt
        <5> QED BY <2>3, <2>5, <4>2, <5>1 DEF Cover
      <4> QED BY <2>7, <3>3, <4>1, <4>2 DEF Cover
    <3> QED BY <1>1, <2>1, <2>3, <2>4, <3>2, <3>3 DEF FileInv
  <2>8. CASE hub = d
    <3>1. ~Alone /\ Stored \subseteq live[d].mem
      BY <1>1, <1>3, <2>2, <2>8 DEF Alone, LogInv, Complete
    <3>2. ASSUME NEW b \in Conns, Leaving(b) PROVE conn[b].doc = d \/ ~Unwritten(b)
      BY <2>3, <2>8, <3>1, <3>2 DEF Leavers
    <3>3. ASSUME NEW b \in Conns, Leaving(b) PROVE save[b].pc \notin {"write", "mark"}
      <4>1. CASE ~Unwritten(b)
        BY <4>1 DEF Unwritten
      <4>2. CASE conn[b].doc = d
        <5>1. conn[b].pc # "save"
          BY <1>1, <2>8, <4>2 DEF Loads
        <5> QED BY <1>1, <5>1 DEF Savers, Rest
      <4> QED BY <3>2, <3>3, <4>1, <4>2
    <3>4. \A b \in Conns : Leaving(b) /\ Unwritten(b) => Stored \subseteq Doc(b).mem
      BY <3>1, <3>2 DEF Doc
    <3>5. Leavers'
      BY <1>5, <1>13, <2>3, <2>5, <3>3, <3>4 DEF Leavers
    <3>6. ASSUME NEW e \in Stored, Cover(e) PROVE Cover(e)'
      <4>1. \A b \in Conns : conn[b].pc # "record"
        BY <2>2 DEF Editing
      <4>2. live[d].dirty
        BY <1>3, <2>1, <2>8, <3>1, <3>6, <4>1 DEF Cover, IsAt
      <4>3. save'[c].pc = "start" /\ Doc(c)'.dirty
        BY <2>5, <2>6, <4>2 DEF Doc
      <4> QED BY <2>3, <2>6, <4>3 DEF Cover
    <3> QED BY <1>1, <2>1, <2>3, <2>4, <3>5, <3>6 DEF FileInv
  <2> QED BY <2>2, <2>7, <2>8
<1> QED BY <1>6, <1>7, <1>9, <1>11, <1>12, <1>15, <1>16 DEF CollabInv, HeldInv

LEMMA ExternalInv == ASSUME CollabInv, External PROVE CollabInv'
<1> DEFINE t == {-(budget.external + 1)}
<1>1. Shapes /\ HeldInv /\ Numbers /\ Savers /\ Loads /\ Counted /\ Acks /\ LogInv /\ FileInv
  BY DEF CollabInv, HeldInv
<1>2. /\ budget.external < MaxExternal /\ budget' = [budget EXCEPT !.external = @ + 1]
      /\ file' = Append(file, t)
      /\ db' = db /\ hub' = hub /\ lock' = lock /\ live' = live /\ conn' = conn /\ save' = save
      /\ acked' = acked /\ replaced' = replaced /\ late' = late /\ stray' = stray /\ cut' = cut
  BY DEF External
<1>3. budget.external + 1 \in 1..MaxExternal
  BY <1>1, <1>2, Fields, CollabAssumption
<1>4. t \in SUBSET Text
  BY <1>3 DEF Text
<1> HIDE DEF t
<1>5. /\ file' \in Seq(SUBSET Text) /\ file' # <<>> /\ Len(file') = Len(file) + 1 /\ Written' = Written \cup t
      /\ Len(file) \in Nat /\ Len(file') \in Nat /\ Len(file) <= Len(file')
  BY <1>1, <1>2, <1>4, MoreVersions, Fields
<1>6. /\ budget' \in [loads : 0..MaxLoads, edits : 0..MaxEdits, external : 0..MaxExternal, faults : Nat]
      /\ budget'.loads = budget.loads /\ budget'.edits = budget.edits
  <2>1. budget \in [loads : 0..MaxLoads, edits : 0..MaxEdits, external : 0..MaxExternal, faults : Nat]
    BY <1>1 DEF Shapes
  <2>2. budget.external + 1 \in 0..MaxExternal
    BY <1>3, CollabAssumption
  <2> QED BY <1>2, <2>1, <2>2
<1>7. Shapes'
  <2>1. db.saved \in Nat /\ db.saved <= Len(file')
    BY <1>1, <1>5 DEF Shapes, DbShape
  <2>2. DbShape'
    BY <1>1, <1>2, <2>1 DEF Shapes, DbShape
  <2> QED BY <1>1, <1>2, <1>5, <1>6, <2>2 DEF Shapes
<1>8. Counted' /\ Loads'
  <2>1. Places
    BY <1>2, <1>6 DEF Places
  <2> QED BY <1>1, <2>1, SamePlaces
<1>9. Numbers'
  <2>1. Growing
    BY <1>1, <1>2, <1>5, <1>6, Fields DEF Growing, Shapes, DbShape
  <2> QED BY <1>1, <1>2, <2>1, MoreNumbers
<1>10. Acks'
  BY <1>1, <1>2, <1>5, <1>6, SameAcks DEF SameHistory
<1>11. Savers'
  BY <1>1, <1>2 DEF Savers
<1>12. Kept /\ Stored' = Stored
  BY <1>2, SameKept DEF DataSame, Stored
<1>13. LogInv'
  BY <1>1, <1>2, <1>7, <1>8, <1>12, SameLog
<1>14. FileInv'
  <2>1. \A e \in DOMAIN acked : acked[e] \in Nat
    BY <1>1 DEF Acks
  <2>2. Stored \subseteq DOMAIN acked /\ replaced \subseteq DOMAIN acked
    BY <1>1 DEF Acks, Stored
  <2>3. \A e \in Stored : Reached(e) => Reached(e)'
    BY <1>2, <1>5, <2>1, <2>2 DEF Reached
  <2>4. \A e \in Stored : Cover(e)' <=> Cover(e)
    BY <1>2 DEF Cover, Alone, IsAt, Doc
  <2>5. ~cut => \A e \in replaced : acked[e] < Len(file')
    <3>1. ~cut => \A e \in replaced : acked[e] < Len(file)
      BY <1>1 DEF FileInv
    <3> QED BY <1>5, <2>1, <2>2, <3>1
  <2>6. Leavers => Leavers'
    BY <1>2, <1>12, <2>3 DEF Leavers, Alone, Leaving, Unwritten, Doc
  <2> QED BY <1>1, <1>2, <1>12, <2>3, <2>4, <2>5, <2>6 DEF FileInv
<1> QED BY <1>7, <1>8, <1>9, <1>10, <1>11, <1>13, <1>14 DEF CollabInv, HeldInv

LEMMA CrashInv == ASSUME CollabInv, Crash PROVE CollabInv'
<1>1. Shapes /\ HeldInv /\ Numbers /\ Counted /\ Acks /\ LogInv
  BY DEF CollabInv, HeldInv
<1>2. /\ Fault /\ hub' = NoDoc /\ lock' = FALSE /\ live' = [d \in Docs |-> Dead]
      /\ conn' = [c \in Conns |-> IF conn[c].pc = "new" THEN conn[c] ELSE Out]
      /\ save' = [a \in DOMAIN save |-> Rest] /\ cut' = TRUE
      /\ db' = db /\ file' = file /\ acked' = acked /\ replaced' = replaced /\ late' = late /\ stray' = stray
  BY DEF Crash, IsAt
<1>3. /\ budget' \in [loads : 0..MaxLoads, edits : 0..MaxEdits, external : 0..MaxExternal, faults : Nat]
      /\ budget'.loads = budget.loads /\ budget'.edits = budget.edits
  BY <1>1, <1>2, Faults
<1>4. Dead \in LiveRow /\ Rest \in SaveRow /\ Dead.last = 0 /\ Dead.conns = -1 /\ Rest.ver = 0
  BY DEF Dead, LiveRow, Rest, SaveRow
<1>5. /\ \A c \in Conns : (conn'[c] = conn[c] /\ conn[c].pc = "new") \/ conn'[c] = Out
      /\ conn' \in [Conns -> ConnRow]
  BY <1>1, <1>2, OutRow DEF Shapes
<1>6. save' = [a \in Conns \cup Docs |-> Rest]
  BY <1>1, <1>2 DEF Shapes
<1>7. Shapes'
  BY <1>1, <1>2, <1>3, <1>4, <1>5, <1>6 DEF Shapes, DbShape
<1>8. \A c \in Conns : conn'[c].pc \in {"new", "out"} /\ conn'[c].doc = NoDoc
  BY <1>1, <1>5, OutRow DEF Counted, Apart
<1>9. Numbers'
  <2>1. Growing /\ 0 < db'.next
    BY <1>1, <1>2, <1>3, Fields DEF Growing, Shapes, DbShape
  <2>2. \A d \in Docs : live'[d].last = 0
    BY <1>2, <1>4
  <2>3. \A b \in Conns : /\ conn'[b].seq = conn[b].seq \/ conn'[b].seq < db'.next
                         /\ conn'[b].ver = conn[b].ver \/ conn'[b].ver <= Len(file')
                         /\ conn'[b].n = conn[b].n \/ conn'[b].n <= budget'.edits
    <3>1. 0 <= Len(file') /\ 0 <= budget'.edits
      BY <2>1 DEF Growing
    <3> QED BY <1>5, <2>1, <3>1, OutRow
  <2>4. \A a \in Conns \cup Docs : save'[a].ver <= Len(file')
    BY <1>4, <1>6, <2>1 DEF Growing
  <2> QED BY <1>1, <2>1, <2>2, <2>3, <2>4, MoreNumbers
<1>10. Acks'
  <2>1. Len(file) \in Nat /\ Len(file) <= Len(file')
    BY <1>1, <1>2, Fields
  <2> QED BY <1>1, <1>2, <1>3, <1>8, <2>1, SameAcks DEF SameHistory
<1>11. Counted' /\ Loads' /\ Savers'
  <2>1. \A d \in Docs : live'[d].conns = -1
    BY <1>2, <1>4
  <2>2. Counted'
    BY <1>8, <2>1 DEF Counted, Apart
  <2>3. Loads'
    BY <1>2, <1>8 DEF Loads, Loading
  <2>4. Savers'
    BY <1>6 DEF Savers
  <2> QED BY <2>2, <2>3, <2>4
<1>12. Kept /\ Stored' = Stored
  BY <1>2, SameKept DEF DataSame, Stored
<1>13. LogInv'
  <2> SUFFICES ASSUME ~stray PROVE (EditsInHub /\ Snapshots /\ Complete)'
    BY <1>2 DEF LogInv
  <2>1. Snapshots'
    <3>1. \A b \in Conns : conn'[b].pc \notin Snapping
      BY <1>8 DEF Snapping
    <3>2. \A d \in Docs : live'[d].last = 0
      BY <1>2, <1>4
    <3> QED BY <1>1, <1>7, <1>12, <3>1, <3>2, MoreSnapshots DEF LogInv
  <2>2. EditsInHub' /\ Complete'
    BY <1>2, <1>8 DEF EditsInHub, Complete, IsAt, Editing
  <2> QED BY <2>1, <2>2
<1>14. FileInv'
  BY <1>2 DEF FileInv
<1> QED BY <1>7, <1>9, <1>10, <1>11, <1>13, <1>14 DEF CollabInv, HeldInv

-----------------------------------------------------------------------------
(* The theorems *)

LEMMA NextInv == ASSUME CollabInv, [Next]_vars PROVE CollabInv'
<1>1. ASSUME NEW c \in Conns, Fetch(c) \/ Edit(c) \/ Leave(c) \/ Handler(c) PROVE CollabInv'
  BY <1>1, FetchInv, EditInv, LeaveInv, JoinSharedInv, JoinLoadInv, JoinImportInv, JoinInsertInv, JoinFailInv,
     AppendUpdateInv, AppendFailInv, RecordInv, CompactInv, UnloadNotInv, UnloadInv, SquashInv, FinalInv
     DEF Handler
<1>2. ASSUME NEW a \in Conns \cup Docs, NEW d \in Docs, Saver(a, d) PROVE CollabInv'
  BY <1>2, SaverInv
<1>3. CASE UNCHANGED vars
  <2>1. /\ db' = db /\ file' = file /\ hub' = hub /\ lock' = lock /\ live' = live /\ conn' = conn /\ save' = save
        /\ budget' = budget /\ acked' = acked /\ replaced' = replaced /\ late' = late /\ stray' = stray /\ cut' = cut
    BY <1>3 DEF vars
  <2>2. Shapes' /\ Numbers' /\ Acks'
    BY <2>1 DEF CollabInv, HeldInv, Shapes, DbShape, Numbers, Acks, IsAt
  <2>3. Counted' /\ Loads' /\ Savers'
    BY <2>1 DEF CollabInv, HeldInv, Counted, Loads, Savers, Editors, Doc
  <2>4. LogInv'
    BY <2>1, SameData DEF DataSame, CollabInv, LogInv, EditsInHub, Snapshots, Complete, IsAt, Doc
  <2>5. FileInv'
    BY <2>1 DEF CollabInv, FileInv, Leavers, Cover, Reached, Stored, Alone, Leaving, Unwritten, Written, IsAt, Doc
  <2> QED BY <2>2, <2>3, <2>4, <2>5 DEF CollabInv, HeldInv
<1> QED BY <1>1, <1>2, <1>3, ExternalInv, CrashInv DEF Next

\* The inductive invariant holds: connections, LiveDocs, savers, the log and the file are, in
\* every reachable state, as CollabInv says.
THEOREM CollabInvariant == Spec => []CollabInv
<1>1. Init => CollabInv
  BY InitInv
<1>2. CollabInv /\ [Next]_vars => CollabInv'
  BY NextInv
<1> QED BY <1>1, <1>2, PTL DEF Spec

LEMMA InvTypes == CollabInv => TypeOK
<1> SUFFICES ASSUME CollabInv PROVE TypeOK
  OBVIOUS
<1>1. Shapes /\ Numbers /\ Acks /\ Loads
  BY DEF CollabInv, HeldInv
<1>2. /\ db.snap \subseteq Text /\ db.snapSeq < db.next /\ DOMAIN db.log \subseteq 1..(db.next - 1)
      /\ db.pending \in BOOLEAN /\ db.saved \in 0..Len(file)
  BY <1>1, Fields DEF Shapes, DbShape
<1>3. \A v \in DOMAIN file : file[v] \subseteq Text
  BY <1>1 DEF Shapes
<1>4. hub # NoDoc => live[hub] # Dead
  BY <1>1 DEF Loads, Dead
<1> QED BY <1>1, <1>2, <1>3, <1>4, Fields DEF TypeOK, Shapes, Numbers, Acks

\* An update that append_update has stored (doc.rs, store.rs) is in what a load restores, in
\* spite of compactions by snapshots taken earlier, failed calls, restarts and unloading
\* documents, unless an import took it out or a leave took a LiveDoc that is not its own.
THEOREM AckedEditsDurable == Spec => []AckedDurable
<1>1. CollabInv => AckedDurable
  BY InvTypes DEF CollabInv, LogInv, Snapshots, Stored, AckedDurable
<1> QED BY <1>1, CollabInvariant, PTL

\* The LiveDoc that the hub shares shows every stored update, also when it was loaded while
\* its predecessor was still being unloaded.
THEOREM HubIsComplete == Spec => []HubComplete
<1>1. CollabInv => HubComplete
  BY DEF CollabInv, LogInv, Complete, Stored, HubComplete
<1> QED BY <1>1, CollabInvariant, PTL

\* import_if_stale takes out only edits older than the version it imports, unless something
\* went past the hub.
THEOREM ImportsAreSound == Spec => []ImportSound
<1>1. CollabInv => ImportSound
  BY DEF CollabInv, FileInv, ImportSound
<1> QED BY <1>1, CollabInvariant, PTL

\* When nobody has the document open, the file has every stored update or the failed save is
\* recorded, unless something went past the hub.
THEOREM FileCatchesUp == Spec => []CaughtUp
<1>1. CollabInv => CaughtUp
  <2> SUFFICES ASSUME CollabInv, Quiet, ~db.pending, ~cut, NEW e \in Stored PROVE e \in Written
    BY DEF CaughtUp, Stored
  <2>1. hub = NoDoc /\ \A c \in Conns : conn[c].pc \in {"new", "join", "out"}
    BY DEF Quiet
  <2>2. ~Cover(e)
    BY <2>1 DEF Cover, IsAt
  <2> QED BY <2>2 DEF CollabInv, FileInv, Reached
<1> QED BY <1>1, CollabInvariant, PTL
=============================================================================
