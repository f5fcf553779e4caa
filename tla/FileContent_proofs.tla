------------------------- MODULE FileContent_proofs -------------------------
(***************************************************************************)
(* Safety of FileContent for any uploads, contents, requests and edits:    *)
(* FileInv is inductive.                                                   *)
(***************************************************************************)
EXTENDS FileContent, FiniteSetTheorems, TLAPS

Pcs == {"idle", "copy", "hash", "probe", "promote", "tx", "tuples", "publish", "commit", "refused", "scrap", "unrow", "clean"}
Work == [pc : Pcs, kind : {"none", "upload", "save", "propose"}, u : Uploads \cup {Nothing}, new : BOOLEAN,
         n : Nat, sha : Contents \cup {Nothing}, seen : Nat]
Row == [st : {"none", "open", "locked", "gone"}, new : BOOLEAN, base : Nat]
VersionRow == [ver : Nat, sha : Contents, prop : BOOLEAN, by : Uploads \cup {Nothing}]

Shapes ==
    /\ row \in [Uploads -> Row]
    /\ staging \in [Uploads -> Contents \cup {Nothing}] /\ incoming \in [Uploads -> Contents \cup {Nothing}]
    /\ final \in [Contents -> Contents \cup {Nothing}] /\ blob \subseteq Contents
    /\ cur \in [ver : Nat, sha : Contents] /\ hist \subseteq VersionRow
    /\ files \subseteq Uploads \X Nat /\ owned \subseteq Uploads \X Nat /\ lost \subseteq files
    /\ wk \in [Handlers -> Work] /\ sw.keys \subseteq Uploads
    /\ reqs \in [Uploads -> Nat]

\* Requests that only an upload makes.
OfUpload == {"copy", "hash", "tuples", "publish", "scrap", "unrow", "clean"}
Request(w) ==
    /\ w.pc = "idle" => w.u = Nothing
    /\ w.pc # "idle" => w.sha \in Contents
    /\ w.kind # "upload" => w.u = Nothing /\ ~w.new
    /\ w.kind = "upload" => w.u \in Uploads /\ w.sha = Declared[w.u]
    /\ w.pc \in OfUpload => w.kind = "upload"
Requests == \A h \in Handlers : Request(wk[h])

\* node_version has a greatest number, each number once, and numbers above node.version only
\* for proposals.
Numbers ==
    /\ \E m \in hist : \A v \in hist : v.ver <= m.ver
    /\ \A v, x \in hist : v.ver = x.ver => v = x
    /\ \A v \in hist : ~v.prop => v.ver <= cur.ver

\* A row is locked by the one transaction that has deleted it.
InTx(h) == wk[h].pc \in {"tuples", "publish"}
RowLocks ==
    /\ \A u \in Uploads : row[u].st = "locked" <=> \E h \in Handlers : wk[h].u = u /\ InTx(h)
    /\ \A g, h \in Handlers : InTx(g) /\ InTx(h) /\ wk[g].u = wk[h].u => g = h

\* What came of an upload: nothing while it has its row, one version or one file after.
ByUpload(u) == {v \in hist : v.by = u}
FilesOf(u) == {f \in files : f[1] = u}
Outcomes ==
    \A u \in Uploads :
        /\ row[u].st # "gone" => ByUpload(u) = {} /\ FilesOf(u) = {}
        /\ ByUpload(u) = {} \/ FilesOf(u) = {}
        /\ \A v, x \in ByUpload(u) : v = x
        /\ \A f, g \in FilesOf(u) : f = g

Owned ==
    /\ files \ lost \subseteq owned
    /\ \A h \in Handlers : wk[h].pc = "publish" => Node(h) \in owned

\* A copy that was hashed is not replaced before it is promoted, except by a second request.
Copies ==
    /\ \A g, h \in Handlers : g # h /\ wk[g].u = wk[h].u /\ wk[g].u # Nothing => wk[g].u \in overlapped
    /\ \A h \in Handlers :
        /\ wk[h].pc \in {"probe", "promote"} /\ wk[h].kind = "upload" /\ wk[h].u \notin overlapped =>
               incoming[wk[h].u] \in {Nothing, wk[h].sha}
        /\ wk[h].pc \in {"tx", "commit", "tuples", "publish"} => final[wk[h].sha] # Nothing
    /\ \A c \in Contents : final[c] # Nothing => final[c] = c \/ \E u \in overlapped : Declared[u] = c
    /\ \A c \in blob : final[c] # Nothing
    /\ \A v \in hist : final[v.sha] # Nothing

\* The timer removes objects of uploads that have lost their row for good.
Sweeps ==
    /\ \A u \in Uploads : row[u].st = "none" => staging[u] = Nothing /\ incoming[u] = Nothing
    /\ sw.pc \in {"discard", "delete"} => \A u \in sw.keys : row[u].st = "gone"
    /\ \A h \in Handlers : wk[h].kind = "upload" => row[wk[h].u].st # "none"

FileInv ==
    Shapes /\ Requests /\ Numbers /\ RowLocks /\ Outcomes /\ Owned /\ Copies /\ Sweeps

-----------------------------------------------------------------------------
(* What a step of a request may do, part by part of the invariant *)

\* Request h goes on with the same work, or ends.
Proceeds(h) ==
    /\ wk' \in [Handlers -> Work] /\ Requests'
    /\ \A g \in Handlers : g # h => wk'[g] = wk[g]
    /\ \/ wk'[h] = Idle
       \/ /\ wk[h].pc # "idle" /\ wk'[h].pc # "idle"
          /\ wk'[h].u = wk[h].u /\ wk'[h].kind = wk[h].kind /\ wk'[h].sha = wk[h].sha /\ wk'[h].n = wk[h].n

LEMMA IdleWork == Idle \in Work /\ Request(Idle) /\ Idle.pc = "idle" /\ Idle.u = Nothing /\ Idle.kind = "none"
  BY DEF Idle, Work, Request, Pcs, OfUpload

LEMMA GotoSound ==
    ASSUME FileInv, NEW h \in Handlers, NEW pc \in Pcs \ {"idle"}, wk[h].pc # "idle",
           pc \in OfUpload => wk[h].kind = "upload", Goto(h, pc)
    PROVE  Proceeds(h) /\ wk'[h].pc = pc /\ wk'[h].u = wk[h].u /\ wk'[h].kind = wk[h].kind
  <1>1. wk[h] \in Work /\ Request(wk[h])
    BY DEF FileInv, Shapes, Requests
  <1> DEFINE w == [wk[h] EXCEPT !.pc = pc]
  <1>2. w \in Work
    BY <1>1 DEF Work
  <1>3. w.pc = pc /\ w.u = wk[h].u /\ w.kind = wk[h].kind /\ w.sha = wk[h].sha /\ w.n = wk[h].n /\ w.new = wk[h].new
    BY <1>1 DEF Work
  <1>4. Request(w)
    <2> HIDE DEF w
    <2> QED
      BY <1>1, <1>3 DEF Request
  <1>5. wk'[h] = w /\ (\A g \in Handlers : g # h => wk'[g] = wk[g]) /\ wk' \in [Handlers -> Work]
    BY <1>2 DEF Goto, FileInv, Shapes
  <1>6. Requests'
    BY <1>4, <1>5 DEF FileInv, Requests
  <1> HIDE DEF w
  <1> QED
    BY <1>3, <1>5, <1>6 DEF Proceeds

LEMMA DoneSound ==
    ASSUME FileInv, NEW h \in Handlers, Done(h)
    PROVE  Proceeds(h) /\ wk'[h] = Idle /\ wk'[h].pc = "idle"
  <1>1. wk'[h] = Idle /\ (\A g \in Handlers : g # h => wk'[g] = wk[g]) /\ wk' \in [Handlers -> Work]
    BY IdleWork DEF Done, FileInv, Shapes
  <1>2. Requests'
    BY <1>1, IdleWork DEF FileInv, Requests
  <1> QED
    BY <1>1, <1>2, IdleWork DEF Proceeds

\* Rows stay, or go for good.
RowsGo == \A u \in Uploads : /\ row'[u].st = "none" <=> row[u].st = "none"
                             /\ row[u].st = "gone" => row'[u].st = "gone"
ObjectsGo ==
    \A u \in Uploads : staging'[u] \in {Nothing, staging[u]} /\ incoming'[u] \in {Nothing, incoming[u]}

LEMMA LocksKept ==
    ASSUME FileInv, NEW h \in Handlers, Proceeds(h), InTx(h)' <=> InTx(h),
           \A u \in Uploads : row'[u].st = "locked" <=> row[u].st = "locked"
    PROVE  RowLocks'
  BY IdleWork DEF FileInv, RowLocks, InTx, Proceeds

LEMMA OutcomesKept ==
    ASSUME FileInv, UNCHANGED <<hist, files>>, \A u \in Uploads : row[u].st = "gone" => row'[u].st = "gone"
    PROVE  Outcomes'
  BY DEF FileInv, Outcomes, ByUpload, FilesOf

LEMMA OwnedKept ==
    ASSUME FileInv, NEW h \in Handlers, Proceeds(h), UNCHANGED nodes, wk'[h].pc # "publish"
    PROVE  Owned'
  BY DEF FileInv, Owned, Node, nodes, Proceeds

\* The copies of others stay, and h hashed its own.
LEMMA CopiesKept ==
    ASSUME FileInv, NEW h \in Handlers, Proceeds(h), UNCHANGED <<final, blob, hist, overlapped>>,
           \A u \in Uploads : incoming'[u] \in {Nothing, incoming[u]},
           wk'[h].pc \in {"probe", "promote"} /\ wk[h].kind = "upload" =>
               wk[h].pc \in {"probe", "promote"} \/ incoming[wk[h].u] \in {Nothing, wk[h].sha},
           wk'[h].pc \in {"tx", "commit", "tuples", "publish"} => final[wk[h].sha] # Nothing
    PROVE  Copies'
  <1>1. \A g, k \in Handlers : g # k /\ wk'[g].u = wk'[k].u /\ wk'[g].u # Nothing => wk'[g].u \in overlapped
    BY IdleWork DEF FileInv, Copies, Proceeds
  <1>2. ASSUME NEW g \in Handlers, wk'[g].pc \in {"probe", "promote"}, wk'[g].kind = "upload", wk'[g].u \notin overlapped
        PROVE  incoming'[wk'[g].u] \in {Nothing, wk'[g].sha}
    <2>1. wk'[g].u = wk[g].u /\ wk'[g].kind = wk[g].kind /\ wk'[g].sha = wk[g].sha
      BY <1>2, IdleWork DEF Proceeds
    <2>2. wk[g].u \in Uploads
      BY <1>2, <2>1 DEF FileInv, Requests, Request
    <2>3. incoming[wk[g].u] \in {Nothing, wk[g].sha}
      BY <1>2, <2>1 DEF FileInv, Copies, Proceeds
    <2> QED
      BY <2>1, <2>2, <2>3
  <1>3. ASSUME NEW g \in Handlers, wk'[g].pc \in {"tx", "commit", "tuples", "publish"}
        PROVE  final[wk'[g].sha] # Nothing
    BY <1>3, IdleWork DEF FileInv, Copies, Proceeds
  <1> QED
    BY <1>1, <1>2, <1>3 DEF FileInv, Copies

LEMMA SweepsKept ==
    ASSUME FileInv, NEW h \in Handlers, Proceeds(h), UNCHANGED sw, RowsGo, ObjectsGo
    PROVE  Sweeps'
  <1>1. \A u \in Uploads : row'[u].st = "none" => staging'[u] = Nothing /\ incoming'[u] = Nothing
    BY DEF FileInv, Sweeps, RowsGo, ObjectsGo
  <1>2. sw'.pc \in {"discard", "delete"} => \A u \in sw'.keys : row'[u].st = "gone"
    BY DEF FileInv, Sweeps, RowsGo, Shapes
  <1>3. \A g \in Handlers : wk'[g].kind = "upload" => row'[wk'[g].u].st # "none"
    BY IdleWork DEF FileInv, Sweeps, RowsGo, Proceeds, Requests, Request
  <1> QED
    BY <1>1, <1>2, <1>3 DEF Sweeps

LEMMA MaxRowSound ==
    ASSUME FileInv
    PROVE  MaxRow \in Nat /\ \A v \in hist : v.ver <= MaxRow
  <1>1. \E m \in {v.ver : v \in hist} : \A y \in {v.ver : v \in hist} : m >= y
    BY DEF FileInv, Numbers, Shapes, VersionRow
  <1>2. MaxRow \in {v.ver : v \in hist} /\ \A y \in {v.ver : v \in hist} : MaxRow >= y
    BY <1>1 DEF MaxRow, Max
  <1> QED
    BY <1>2 DEF FileInv, Shapes, VersionRow

-----------------------------------------------------------------------------
(* One lemma per kind of step *)

LEMMA InitInv == Init => FileInv
  <1> SUFFICES ASSUME Init PROVE FileInv
    OBVIOUS
  <1> DEFINE v1 == [ver |-> 1, sha |-> Original, prop |-> FALSE, by |-> Nothing]
  <1>1. v1 \in VersionRow /\ hist = {v1} /\ v1.ver = 1 /\ v1.sha = Original /\ v1.by = Nothing
    BY FileAssumption DEF Init, VersionRow
  <1> HIDE DEF v1
  <1>2. Shapes
    <2>1. row \in [Uploads -> Row]
      BY DEF Init, Gone, Row
    <2>2. wk \in [Handlers -> Work] /\ sw.keys \subseteq Uploads
      BY IdleWork DEF Init, Cycle
    <2>3. cur \in [ver : Nat, sha : Contents] /\ blob \subseteq Contents /\ final \in [Contents -> Contents \cup {Nothing}]
      BY FileAssumption DEF Init
    <2> QED
      BY <1>1, <2>1, <2>2, <2>3 DEF Init, Shapes
  <1>3. \A h \in Handlers : wk[h] = Idle
    BY DEF Init
  <1>4. Requests
    BY <1>3, IdleWork DEF Requests
  <1>5. cur.ver = 1
    BY DEF Init
  <1>6. Numbers
    BY <1>1, <1>5 DEF Numbers
  <1>7. \A u \in Uploads : row[u].st = "none" /\ staging[u] = Nothing /\ incoming[u] = Nothing
    BY DEF Init, Gone
  <1>8. RowLocks
    BY <1>3, <1>7, IdleWork DEF RowLocks, InTx
  <1>9. Outcomes
    BY <1>1, FileAssumption DEF Init, Outcomes, ByUpload, FilesOf
  <1>10. Owned
    BY <1>3, IdleWork DEF Init, Owned
  <1>11. Copies
    BY <1>1, <1>3, IdleWork, FileAssumption DEF Init, Copies
  <1>12. Sweeps
    BY <1>3, <1>7, IdleWork DEF Init, Sweeps, Cycle
  <1> QED
    BY <1>2, <1>4, <1>6, <1>8, <1>9, <1>10, <1>11, <1>12 DEF FileInv

\* Steps that change nothing but the request and objects in staging and incoming.
LEMMA QuietInv ==
    ASSUME FileInv, NEW h \in Handlers,
           Hash(h) \/ Probe(h) \/ Snapshot(h) \/ Refused(h) \/ PromoteFails(h) \/ Scrap(h) \/ Clean(h)
    PROVE  FileInv'
  <1>1. UNCHANGED <<row, final, blob, file, nodes, sw, reqs, overlapped>>
    BY DEF Hash, Probe, Snapshot, Refused, PromoteFails, Scrap, Clean, counts, store
  <1>2. /\ staging' \in [Uploads -> Contents \cup {Nothing}] /\ incoming' \in [Uploads -> Contents \cup {Nothing}]
        /\ ObjectsGo
    BY DEF Hash, Probe, Snapshot, Refused, PromoteFails, Scrap, Clean, store, ObjectsGo, FileInv, Shapes, Removed
  <1>3. MaxRow \in Nat
    BY MaxRowSound
  <1>4. /\ Proceeds(h) /\ ~InTx(h) /\ wk'[h].pc \notin {"tuples", "publish"}
        /\ wk'[h].pc \in {"probe", "promote"} /\ wk[h].kind = "upload" =>
               wk[h].pc \in {"probe", "promote"} \/ incoming[wk[h].u] \in {Nothing, wk[h].sha}
        /\ wk'[h].pc \in {"tx", "commit"} => final[wk[h].sha] # Nothing
    <2>1. CASE Hash(h)
      <3>1. wk[h].pc = "hash" /\ wk[h].kind = "upload"
        BY <2>1 DEF Hash, IsAt, FileInv, Requests, Request, OfUpload
      <3>2. CASE Done(h)
        BY <3>1, <3>2, DoneSound DEF InTx
      <3>3. CASE Goto(h, "probe") /\ incoming[wk[h].u] = wk[h].sha
        BY <3>1, <3>3, GotoSound DEF InTx, Pcs, OfUpload
      <3>4. CASE Goto(h, "scrap")
        BY <3>1, <3>4, GotoSound DEF InTx, Pcs, OfUpload
      <3> QED
        BY <2>1, <3>2, <3>3, <3>4 DEF Hash
    <2>2. CASE Probe(h)
      <3>1. CASE Goto(h, "tx") /\ wk[h].sha \in blob
        BY <2>2, <3>1, GotoSound DEF Probe, IsAt, InTx, Pcs, OfUpload, FileInv, Copies
      <3>2. CASE Goto(h, "promote")
        BY <2>2, <3>2, GotoSound DEF Probe, IsAt, InTx, Pcs, OfUpload
      <3> QED
        BY <2>2, <3>1, <3>2 DEF Probe
    <2>3. CASE Snapshot(h)
      <3>1. wk[h].pc = "tx" /\ wk' = [wk EXCEPT ![h].pc = "commit", ![h].seen = MaxRow]
        BY <2>3 DEF Snapshot, IsAt
      <3>2. wk[h] \in Work /\ Request(wk[h]) /\ final[wk[h].sha] # Nothing
        BY <3>1 DEF FileInv, Shapes, Requests, Copies
      <3> DEFINE w == [wk[h] EXCEPT !.pc = "commit", !.seen = MaxRow]
      <3>3. w \in Work /\ w.pc = "commit" /\ w.u = wk[h].u /\ w.kind = wk[h].kind /\ w.sha = wk[h].sha
            /\ w.n = wk[h].n /\ w.new = wk[h].new
        BY <1>3, <3>2 DEF Work, Pcs
      <3>4. wk'[h] = w /\ (\A g \in Handlers : g # h => wk'[g] = wk[g]) /\ wk' \in [Handlers -> Work]
        BY <3>1, <3>3 DEF FileInv, Shapes
      <3> HIDE DEF w
      <3>5. Request(w)
        BY <3>1, <3>2, <3>3 DEF Request, OfUpload
      <3>6. Requests'
        BY <3>4, <3>5 DEF FileInv, Requests
      <3> QED
        BY <3>1, <3>2, <3>3, <3>4, <3>6 DEF Proceeds, InTx
    <2>4. CASE Refused(h)
      <3>1. wk[h].pc = "refused"
        BY <2>4 DEF Refused, IsAt
      <3>2. CASE Done(h)
        BY <3>1, <3>2, DoneSound DEF InTx
      <3>3. CASE Goto(h, "scrap") /\ wk[h].u # Nothing
        BY <3>1, <3>3, GotoSound DEF InTx, Pcs, OfUpload, FileInv, Requests, Request
      <3> QED
        BY <2>4, <3>2, <3>3 DEF Refused
    <2>5. CASE PromoteFails(h)
      BY <2>5, DoneSound DEF PromoteFails, IsAt, InTx
    <2>6. CASE Scrap(h)
      BY <2>6, GotoSound DEF Scrap, IsAt, InTx, Pcs, OfUpload, FileInv, Requests, Request
    <2>7. CASE Clean(h)
      BY <2>7, DoneSound DEF Clean, IsAt, InTx
    <2> QED
      BY <2>1, <2>2, <2>3, <2>4, <2>5, <2>6, <2>7
  <1>5. Shapes'
    BY <1>1, <1>2, <1>4 DEF FileInv, Shapes, file, nodes, Proceeds
  <1>6. Requests' /\ Numbers' /\ RowLocks' /\ Outcomes' /\ Owned'
    <2>1. RowLocks'
      BY <1>1, <1>4, LocksKept DEF InTx
    <2>2. Outcomes' /\ Owned'
      BY <1>1, <1>4, OutcomesKept, OwnedKept DEF file, nodes
    <2> QED
      BY <1>1, <1>4, <2>1, <2>2 DEF Proceeds, FileInv, Numbers, file
  <1>7. Copies'
    BY <1>1, <1>2, <1>4, CopiesKept DEF ObjectsGo, file
  <1>8. Sweeps'
    BY <1>1, <1>2, <1>4, SweepsKept DEF RowsGo
  <1> QED
    BY <1>5, <1>6, <1>7, <1>8 DEF FileInv

\* A second copy is made only by a second request.
LEMMA CopyInInv ==
    ASSUME FileInv, NEW h \in Handlers, CopyIn(h)
    PROVE  FileInv'
  <1> DEFINE u == wk[h].u
  <1>1. UNCHANGED <<row, staging, final, blob, file, nodes, sw, reqs, overlapped>> /\ wk[h].pc = "copy"
    BY DEF CopyIn, counts, IsAt
  <1>2. wk[h].kind = "upload" /\ u \in Uploads /\ row[u].st # "none"
    BY <1>1 DEF FileInv, Requests, Request, OfUpload, Sweeps
  <1>3. /\ Proceeds(h) /\ wk'[h].pc \in {"idle", "hash"}
        /\ \/ UNCHANGED incoming
           \/ incoming' = [incoming EXCEPT ![u] = staging[u]]
    <2>1. CASE Done(h) /\ UNCHANGED incoming
      BY <2>1, DoneSound
    <2>2. CASE incoming' = [incoming EXCEPT ![u] = staging[u]] /\ Goto(h, "hash")
      BY <1>1, <1>2, <2>2, GotoSound DEF Pcs, OfUpload
    <2> QED
      BY <2>1, <2>2 DEF CopyIn
  <1>4. incoming' \in [Uploads -> Contents \cup {Nothing}] /\ \A x \in Uploads : x # u => incoming'[x] = incoming[x]
    BY <1>2, <1>3 DEF FileInv, Shapes
  <1>5. Shapes'
    BY <1>1, <1>3, <1>4 DEF FileInv, Shapes, file, nodes, Proceeds
  <1>6. RowLocks' /\ Outcomes' /\ Owned'
    <2>1. RowLocks'
      BY <1>1, <1>3, LocksKept DEF InTx
    <2> QED
      BY <1>1, <1>3, <2>1, OutcomesKept, OwnedKept DEF file, nodes
  <1>7. Requests' /\ Numbers'
    BY <1>1, <1>3 DEF Proceeds, FileInv, Numbers, file
  <1>8. Copies'
    <2>1. \A g, k \in Handlers : g # k /\ wk'[g].u = wk'[k].u /\ wk'[g].u # Nothing => wk'[g].u \in overlapped
      BY <1>3, IdleWork DEF FileInv, Copies, Proceeds
    <2>2. ASSUME NEW g \in Handlers, wk'[g].pc \in {"probe", "promote"}, wk'[g].kind = "upload", wk'[g].u \notin overlapped
          PROVE  incoming'[wk'[g].u] \in {Nothing, wk'[g].sha}
      <3>1. g # h /\ wk'[g] = wk[g]
        BY <1>3, <2>2 DEF Proceeds
      <3>2. wk[g].u \in Uploads /\ wk[g].u # Nothing
        BY <2>2, <3>1, FileAssumption DEF FileInv, Requests, Request
      <3>3. wk[g].u # u
        BY <2>2, <3>1, <3>2 DEF FileInv, Copies
      <3> QED
        BY <1>4, <2>2, <3>1, <3>2, <3>3 DEF FileInv, Copies
    <2>3. \A g \in Handlers : wk'[g].pc \in {"tx", "commit", "tuples", "publish"} => final[wk'[g].sha] # Nothing
      BY <1>3 DEF FileInv, Copies, Proceeds
    <2> QED
      BY <1>1, <2>1, <2>2, <2>3 DEF FileInv, Copies, file
  <1>9. Sweeps'
    <2>1. \A g \in Handlers : wk'[g].kind = "upload" => row[wk'[g].u].st # "none"
      BY <1>3, IdleWork DEF FileInv, Sweeps, Proceeds
    <2> QED
      BY <1>1, <1>2, <1>4, <2>1 DEF FileInv, Sweeps
  <1> QED
    BY <1>5, <1>6, <1>7, <1>8, <1>9 DEF FileInv

\* What is promoted was hashed, unless the upload has been finalised twice at once.
LEMMA PromoteInv ==
    ASSUME FileInv, NEW h \in Handlers, Promote(h)
    PROVE  FileInv'
  <1> DEFINE src == IF wk[h].kind = "upload" THEN incoming[wk[h].u] ELSE wk[h].sha
             c == wk[h].sha
  <1>1. UNCHANGED <<row, staging, incoming, blob, file, nodes, sw, reqs, overlapped>> /\ wk[h].pc = "promote"
    BY DEF Promote, counts, IsAt
  <1>2. c \in Contents /\ src \in Contents \cup {Nothing}
    BY <1>1, FileAssumption DEF FileInv, Requests, Request, Shapes
  <1>3. src # Nothing => src = c \/ \E u \in overlapped : Declared[u] = c
    BY <1>1 DEF FileInv, Requests, Request, Copies
  <1>4. /\ Proceeds(h) /\ wk'[h].pc \in {"idle", "tx"}
        /\ \/ UNCHANGED final /\ wk'[h].pc = "idle"
           \/ final' = [final EXCEPT ![c] = src] /\ src # Nothing
    <2>1. CASE Done(h) /\ UNCHANGED final
      BY <2>1, DoneSound
    <2>2. CASE src # Nothing /\ final' = [final EXCEPT ![c] = src] /\ Goto(h, "tx")
      BY <1>1, <2>2, GotoSound DEF Pcs, OfUpload
    <2> QED
      BY <2>1, <2>2 DEF Promote
  <1> HIDE DEF src
  <1>5. /\ final' \in [Contents -> Contents \cup {Nothing}]
        /\ \A x \in Contents : final[x] # Nothing => final'[x] # Nothing
        /\ \A x \in Contents : final'[x] # Nothing => final'[x] = x \/ \E u \in overlapped : Declared[u] = x
        /\ wk'[h].pc = "tx" => final'[c] # Nothing
    BY <1>2, <1>3, <1>4 DEF FileInv, Shapes, Copies
  <1>6. Shapes'
    BY <1>1, <1>4, <1>5 DEF FileInv, Shapes, file, nodes, Proceeds
  <1>7. RowLocks' /\ Outcomes' /\ Owned' /\ Sweeps'
    <2>1. RowLocks'
      BY <1>1, <1>4, LocksKept DEF InTx
    <2>2. Sweeps'
      BY <1>1, <1>4, SweepsKept DEF RowsGo, ObjectsGo
    <2> QED
      BY <1>1, <1>4, <2>1, <2>2, OutcomesKept, OwnedKept DEF file, nodes
  <1>8. Requests' /\ Numbers'
    BY <1>1, <1>4 DEF Proceeds, FileInv, Numbers, file
  <1>9. Copies'
    <2>1. \A g, k \in Handlers : g # k /\ wk'[g].u = wk'[k].u /\ wk'[g].u # Nothing => wk'[g].u \in overlapped
      BY <1>4, IdleWork DEF FileInv, Copies, Proceeds
    <2>2. ASSUME NEW g \in Handlers, wk'[g].pc \in {"probe", "promote"}
          PROVE  g # h /\ wk'[g] = wk[g]
      BY <1>4, <2>2 DEF Proceeds
    <2>3. ASSUME NEW g \in Handlers, wk'[g].pc \in {"tx", "commit", "tuples", "publish"}
          PROVE  final'[wk'[g].sha] # Nothing
      <3>1. CASE g = h
        BY <1>4, <1>5, <2>3, <3>1, IdleWork DEF Proceeds
      <3>2. CASE g # h
        BY <1>4, <1>5, <2>3, <3>2 DEF FileInv, Copies, Proceeds, Requests, Request
      <3> QED
        BY <3>1, <3>2
    <2>4. (\A x \in blob : final'[x] # Nothing) /\ (\A v \in hist : final'[v.sha] # Nothing)
      BY <1>5 DEF FileInv, Copies, Shapes, VersionRow
    <2> QED
      BY <1>1, <1>5, <2>1, <2>2, <2>3, <2>4 DEF FileInv, Copies, file
  <1> QED
    BY <1>6, <1>7, <1>8, <1>9 DEF FileInv

\* The DELETE of the pending row gives its lock to one transaction.
LEMMA ReserveInv ==
    ASSUME FileInv, NEW h \in Handlers, Reserve(h)
    PROVE  FileInv'
  <1> DEFINE u == wk[h].u
  <1>1. /\ UNCHANGED <<store, blob, file, nodes, sw, reqs, overlapped>> /\ wk[h].pc = "tx" /\ wk[h].new
        /\ row[u].st # "locked"
    BY DEF Reserve, counts, IsAt
  <1>2. wk[h].kind = "upload" /\ u \in Uploads /\ row[u] \in Row /\ final[wk[h].sha] # Nothing
    BY <1>1 DEF FileInv, Requests, Request, Shapes, Copies
  <1>3. CASE ~Claimable(u)
    <2>1. Goto(h, "scrap") /\ row' = row
      BY <1>3 DEF Reserve
    <2>2. Proceeds(h) /\ wk'[h].pc = "scrap"
      BY <1>1, <1>2, <2>1, GotoSound DEF Pcs, OfUpload
    <2>3. Shapes' /\ Requests' /\ Numbers'
      BY <1>1, <2>1, <2>2 DEF FileInv, Shapes, file, nodes, store, Proceeds, Numbers
    <2>4. RowLocks'
      BY <1>1, <2>1, <2>2, LocksKept DEF InTx
    <2>5. Outcomes' /\ Owned'
      BY <1>1, <2>1, <2>2, OutcomesKept, OwnedKept DEF file, nodes
    <2>6. Copies'
      BY <1>1, <2>2, CopiesKept DEF store, file
    <2>7. Sweeps'
      BY <1>1, <2>1, <2>2, SweepsKept DEF RowsGo, ObjectsGo, store
    <2> QED
      BY <2>3, <2>4, <2>5, <2>6, <2>7 DEF FileInv
  <1>4. CASE Claimable(u)
    <2>1. row[u].st = "open" /\ row' = [row EXCEPT ![u].st = "locked"] /\ Goto(h, "tuples")
      BY <1>4 DEF Reserve, Claimable
    <2>2. Proceeds(h) /\ wk'[h].pc = "tuples" /\ wk'[h].u = u
      BY <1>1, <1>2, <2>1, GotoSound DEF Pcs, OfUpload
    <2>3. /\ row' \in [Uploads -> Row] /\ row'[u].st = "locked"
          /\ \A x \in Uploads : x # u => row'[x] = row[x]
      BY <1>2, <2>1 DEF FileInv, Shapes, Row
    <2>4. RowsGo
      BY <2>1, <2>3 DEF RowsGo
    <2>5. Shapes' /\ Requests' /\ Numbers'
      BY <1>1, <2>2, <2>3 DEF FileInv, Shapes, file, nodes, store, Proceeds, Numbers
    <2>6. RowLocks'
      <3>1. \A g \in Handlers : InTx(g) => wk[g].u # u /\ g # h
        BY <1>1, <1>2 DEF FileInv, RowLocks, InTx
      <3>2. InTx(h)' /\ \A g \in Handlers : g # h => (InTx(g)' <=> InTx(g)) /\ wk'[g].u = wk[g].u
        BY <2>2 DEF Proceeds, InTx
      <3> QED
        BY <2>2, <2>3, <3>1, <3>2 DEF FileInv, RowLocks
    <2>7. Outcomes' /\ Owned'
      BY <1>1, <2>2, <2>4, OutcomesKept, OwnedKept DEF file, nodes, RowsGo
    <2>8. Copies'
      BY <1>1, <1>2, <2>2, CopiesKept DEF store, file
    <2>9. Sweeps'
      BY <1>1, <2>2, <2>4, SweepsKept DEF ObjectsGo, store
    <2> QED
      BY <2>5, <2>6, <2>7, <2>8, <2>9 DEF FileInv
  <1> QED
    BY <1>3, <1>4

LEMMA WriteTuplesInv ==
    ASSUME FileInv, NEW h \in Handlers, WriteTuples(h)
    PROVE  FileInv'
  <1>1. /\ UNCHANGED <<row, store, blob, file, files, lost, sw, reqs, overlapped>> /\ wk[h].pc = "tuples"
        /\ owned' = owned \cup {Node(h)} /\ Goto(h, "publish")
    BY DEF WriteTuples, counts, IsAt
  <1>2. wk[h].kind = "upload" /\ wk[h].u \in Uploads /\ final[wk[h].sha] # Nothing /\ wk[h].n \in Nat
    BY <1>1 DEF FileInv, Requests, Request, OfUpload, Copies, Shapes, Work
  <1>3. Proceeds(h) /\ wk'[h].pc = "publish" /\ wk'[h].u = wk[h].u /\ wk'[h].n = wk[h].n
    <2>1. Proceeds(h) /\ wk'[h].pc = "publish" /\ wk'[h].u = wk[h].u
      BY <1>1, <1>2, GotoSound DEF Pcs, OfUpload
    <2> QED
      BY <2>1, IdleWork DEF Proceeds
  <1>4. Shapes' /\ Requests' /\ Numbers'
    BY <1>1, <1>2, <1>3 DEF FileInv, Shapes, file, store, Proceeds, Numbers, Node
  <1>5. RowLocks' /\ Outcomes' /\ Sweeps'
    <2>1. RowLocks'
      BY <1>1, <1>3, LocksKept DEF InTx
    <2>2. Sweeps'
      BY <1>1, <1>3, SweepsKept DEF RowsGo, ObjectsGo, store
    <2> QED
      BY <1>1, <2>1, <2>2, OutcomesKept DEF file
  <1>6. Owned'
    BY <1>1, <1>3 DEF FileInv, Owned, Node, Proceeds
  <1>7. Copies'
    BY <1>1, <1>2, <1>3, CopiesKept DEF store, file
  <1> QED
    BY <1>4, <1>5, <1>6, <1>7 DEF FileInv

\* The lock of request h goes with its row or is given back.
LEMMA LockGone ==
    ASSUME FileInv, NEW h \in Handlers, Proceeds(h), InTx(h), ~InTx(h)', row'[wk[h].u].st # "locked",
           \A x \in Uploads : x # wk[h].u => row'[x] = row[x]
    PROVE  RowLocks'
  <1>1. \A g \in Handlers : g # h => (InTx(g)' <=> InTx(g)) /\ wk'[g].u = wk[g].u
    BY DEF Proceeds, InTx
  <1>2. \A g \in Handlers : g # h /\ InTx(g) => wk[g].u # wk[h].u
    BY DEF FileInv, RowLocks
  <1> QED
    BY <1>1, <1>2 DEF FileInv, RowLocks

\* The commit of a new file, whether the answer arrives or not.
LEMMA PublishInv ==
    ASSUME FileInv, NEW h \in Handlers, Publish(h) \/ PublishLost(h)
    PROVE  FileInv'
  <1> DEFINE u == wk[h].u
  <1>1. /\ UNCHANGED <<store, file, sw, reqs, overlapped>> /\ wk[h].pc = "publish"
        /\ files' = files \cup {Node(h)} /\ blob' = blob \cup {wk[h].sha}
        /\ row' = [row EXCEPT ![u] = Gone]
        /\ \/ UNCHANGED <<owned, lost>>
           \/ lost' = lost \cup {Node(h)} /\ owned' \in {owned, owned \ {Node(h)}}
        /\ Goto(h, "clean") \/ Goto(h, "scrap")
    BY DEF Publish, PublishLost, counts, IsAt
  <1>2. /\ wk[h].kind = "upload" /\ u \in Uploads /\ wk[h].n \in Nat /\ wk[h].sha \in Contents
        /\ final[wk[h].sha] # Nothing /\ InTx(h)
    BY <1>1 DEF FileInv, Requests, Request, OfUpload, Copies, Shapes, Work, InTx
  <1>3. row[u].st = "locked" /\ ByUpload(u) = {} /\ FilesOf(u) = {}
    BY <1>2 DEF FileInv, RowLocks, Outcomes
  <1>4. Proceeds(h) /\ wk'[h].pc \in {"clean", "scrap"}
    BY <1>1, <1>2, GotoSound DEF Pcs, OfUpload
  <1>5. /\ row' \in [Uploads -> Row] /\ row'[u].st = "gone"
        /\ \A x \in Uploads : x # u => row'[x] = row[x]
    BY <1>1, <1>2 DEF FileInv, Shapes, Row, Gone
  <1>6. RowsGo
    BY <1>3, <1>5 DEF RowsGo
  <1>7. Shapes'
    <2>1. Node(h) \in Uploads \X Nat
      BY <1>2 DEF Node
    <2>2. files' \subseteq Uploads \X Nat /\ owned' \subseteq Uploads \X Nat /\ lost' \subseteq files'
      BY <1>1, <2>1 DEF FileInv, Shapes
    <2> QED
      BY <1>1, <1>2, <1>4, <1>5, <2>2 DEF FileInv, Shapes, file, store, Proceeds
  <1>8. Requests' /\ Numbers'
    BY <1>1, <1>4 DEF FileInv, Proceeds, Numbers, file
  <1>9. RowLocks'
    <2>1. ~InTx(h)'
      BY <1>4 DEF InTx
    <2> QED
      BY <1>2, <1>4, <1>5, <2>1, LockGone
  <1>10. Outcomes'
    <2>1. \A x \in Uploads : ByUpload(x)' = ByUpload(x)
      BY <1>1 DEF ByUpload, file
    <2>2. \A x \in Uploads : x # u => FilesOf(x)' = FilesOf(x)
      BY <1>1 DEF FilesOf, Node
    <2>3. \A x \in Uploads : x = u => FilesOf(x)' = {Node(h)}
      BY <1>1, <1>3 DEF FilesOf, Node
    <2> QED
      BY <1>3, <1>5, <2>1, <2>2, <2>3 DEF FileInv, Outcomes
  <1>11. Owned'
    <2>1. Node(h) \in owned /\ Node(h) \notin files
      BY <1>1, <1>2, <1>3 DEF FileInv, Owned, FilesOf, Node
    <2>2. files' \ lost' \subseteq owned'
      BY <1>1, <2>1 DEF FileInv, Owned
    <2>3. ASSUME NEW g \in Handlers, wk'[g].pc = "publish" PROVE Node(g)' \in owned'
      <3>1. g # h /\ wk'[g] = wk[g]
        BY <1>4, <2>3 DEF Proceeds
      <3>2. Node(g) \in owned /\ wk[g].u # u
        BY <1>2, <2>3, <3>1 DEF FileInv, Owned, RowLocks, InTx
      <3> QED
        BY <1>1, <3>1, <3>2 DEF Node
    <2> QED
      BY <2>2, <2>3 DEF Owned
  <1>12. Copies'
    <2>1. \A g, k \in Handlers : g # k /\ wk'[g].u = wk'[k].u /\ wk'[g].u # Nothing => wk'[g].u \in overlapped
      BY <1>4, IdleWork DEF FileInv, Copies, Proceeds
    <2>2. \A g \in Handlers : wk'[g].pc \in {"probe", "promote", "tx", "commit", "tuples", "publish"} => wk'[g] = wk[g]
      BY <1>4 DEF Proceeds
    <2> QED
      BY <1>1, <1>2, <2>1, <2>2 DEF FileInv, Copies, file, store
  <1>13. Sweeps'
    BY <1>1, <1>4, <1>6, SweepsKept DEF ObjectsGo, store
  <1> QED
    BY <1>7, <1>8, <1>9, <1>10, <1>11, <1>12, <1>13 DEF FileInv

\* A transaction that fails gives the row back.
LEMMA FailureInv ==
    ASSUME FileInv, NEW h \in Handlers, TxFails(h) \/ Drop(h)
    PROVE  FileInv'
  <1> DEFINE u == wk[h].u
  <1>1. UNCHANGED <<store, blob, file, files, lost, sw, reqs, overlapped>> /\ RolledBack(h) /\ wk[h].pc # "idle"
    BY DEF TxFails, Drop, counts
  <1>2. Proceeds(h) /\ wk'[h].pc \in {"idle", "scrap"}
    <2>1. CASE TxFails(h)
      BY <2>1, GotoSound DEF TxFails, Pcs, OfUpload
    <2>2. CASE Drop(h)
      BY <2>2, DoneSound DEF Drop
    <2> QED
      BY <2>1, <2>2
  <1>3. Copies'
    BY <1>1, <1>2, CopiesKept DEF store, file
  <1>4. Requests' /\ Numbers'
    BY <1>1, <1>2 DEF FileInv, Proceeds, Numbers, file
  <1>5. CASE ~InTx(h)
    <2>1. UNCHANGED <<row, owned>>
      BY <1>1, <1>5 DEF RolledBack, InTx
    <2>2. Shapes'
      BY <1>1, <1>2, <2>1 DEF FileInv, Shapes, file, store, Proceeds
    <2>3. RowLocks'
      BY <1>2, <1>5, <2>1, LocksKept DEF InTx
    <2>4. Outcomes' /\ Owned'
      BY <1>1, <1>2, <2>1, OutcomesKept, OwnedKept DEF file, nodes
    <2>5. Sweeps'
      BY <1>1, <1>2, <2>1, SweepsKept DEF RowsGo, ObjectsGo, store
    <2> QED
      BY <1>3, <1>4, <2>2, <2>3, <2>4, <2>5 DEF FileInv
  <1>6. CASE InTx(h)
    <2>1. row' = [row EXCEPT ![u].st = "open"] /\ owned' = owned \ {Node(h)}
      BY <1>1, <1>6 DEF RolledBack, InTx
    <2>2. wk[h].kind = "upload" /\ u \in Uploads
      BY <1>6 DEF FileInv, Requests, Request, OfUpload, InTx
    <2>3. row[u].st = "locked" /\ FilesOf(u) = {}
      BY <1>6, <2>2 DEF FileInv, RowLocks, Outcomes
    <2>4. /\ row' \in [Uploads -> Row] /\ row'[u].st = "open"
          /\ \A x \in Uploads : x # u => row'[x] = row[x]
      BY <2>1, <2>2 DEF FileInv, Shapes, Row
    <2>5. RowsGo
      BY <2>3, <2>4 DEF RowsGo
    <2>6. Shapes'
      BY <1>1, <1>2, <2>1, <2>4 DEF FileInv, Shapes, file, store, Proceeds
    <2>7. RowLocks'
      <3>1. ~InTx(h)'
        BY <1>2 DEF InTx
      <3> QED
        BY <1>2, <1>6, <2>4, <3>1, LockGone
    <2>8. Outcomes'
      BY <1>1, <2>5, OutcomesKept DEF file, RowsGo
    <2>9. Owned'
      <3>1. Node(h) \notin files
        BY <2>3 DEF FilesOf, Node
      <3>2. ASSUME NEW g \in Handlers, wk'[g].pc = "publish" PROVE Node(g)' \in owned'
        <4>1. g # h /\ wk'[g] = wk[g]
          BY <1>2, <3>2 DEF Proceeds
        <4>2. Node(g) \in owned /\ wk[g].u # u
          BY <1>6, <3>2, <4>1 DEF FileInv, Owned, RowLocks, InTx
        <4> QED
          BY <2>1, <4>1, <4>2 DEF Node
      <3> QED
        BY <1>1, <2>1, <3>1, <3>2 DEF FileInv, Owned
    <2>10. Sweeps'
      BY <1>1, <1>2, <2>5, SweepsKept DEF ObjectsGo, store
    <2> QED
      BY <1>3, <1>4, <2>6, <2>7, <2>8, <2>9, <2>10 DEF FileInv
  <1> QED
    BY <1>5, <1>6

LEMMA UnrowInv ==
    ASSUME FileInv, NEW h \in Handlers, Unrow(h)
    PROVE  FileInv'
  <1> DEFINE u == wk[h].u
  <1>1. /\ UNCHANGED <<store, blob, file, nodes, sw, reqs, overlapped>> /\ wk[h].pc = "unrow" /\ row[u].st # "locked"
        /\ row' \in {row, [row EXCEPT ![u] = Gone]} /\ Done(h)
    BY DEF Unrow, counts, IsAt
  <1>2. wk[h].kind = "upload" /\ u \in Uploads /\ row[u].st # "none"
    BY <1>1 DEF FileInv, Requests, Request, OfUpload, Sweeps
  <1>3. Proceeds(h) /\ wk'[h].pc = "idle"
    BY <1>1, DoneSound
  <1>4. /\ row' \in [Uploads -> Row] /\ row'[u].st \in {row[u].st, "gone"}
        /\ \A x \in Uploads : x # u => row'[x] = row[x]
    <2>1. CASE row' = row
      BY <1>2, <2>1 DEF FileInv, Shapes
    <2>2. CASE row' = [row EXCEPT ![u] = Gone]
      BY <1>2, <2>2 DEF FileInv, Shapes, Row, Gone
    <2> QED
      BY <1>1, <2>1, <2>2
  <1>5. RowsGo
    BY <1>2, <1>4 DEF RowsGo
  <1>6. Shapes' /\ Requests' /\ Numbers'
    BY <1>1, <1>3, <1>4 DEF FileInv, Shapes, file, nodes, store, Proceeds, Numbers
  <1>7. RowLocks'
    BY <1>1, <1>3, <1>4, LocksKept DEF InTx
  <1>8. Outcomes' /\ Owned'
    BY <1>1, <1>3, <1>5, OutcomesKept, OwnedKept DEF file, nodes, RowsGo
  <1>9. Copies'
    BY <1>1, <1>3, CopiesKept DEF store, file
  <1>10. Sweeps'
    BY <1>1, <1>3, <1>5, SweepsKept DEF ObjectsGo, store
  <1> QED
    BY <1>6, <1>7, <1>8, <1>9, <1>10 DEF FileInv

-----------------------------------------------------------------------------
(* Versions *)

\* A number that is not taken, with node.version at it unless it is a proposal's.
LEMMA NumbersGrow ==
    ASSUME FileInv, NEW x \in VersionRow, hist' = hist \cup {x}, \A v \in hist : v.ver # x.ver,
           cur'.ver \in Nat, cur'.ver >= cur.ver, x.prop \/ x.ver <= cur'.ver
    PROVE  Numbers'
  <1>1. PICK m \in hist : \A v \in hist : v.ver <= m.ver
    BY DEF FileInv, Numbers
  <1>2. (\A v \in hist : v.ver \in Nat) /\ x.ver \in Nat /\ cur.ver \in Nat
    BY DEF FileInv, Shapes, VersionRow
  <1>3. \E k \in hist' : \A v \in hist' : v.ver <= k.ver
    <2>1. CASE x.ver <= m.ver
      BY <1>1, <2>1
    <2>2. CASE x.ver > m.ver
      <3>1. \A v \in hist' : v.ver <= x.ver
        BY <1>1, <1>2, <2>2
      <3> QED
        BY <3>1
    <2> QED
      BY <1>1, <1>2, <2>1, <2>2
  <1>4. \A v, y \in hist' : v.ver = y.ver => v = y
    BY DEF FileInv, Numbers
  <1>5. \A v \in hist' : ~v.prop => v.ver <= cur'.ver
    BY <1>2 DEF FileInv, Numbers
  <1> QED
    BY <1>3, <1>4, <1>5 DEF Numbers

LEMMA MaxTwo ==
    ASSUME NEW a \in Nat, NEW b \in Nat
    PROVE  Max({a, b}) \in {a, b} /\ Max({a, b}) >= a /\ Max({a, b}) >= b
  <1>1. \E x \in {a, b} : \A y \in {a, b} : x >= y
    <2>1. CASE a >= b
      BY <2>1
    <2>2. CASE ~(a >= b)
      BY <2>2
    <2> QED
      BY <2>1, <2>2
  <1> QED
    BY <1>1 DEF Max

LEMMA NextNumberSound ==
    ASSUME FileInv
    PROVE  NextNumber \in Nat /\ NextNumber > cur.ver /\ \A v \in hist : v.ver # NextNumber
  <1>1. cur.ver \in Nat /\ \A v \in hist : v.ver \in Nat
    BY DEF FileInv, Shapes, VersionRow
  <1>2. Max({cur.ver, MaxRow}) \in Nat /\ Max({cur.ver, MaxRow}) >= cur.ver /\ Max({cur.ver, MaxRow}) >= MaxRow
    BY <1>1, MaxRowSound, MaxTwo
  <1>3. MaxRow \in Nat /\ \A v \in hist : v.ver <= MaxRow
    BY MaxRowSound
  <1>4. NextNumber \in Nat /\ NextNumber > cur.ver /\ NextNumber > MaxRow
    BY <1>1, <1>2, <1>3 DEF NextNumber
  <1> QED
    BY <1>1, <1>3, <1>4

LEMMA NumberSound ==
    ASSUME FileInv, NEW h \in Handlers
    PROVE  Number(h) \in Nat /\ Number(h) > cur.ver
  <1>1. cur.ver \in Nat /\ wk[h].seen \in Nat
    BY DEF FileInv, Shapes, Work
  <1>2. Max({cur.ver, wk[h].seen}) \in Nat /\ Max({cur.ver, wk[h].seen}) >= cur.ver
    BY <1>1, MaxTwo
  <1> QED
    BY <1>1, <1>2 DEF Number

\* A version that no upload made.
LEMMA OthersVersion ==
    ASSUME FileInv, NEW x \in VersionRow, x.by = Nothing, hist' = hist \cup {x}, UNCHANGED <<files, row>>
    PROVE  Outcomes'
  <1>1. \A u \in Uploads : ByUpload(u)' = ByUpload(u) /\ FilesOf(u)' = FilesOf(u)
    BY FileAssumption DEF ByUpload, FilesOf
  <1> QED
    BY <1>1 DEF FileInv, Outcomes

LEMMA CommitInv ==
    ASSUME FileInv, NEW h \in Handlers, Commit(h)
    PROVE  FileInv'
  <1> DEFINE u == wk[h].u
             x == Version(Number(h), wk[h].sha, FALSE, u)
  <1>1. UNCHANGED <<store, nodes, sw, reqs, overlapped>> /\ wk[h].pc = "commit"
    BY DEF Commit, counts, IsAt
  <1>2. /\ wk[h].sha \in Contents /\ final[wk[h].sha] # Nothing /\ u \in Uploads \cup {Nothing}
        /\ (u # Nothing => wk[h].kind = "upload" /\ u \in Uploads)
    BY <1>1 DEF FileInv, Requests, Request, Copies, Shapes, Work
  <1>3. \/ /\ Claims(h) /\ ~Taken(Number(h))
           /\ cur' = [ver |-> Number(h), sha |-> wk[h].sha]
           /\ hist' = hist \cup {x}
           /\ blob' = blob \cup {wk[h].sha}
           /\ row' = IF u = Nothing THEN row ELSE [row EXCEPT ![u] = Gone]
           /\ IF u = Nothing THEN Done(h) ELSE Goto(h, "clean")
        \/ Goto(h, "refused") /\ UNCHANGED <<row, blob, file>>
        \/ u # Nothing /\ Goto(h, "scrap") /\ UNCHANGED <<row, blob, file>>
    <2>1. u = Nothing => Claims(h) /\ u \notin Uploads
      BY FileAssumption DEF Claims
    <2> QED
      BY <2>1 DEF Commit
  <1>4. CASE (Goto(h, "refused") \/ (u # Nothing /\ Goto(h, "scrap"))) /\ UNCHANGED <<row, blob, file>>
    <2>1. Proceeds(h) /\ wk'[h].pc \in {"refused", "scrap"}
      BY <1>1, <1>2, <1>4, GotoSound DEF Pcs, OfUpload
    <2>2. Shapes' /\ Requests' /\ Numbers'
      BY <1>1, <1>4, <2>1 DEF FileInv, Shapes, file, nodes, store, Proceeds, Numbers
    <2>3. RowLocks'
      BY <1>1, <1>4, <2>1, LocksKept DEF InTx
    <2>4. Outcomes' /\ Owned'
      BY <1>1, <1>4, <2>1, OutcomesKept, OwnedKept DEF file, nodes
    <2>5. Copies'
      BY <1>1, <1>4, <2>1, CopiesKept DEF store, file
    <2>6. Sweeps'
      BY <1>1, <1>4, <2>1, SweepsKept DEF RowsGo, ObjectsGo, store
    <2> QED
      BY <2>2, <2>3, <2>4, <2>5, <2>6 DEF FileInv
  <1>5. CASE /\ Claims(h) /\ ~Taken(Number(h))
             /\ cur' = [ver |-> Number(h), sha |-> wk[h].sha]
             /\ hist' = hist \cup {x}
             /\ blob' = blob \cup {wk[h].sha}
             /\ row' = IF u = Nothing THEN row ELSE [row EXCEPT ![u] = Gone]
             /\ IF u = Nothing THEN Done(h) ELSE Goto(h, "clean")
    <2>1. /\ x \in VersionRow /\ x.ver = Number(h) /\ x.sha = wk[h].sha /\ x.by = u /\ x.prop = FALSE
          /\ Number(h) \in Nat /\ Number(h) > cur.ver
      <3>1. Number(h) \in Nat /\ Number(h) > cur.ver
        BY NumberSound
      <3> QED
        BY <1>2, <3>1 DEF Version, VersionRow
    <2> HIDE DEF x
    <2>2. Proceeds(h) /\ wk'[h].pc \in {"idle", "clean"}
      <3>1. CASE Done(h)
        BY <3>1, DoneSound
      <3>2. CASE u # Nothing /\ Goto(h, "clean")
        BY <1>1, <1>2, <3>2, GotoSound DEF Pcs, OfUpload
      <3> QED
        BY <1>5, <3>1, <3>2
    <2>3. /\ row' \in [Uploads -> Row] /\ \A y \in Uploads : y # u => row'[y] = row[y]
          /\ u # Nothing => row[u].st = "open" /\ row'[u].st = "gone"
      <3>1. CASE u = Nothing
        BY <1>5, <3>1 DEF FileInv, Shapes
      <3>2. CASE u # Nothing
        BY <1>2, <1>5, <3>2 DEF FileInv, Shapes, Row, Gone, Claims, Claimable
      <3> QED
        BY <3>1, <3>2
    <2>4. RowsGo
      BY <1>2, <2>3, FileAssumption DEF RowsGo
    <2>5. Shapes'
      BY <1>1, <1>2, <1>5, <2>1, <2>2, <2>3 DEF FileInv, Shapes, nodes, store, Proceeds
    <2>6. Requests'
      BY <2>2 DEF Proceeds
    <2>7. Numbers'
      <3>1. \A v \in hist : v.ver # x.ver
        BY <1>5, <2>1 DEF Taken
      <3>2. cur'.ver = Number(h) /\ cur.ver \in Nat
        BY <1>5 DEF FileInv, Shapes
      <3> QED
        BY <1>5, <2>1, <3>1, <3>2, NumbersGrow
    <2>8. RowLocks'
      <3>1. \A y \in Uploads : row'[y].st = "locked" <=> row[y].st = "locked"
        BY <2>3, FileAssumption
      <3> QED
        BY <1>1, <2>2, <3>1, LocksKept DEF InTx
    <2>9. Outcomes'
      <3>1. \A y \in Uploads : FilesOf(y)' = FilesOf(y)
        BY <1>1 DEF FilesOf, nodes
      <3>2. \A y \in Uploads : y # u => ByUpload(y)' = ByUpload(y) /\ row'[y] = row[y]
        BY <1>5, <2>1, <2>3 DEF ByUpload
      <3>3. \A y \in Uploads : y = u => /\ ByUpload(y) = {} /\ FilesOf(y) = {} /\ row'[y].st = "gone"
                                      /\ ByUpload(y)' = ByUpload(y) \cup {x}
        BY <1>2, <1>5, <2>1, <2>3, FileAssumption DEF FileInv, Outcomes, ByUpload
      <3> QED
        BY <3>1, <3>2, <3>3 DEF FileInv, Outcomes
    <2>10. Owned'
      BY <1>1, <2>2, OwnedKept
    <2>11. Copies'
      <3>1. \A g, k \in Handlers : g # k /\ wk'[g].u = wk'[k].u /\ wk'[g].u # Nothing => wk'[g].u \in overlapped
        BY <2>2, IdleWork DEF FileInv, Copies, Proceeds
      <3>2. \A g \in Handlers : wk'[g].pc \in {"probe", "promote", "tx", "commit", "tuples", "publish"} => wk'[g] = wk[g]
        BY <2>2 DEF Proceeds
      <3> QED
        BY <1>1, <1>2, <1>5, <2>1, <3>1, <3>2 DEF FileInv, Copies, store
    <2>12. Sweeps'
      BY <1>1, <2>2, <2>4, SweepsKept DEF ObjectsGo, store
    <2> QED
      BY <2>5, <2>6, <2>7, <2>8, <2>9, <2>10, <2>11, <2>12 DEF FileInv
  <1> QED
    BY <1>3, <1>4, <1>5

\* A proposal takes the next number under the lock of the row of node.
LEMMA ProposeInv ==
    ASSUME FileInv, NEW h \in Handlers, Propose(h)
    PROVE  FileInv'
  <1> DEFINE x == Version(NextNumber, wk[h].sha, TRUE, Nothing)
  <1>1. /\ UNCHANGED <<row, store, cur, nodes, sw, reqs, overlapped>> /\ wk[h].pc = "tx"
        /\ hist' = hist \cup {x} /\ blob' = blob \cup {wk[h].sha} /\ Done(h)
    BY DEF Propose, counts, IsAt
  <1>2. wk[h].sha \in Contents /\ final[wk[h].sha] # Nothing
    BY <1>1 DEF FileInv, Requests, Request, Copies
  <1>3. /\ x \in VersionRow /\ x.ver = NextNumber /\ x.sha = wk[h].sha /\ x.by = Nothing /\ x.prop = TRUE
        /\ NextNumber \in Nat /\ \A v \in hist : v.ver # NextNumber
    <2>1. NextNumber \in Nat /\ \A v \in hist : v.ver # NextNumber
      BY NextNumberSound
    <2> QED
      BY <1>2, <2>1, FileAssumption DEF Version, VersionRow
  <1> HIDE DEF x
  <1>4. Proceeds(h) /\ wk'[h].pc = "idle"
    BY <1>1, DoneSound
  <1>5. Shapes' /\ Requests'
    BY <1>1, <1>2, <1>3, <1>4 DEF FileInv, Shapes, nodes, store, Proceeds
  <1>6. Numbers'
    <2>1. cur'.ver \in Nat /\ cur'.ver >= cur.ver
      BY <1>1 DEF FileInv, Shapes
    <2> QED
      BY <1>1, <1>3, <2>1, NumbersGrow
  <1>7. RowLocks'
    BY <1>1, <1>4, LocksKept DEF InTx
  <1>8. Outcomes'
    BY <1>1, <1>3, OthersVersion DEF nodes
  <1>9. Owned'
    BY <1>1, <1>4, OwnedKept
  <1>10. Copies'
    <2>1. \A g, k \in Handlers : g # k /\ wk'[g].u = wk'[k].u /\ wk'[g].u # Nothing => wk'[g].u \in overlapped
      BY <1>4, IdleWork DEF FileInv, Copies, Proceeds
    <2>2. \A g \in Handlers : wk'[g].pc # "idle" => wk'[g] = wk[g]
      BY <1>4 DEF Proceeds
    <2> QED
      BY <1>1, <1>2, <1>3, <2>1, <2>2 DEF FileInv, Copies, store
  <1>11. Sweeps'
    BY <1>1, <1>4, SweepsKept DEF RowsGo, ObjectsGo, store
  <1> QED
    BY <1>5, <1>6, <1>7, <1>8, <1>9, <1>10, <1>11 DEF FileInv

LEMMA ReissueInv ==
    ASSUME FileInv, NEW v \in hist, Reissue(v)
    PROVE  FileInv'
  <1> DEFINE x == Version(NextNumber, v.sha, FALSE, Nothing)
  <1>1. /\ UNCHANGED <<row, store, nodes, wk, sw, reqs, overlapped>>
        /\ cur' = [ver |-> NextNumber, sha |-> v.sha] /\ hist' = hist \cup {x} /\ blob' = blob \cup {v.sha}
    BY DEF Reissue, Edit
  <1>2. v.sha \in Contents /\ final[v.sha] # Nothing /\ cur.ver \in Nat
    BY DEF FileInv, Shapes, VersionRow, Copies
  <1>3. /\ x \in VersionRow /\ x.ver = NextNumber /\ x.sha = v.sha /\ x.by = Nothing /\ x.prop = FALSE
        /\ NextNumber \in Nat /\ NextNumber > cur.ver /\ \A y \in hist : y.ver # NextNumber
    <2>1. NextNumber \in Nat /\ NextNumber > cur.ver /\ \A y \in hist : y.ver # NextNumber
      BY NextNumberSound
    <2> QED
      BY <1>2, <2>1, FileAssumption DEF Version, VersionRow
  <1> HIDE DEF x
  <1>4. Shapes' /\ Requests'
    BY <1>1, <1>2, <1>3 DEF FileInv, Shapes, Requests, nodes, store
  <1>5. Numbers'
    <2>1. cur'.ver = NextNumber
      BY <1>1
    <2> QED
      BY <1>1, <1>2, <1>3, <2>1, NumbersGrow
  <1>6. RowLocks' /\ Owned' /\ Sweeps'
    BY <1>1 DEF FileInv, RowLocks, InTx, Owned, Node, Sweeps, nodes, store
  <1>7. Outcomes'
    BY <1>1, <1>3, OthersVersion DEF nodes
  <1>8. Copies'
    BY <1>1, <1>2, <1>3 DEF FileInv, Copies, store
  <1> QED
    BY <1>4, <1>5, <1>6, <1>7, <1>8 DEF FileInv

LEMMA RenameInv ==
    ASSUME FileInv, Rename
    PROVE  FileInv'
  <1>1. /\ UNCHANGED <<row, store, blob, hist, nodes, wk, sw, reqs, overlapped>>
        /\ cur' = [cur EXCEPT !.ver = @ + 1]
    BY DEF Rename, Edit
  <1>2. cur' \in [ver : Nat, sha : Contents] /\ cur'.ver = cur.ver + 1 /\ cur.ver \in Nat
    BY <1>1 DEF FileInv, Shapes
  <1>3. Shapes' /\ Requests'
    BY <1>1, <1>2 DEF FileInv, Shapes, Requests, nodes, store
  <1>4. Numbers'
    BY <1>1, <1>2 DEF FileInv, Numbers, Shapes, VersionRow
  <1>5. RowLocks' /\ Outcomes' /\ Owned' /\ Copies' /\ Sweeps'
    BY <1>1 DEF FileInv, RowLocks, InTx, Outcomes, ByUpload, FilesOf, Owned, Node, Copies, Sweeps, nodes, store
  <1> QED
    BY <1>3, <1>4, <1>5 DEF FileInv

-----------------------------------------------------------------------------
(* New requests, the client and the timer *)

\* A request begins: of an upload, whose row is there, or of an edit.
LEMMA BeginInv ==
    ASSUME FileInv, NEW h \in Handlers,
           \/ \E u \in Uploads : Begin(h, u)
           \/ \E c \in Saved : Save(h, "save", c) \/ Save(h, "propose", c)
    PROVE  FileInv'
  <1>1. UNCHANGED <<row, store, blob, file, nodes, sw>> /\ wk[h].pc = "idle"
    BY DEF Begin, Save, IsFree, IsAt
  <1>2. PICK w \in Work :
          /\ wk' = [wk EXCEPT ![h] = w] /\ Request(w) /\ w.pc \in {"copy", "probe"}
          /\ w.pc = "probe" => w.kind # "upload"
          /\ w.kind = "upload" =>
               /\ row[w.u].st # "none"
               /\ overlapped' = IF \E g \in Handlers : wk[g].u = w.u THEN overlapped \cup {w.u} ELSE overlapped
          /\ w.kind # "upload" => overlapped' = overlapped
    <2>1. ASSUME NEW u \in Uploads, Begin(h, u)
          PROVE  \E w \in Work :
                  /\ wk' = [wk EXCEPT ![h] = w] /\ Request(w) /\ w.pc \in {"copy", "probe"}
                  /\ w.pc = "probe" => w.kind # "upload"
                  /\ w.kind = "upload" =>
                       /\ row[w.u].st # "none"
                       /\ overlapped' = IF \E g \in Handlers : wk[g].u = w.u THEN overlapped \cup {w.u} ELSE overlapped
                  /\ w.kind # "upload" => overlapped' = overlapped
      <3> DEFINE w == [Idle EXCEPT !.pc = "copy", !.kind = "upload", !.u = u,
                                   !.new = row[u].new, !.n = reqs[u] + 1, !.sha = Declared[u]]
      <3>1. row[u].new \in BOOLEAN /\ reqs[u] + 1 \in Nat /\ Declared[u] \in Contents
        BY FileAssumption DEF FileInv, Shapes, Row
      <3>2. w \in Work /\ w.pc = "copy" /\ w.kind = "upload" /\ w.u = u /\ w.sha = Declared[u]
        BY <3>1 DEF Idle, Work, Pcs
      <3>3. wk' = [wk EXCEPT ![h] = w] /\ row[u].st # "none"
            /\ overlapped' = IF \E g \in Handlers : wk[g].u = u THEN overlapped \cup {u} ELSE overlapped
        BY <2>1 DEF Begin, Visible
      <3> HIDE DEF w
      <3>4. Request(w)
        BY <3>1, <3>2 DEF Request
      <3> QED
        BY <3>2, <3>3, <3>4
    <2>2. ASSUME NEW c \in Saved, NEW kind \in {"save", "propose"}, Save(h, kind, c)
          PROVE  \E w \in Work :
                  /\ wk' = [wk EXCEPT ![h] = w] /\ Request(w) /\ w.pc \in {"copy", "probe"}
                  /\ w.pc = "probe" => w.kind # "upload"
                  /\ w.kind # "upload" /\ overlapped' = overlapped
      <3> DEFINE w == [Idle EXCEPT !.pc = "probe", !.kind = kind, !.sha = c]
      <3>1. c \in Contents
        BY FileAssumption
      <3>2. w \in Work /\ w.pc = "probe" /\ w.kind = kind /\ w.u = Nothing /\ w.sha = c /\ w.new = FALSE
        BY <3>1 DEF Idle, Work, Pcs
      <3>3. wk' = [wk EXCEPT ![h] = w] /\ overlapped' = overlapped
        BY <2>2 DEF Save, Edit
      <3> HIDE DEF w
      <3>4. Request(w)
        BY <3>1, <3>2 DEF Request, OfUpload
      <3> QED
        BY <3>2, <3>3, <3>4
    <2> QED
      BY <2>1, <2>2
  <1>3. wk'[h] = w /\ (\A g \in Handlers : g # h => wk'[g] = wk[g]) /\ wk' \in [Handlers -> Work]
    BY <1>2 DEF FileInv, Shapes
  <1>4. reqs' \in [Uploads -> Nat]
    <2>1. ASSUME NEW u \in Uploads, Begin(h, u) PROVE reqs' \in [Uploads -> Nat]
      <3>1. reqs \in [Uploads -> Nat] /\ reqs[u] + 1 \in Nat
        BY DEF FileInv, Shapes
      <3>2. reqs' = [reqs EXCEPT ![u] = reqs[u] + 1]
        BY <2>1 DEF Begin
      <3> QED
        BY <3>1, <3>2
    <2>2. ASSUME NEW c \in Saved, NEW kind \in {"save", "propose"}, Save(h, kind, c) PROVE reqs' \in [Uploads -> Nat]
      BY <2>2 DEF Save, Edit, FileInv, Shapes
    <2> QED
      BY <2>1, <2>2
  <1>5. Shapes' /\ Numbers' /\ Outcomes'
    BY <1>1, <1>3, <1>4 DEF FileInv, Shapes, Numbers, Outcomes, ByUpload, FilesOf, file, nodes, store
  <1>6. Requests'
    BY <1>2, <1>3 DEF FileInv, Requests
  <1>7. RowLocks' /\ Owned'
    <2>1. \A g \in Handlers : (InTx(g)' <=> InTx(g)) /\ (InTx(g) => wk'[g] = wk[g])
      BY <1>1, <1>2, <1>3 DEF InTx
    <2> QED
      BY <1>1, <2>1 DEF FileInv, RowLocks, Owned, Node, InTx, nodes
  <1>8. Copies'
    <2>1. overlapped \subseteq overlapped'
      BY <1>2
    <2>2. \A g, k \in Handlers : g # k /\ wk'[g].u = wk'[k].u /\ wk'[g].u # Nothing => wk'[g].u \in overlapped'
      <3> SUFFICES ASSUME NEW g \in Handlers, NEW k \in Handlers, g # k, wk'[g].u = wk'[k].u, wk'[g].u # Nothing
                   PROVE  wk'[g].u \in overlapped'
        OBVIOUS
      <3>1. CASE g # h /\ k # h
        BY <1>3, <2>1, <3>1 DEF FileInv, Copies
      <3>2. CASE g = h \/ k = h
        <4>1. w.kind = "upload"
          BY <1>2, <1>3, <3>2 DEF Request
        <4>2. \E i \in Handlers : wk[i].u = w.u
          BY <1>3, <3>2
        <4> QED
          BY <1>2, <1>3, <3>2, <4>1, <4>2
      <3> QED
        BY <3>1, <3>2
    <2>3. \A g \in Handlers : wk'[g].pc \in {"probe", "promote"} /\ wk'[g].kind = "upload" => wk'[g] = wk[g]
      BY <1>2, <1>3
    <2>4. \A g \in Handlers : wk'[g].pc \in {"tx", "commit", "tuples", "publish"} => wk'[g] = wk[g]
      BY <1>2, <1>3
    <2> QED
      BY <1>1, <2>1, <2>2, <2>3, <2>4 DEF FileInv, Copies, store, file
  <1>9. Sweeps'
    BY <1>1, <1>2, <1>3 DEF FileInv, Sweeps, store
  <1> QED
    BY <1>5, <1>6, <1>7, <1>8, <1>9 DEF FileInv

LEMMA DeclareInv ==
    ASSUME FileInv, NEW u \in Uploads, Declare(u)
    PROVE  FileInv'
  <1>1. UNCHANGED <<store, blob, file, nodes, wk, sw, reqs, overlapped>> /\ row[u].st = "none"
    BY DEF Declare, counts
  <1>2. PICK new \in BOOLEAN, b \in {0, cur.ver} : row' = [row EXCEPT ![u] = [st |-> "open", new |-> new, base |-> b]]
    BY DEF Declare
  <1>3. row' \in [Uploads -> Row] /\ row'[u].st = "open" /\ \A x \in Uploads : x # u => row'[x] = row[x]
    BY <1>2 DEF FileInv, Shapes, Row
  <1>4. Shapes' /\ Requests' /\ Numbers' /\ Owned' /\ Copies'
    BY <1>1, <1>3 DEF FileInv, Shapes, Requests, Numbers, Owned, Node, Copies, file, nodes, store
  <1>5. RowLocks'
    BY <1>1, <1>3 DEF FileInv, RowLocks, InTx
  <1>6. Outcomes'
    BY <1>1, <1>3 DEF FileInv, Outcomes, ByUpload, FilesOf, file, nodes
  <1>7. Sweeps'
    BY <1>1, <1>3 DEF FileInv, Sweeps, store, Requests, Request, Shapes
  <1> QED
    BY <1>4, <1>5, <1>6, <1>7 DEF FileInv

LEMMA PutInv ==
    ASSUME FileInv, NEW u \in Uploads, NEW c \in Contents, Put(u, c)
    PROVE  FileInv'
  <1>1. /\ UNCHANGED <<row, incoming, final, blob, file, nodes, wk, sw, reqs, overlapped>> /\ row[u].st # "none"
        /\ staging' = [staging EXCEPT ![u] = c]
    BY DEF Put
  <1>2. staging' \in [Uploads -> Contents \cup {Nothing}] /\ \A x \in Uploads : x # u => staging'[x] = staging[x]
    BY <1>1 DEF FileInv, Shapes
  <1>3. Shapes' /\ Requests' /\ Numbers' /\ Owned' /\ Copies'
    BY <1>1, <1>2 DEF FileInv, Shapes, Requests, Numbers, Owned, Node, Copies, file, nodes
  <1>4. RowLocks' /\ Outcomes'
    BY <1>1 DEF FileInv, RowLocks, InTx, Outcomes, ByUpload, FilesOf, file, nodes
  <1>5. Sweeps'
    BY <1>1, <1>2 DEF FileInv, Sweeps
  <1> QED
    BY <1>3, <1>4, <1>5 DEF FileInv

\* The timer: rows expire, and objects go whose row is gone.
LEMMA TimerInv ==
    ASSUME FileInv, Timer
    PROVE  /\ FileInv'
           /\ \A u \in Uploads : Visible(u) /\ row'[u] = row[u] => staging'[u] = staging[u] /\ incoming'[u] = incoming[u]
  <1>1. UNCHANGED <<final, blob, file, nodes, wk, reqs, overlapped>>
    BY DEF Timer, Expire, Discard, FindOrphans, Delete, DeleteFails, counts, store
  <1>2. /\ row' \in [Uploads -> Row] /\ RowsGo
        /\ \A u \in Uploads : row'[u].st = "locked" <=> row[u].st = "locked"
    <2>1. CASE Expire
      <3>1. PICK S \in SUBSET {u \in Uploads : row[u].st = "open"} :
                row' = [u \in Uploads |-> IF u \in S THEN Gone ELSE row[u]]
        BY <2>1 DEF Expire
      <3> QED
        BY <3>1 DEF FileInv, Shapes, Row, Gone, RowsGo
    <2>2. CASE UNCHANGED row
      BY <2>2 DEF FileInv, Shapes, RowsGo
    <2> QED
      BY <2>1, <2>2 DEF Timer, Discard, FindOrphans, Delete, DeleteFails
  <1>3. \A u \in Uploads : (Objects[u] # Nothing /\ ~Visible(u)) => row[u].st = "gone"
    BY DEF Objects, Visible, FileInv, Sweeps, Shapes, Row
  <1>4. sw'.keys \subseteq Uploads /\ (sw'.pc \in {"discard", "delete"} => \A u \in sw'.keys : row'[u].st = "gone")
    <2>1. CASE Expire
      BY <2>1 DEF Expire, SweepGoto, Gone
    <2>2. CASE Discard
      BY <2>2 DEF Discard, SweepGoto
    <2>3. CASE FindOrphans
      BY <1>3, <2>3 DEF FindOrphans, SweepGoto, SweepOn, Cycle
    <2>4. CASE Delete \/ DeleteFails
      BY <2>4 DEF Delete, DeleteFails, SweepGoto, SweepOn, Cycle
    <2> QED
      BY <2>1, <2>2, <2>3, <2>4 DEF Timer
  <1>5. /\ staging' \in [Uploads -> Contents \cup {Nothing}] /\ incoming' \in [Uploads -> Contents \cup {Nothing}]
        /\ ObjectsGo
        /\ \A u \in Uploads : row[u].st # "gone" => staging'[u] = staging[u] /\ incoming'[u] = incoming[u]
    <2>1. CASE UNCHANGED <<staging, incoming>>
      BY <2>1 DEF FileInv, Shapes, ObjectsGo
    <2>2. CASE /\ sw.pc \in {"discard", "delete"}
               /\ staging' \in {staging, Removed(staging, sw.keys)} /\ incoming' \in {incoming, Removed(incoming, sw.keys)}
      BY <2>2 DEF FileInv, Shapes, ObjectsGo, Removed, Sweeps
    <2> QED
      BY <2>1, <2>2 DEF Timer, Expire, Discard, FindOrphans, Delete, DeleteFails, store
  <1>6. Shapes' /\ Requests' /\ Numbers' /\ Owned'
    BY <1>1, <1>2, <1>4, <1>5 DEF FileInv, Shapes, Requests, Numbers, Owned, Node, file, nodes
  <1>7. RowLocks'
    BY <1>1, <1>2 DEF FileInv, RowLocks, InTx
  <1>8. Outcomes'
    BY <1>1, <1>2, OutcomesKept DEF file, nodes, RowsGo
  <1>9. Copies'
    BY <1>1, <1>5 DEF FileInv, Copies, ObjectsGo, file, Requests, Request
  <1>10. Sweeps'
    BY <1>1, <1>2, <1>4, <1>5 DEF FileInv, Sweeps, RowsGo, ObjectsGo, Requests, Request
  <1>11. \A u \in Uploads : Visible(u) => row[u].st # "gone"
    BY DEF Visible
  <1> QED
    BY <1>5, <1>6, <1>7, <1>8, <1>9, <1>10, <1>11 DEF FileInv

LEMMA StutterInv ==
    ASSUME FileInv, UNCHANGED vars
    PROVE  FileInv'
  <1>1. UNCHANGED <<row, staging, incoming, final, blob, cur, hist, files, owned, lost, wk, sw, reqs, overlapped>>
    BY DEF vars, store, file, nodes, counts
  <1>2. Shapes' /\ Requests' /\ Numbers' /\ RowLocks'
    BY <1>1 DEF FileInv, Shapes, Requests, Numbers, RowLocks, InTx
  <1>3. Outcomes' /\ Owned' /\ Copies' /\ Sweeps'
    BY <1>1 DEF FileInv, Outcomes, ByUpload, FilesOf, Owned, Node, Copies, Sweeps
  <1> QED
    BY <1>2, <1>3 DEF FileInv

LEMMA NextInv == FileInv /\ [Next]_vars => FileInv'
  <1> SUFFICES ASSUME FileInv, [Next]_vars PROVE FileInv'
    OBVIOUS
  <1>1. ASSUME NEW u \in Uploads, Declare(u) \/ \E c \in Contents : Put(u, c) PROVE FileInv'
    BY <1>1, DeclareInv, PutInv
  <1>2. ASSUME NEW h \in Handlers, NEW u \in Uploads, Begin(h, u) PROVE FileInv'
    BY <1>2, BeginInv
  <1>3. ASSUME NEW h \in Handlers, Handler(h) PROVE FileInv'
    BY <1>3, QuietInv, CopyInInv, PromoteInv, ReserveInv, WriteTuplesInv, PublishInv, CommitInv, ProposeInv, UnrowInv
       DEF Handler
  <1>4. ASSUME NEW h \in Handlers, PromoteFails(h) \/ PublishLost(h) \/ TxFails(h) \/ Drop(h) PROVE FileInv'
    BY <1>4, QuietInv, PublishInv, FailureInv
  <1>5. ASSUME NEW h \in Handlers, NEW c \in Saved, Save(h, "save", c) \/ Save(h, "propose", c) PROVE FileInv'
    BY <1>5, BeginInv
  <1>6. ASSUME NEW v \in hist, Reissue(v) PROVE FileInv'
    BY <1>6, ReissueInv
  <1>7. CASE Rename
    BY <1>7, RenameInv
  <1>8. CASE Timer
    BY <1>8, TimerInv
  <1>9. CASE UNCHANGED vars
    BY <1>9, StutterInv
  <1> QED
    BY <1>1, <1>2, <1>3, <1>4, <1>5, <1>6, <1>7, <1>8, <1>9 DEF Next

-----------------------------------------------------------------------------
(* The theorems *)

\* Rows of uploads, objects, versions, files, requests in progress and the keys of the timer
\* stay consistent with one another, for any number of each (finalize_upload, upload_gc).
THEOREM FileInvariant == Spec => []FileInv
  <1> QED
    BY InitInv, NextInv, PTL DEF Spec

\* What a row of blob points to is stored and has the content whose hash it is, unless two
\* requests finalised an upload of that content at once (copy to incoming, read_and_hash,
\* promotion before the commit).
THEOREM ContentsAuthentic == Spec => []Authentic
  <1>1. FileInv => Authentic
    BY DEF FileInv, Copies, Shapes, Authentic
  <1> QED
    BY <1>1, FileInvariant, PTL

LEMMA AtMostOne ==
    ASSUME NEW S, \A a, b \in S : a = b
    PROVE  Cardinality(S) \in {0, 1} /\ (S = {} => Cardinality(S) = 0)
  <1>1. CASE S = {}
    BY <1>1, FS_EmptySet
  <1>2. CASE S # {}
    <2>1. PICK a : S = {a}
      BY <1>2
    <2> QED
      BY <1>2, <2>1, FS_Singleton
  <1> QED
    BY <1>1, <1>2

\* However often, and by however many requests at once, an upload is finalised, it becomes one
\* version or one file (the DELETE of pending_upload inside the transaction).
THEOREM UploadedOnce == Spec => []OneVersionEach
  <1>1. FileInv => TypeOK
    BY DEF FileInv, TypeOK, Shapes, Row, VersionRow, Numbers, RowLocks, InTx
  <1>2. FileInv => \A u \in Uploads : Cardinality({v \in hist : v.by = u}) + Cardinality({f \in files : f[1] = u}) <= 1
    <2> SUFFICES ASSUME FileInv, NEW u \in Uploads
                 PROVE  Cardinality(ByUpload(u)) + Cardinality(FilesOf(u)) <= 1
      BY DEF ByUpload, FilesOf
    <2>1. Cardinality(ByUpload(u)) \in {0, 1} /\ Cardinality(FilesOf(u)) \in {0, 1}
      BY AtMostOne DEF FileInv, Outcomes
    <2>2. Cardinality(ByUpload(u)) = 0 \/ Cardinality(FilesOf(u)) = 0
      BY AtMostOne DEF FileInv, Outcomes
    <2> QED
      BY <2>1, <2>2
  <1>3. FileInv => OneVersionEach
    BY <1>1, <1>2 DEF OneVersionEach
  <1> QED
    BY <1>3, FileInvariant, PTL

\* A file that was created has its owner in OpenFGA, unless the answer of the commit was lost
\* (finalize_upload's order and compensation).
THEOREM OwnersKept == Spec => []OwnerKept
  <1>1. FileInv => OwnerKept
    BY DEF FileInv, Owned, OwnerKept
  <1> QED
    BY <1>1, FileInvariant, PTL

\* The timer never takes the objects of an upload that can still be finalised
\* (sweep_expired_pending_uploads, sweep_orphans_under), whatever requests do at the same time.
THEOREM SweepSparesUploads == Spec => SweepSpares
  <1>1. ASSUME FileInv, [Next]_vars, sw' # sw
        PROVE  \A u \in Uploads : Visible(u) /\ row'[u] = row[u] => staging'[u] = staging[u] /\ incoming'[u] = incoming[u]
    <2>1. Timer
      BY <1>1 DEF vars, Next, Declare, Put, Begin, Handler, CopyIn, Hash, Probe, Promote, Reserve, WriteTuples, Publish,
                  Snapshot, Commit, Refused, Propose, Scrap, Unrow, Clean, PromoteFails, PublishLost, TxFails, Drop,
                  Save, Reissue, Rename
    <2> QED
      BY <1>1, <2>1, TimerInv
  <1>2. FileInv /\ [Next]_vars =>
          [sw' # sw => \A u \in Uploads :
              Visible(u) /\ row'[u] = row[u] => staging'[u] = staging[u] /\ incoming'[u] = incoming[u]]_vars
    BY <1>1
  <1> QED
    BY <1>2, FileInvariant, PTL DEF Spec, SweepSpares

\* The primary key of node_version refuses an update only for the number of a proposal,
\* whatever updates, proposals, restored versions and renames interleave
\* (NEXT_CONTENT_VERSION).
THEOREM CollisionsWithProposals == Spec => OnlyProposalsCollide
  <1>1. ASSUME FileInv, [Next]_vars, NEW h \in Handlers, IsAt(h, "commit"), wk'[h].pc = "refused"
        PROVE  \E v \in hist : v.ver = Number(h) /\ v.prop
    <2>1. wk \in [Handlers -> Work] /\ wk[h].pc = "commit" /\ wk' # wk
      BY <1>1 DEF FileInv, Shapes, IsAt
    <2>2. ASSUME NEW g \in Handlers, NEW w, wk' = [wk EXCEPT ![g] = w] PROVE g = h
      BY <1>1, <2>1, <2>2
    <2>3. ASSUME NEW g \in Handlers, (\E u \in Uploads : Begin(g, u)) \/ \E c \in Saved : Save(g, "save", c) \/ Save(g, "propose", c)
          PROVE  FALSE
      <3>1. wk[g].pc = "idle" /\ \E w : wk' = [wk EXCEPT ![g] = w]
        BY <2>3 DEF Begin, Save, IsFree, IsAt
      <3> QED
        BY <2>1, <2>2, <3>1
    <2>4. ASSUME NEW g \in Handlers, Handler(g) \/ PromoteFails(g) \/ PublishLost(g) \/ TxFails(g) \/ Drop(g) PROVE g = h
      <3>1. \E w : wk' = [wk EXCEPT ![g] = w]
        BY <2>4 DEF Handler, CopyIn, Hash, Probe, Promote, Reserve, WriteTuples, Publish,
                  Snapshot, Commit, Refused, Propose, Scrap, Unrow, Clean, PromoteFails, PublishLost, TxFails, Drop, Goto, Done
      <3> QED
        BY <2>2, <3>1
    <2>5. Handler(h) \/ PromoteFails(h) \/ PublishLost(h) \/ TxFails(h) \/ Drop(h)
      <3>1. ~Timer /\ ~Rename /\ (\A v \in hist : ~Reissue(v)) /\ \A u \in Uploads : ~Declare(u) /\ \A c \in Contents : ~Put(u, c)
        BY <2>1 DEF Timer, Expire, Discard, FindOrphans, Delete, DeleteFails, Rename, Reissue, Declare, Put
      <3>2. \E g \in Handlers : Handler(g) \/ PromoteFails(g) \/ PublishLost(g) \/ TxFails(g) \/ Drop(g)
        BY <1>1, <2>1, <2>3, <3>1 DEF Next, vars
      <3> QED
        BY <2>4, <3>2
    <2>6. ~TxFails(h) /\ ~Drop(h)
      BY <1>1, <2>1 DEF TxFails, Drop, Goto, Done, Idle, Work
    <2>7. Commit(h)
      BY <2>1, <2>5, <2>6 DEF Handler, CopyIn, Hash, Probe, Promote, Reserve, WriteTuples, Publish,
                  Snapshot, Refused, Propose, Scrap, Unrow, Clean, PromoteFails, PublishLost, IsAt
    <2>8. Taken(Number(h))
      <3>1. ~Done(h) /\ ~Goto(h, "clean") /\ ~Goto(h, "idle") /\ ~Goto(h, "scrap")
        BY <1>1, <2>1 DEF Goto, Done, Idle, Work
      <3> QED
        BY <2>7, <3>1 DEF Commit
    <2> QED
      BY <1>1, <2>8, NumberSound DEF Taken, FileInv, Numbers, Shapes, VersionRow
  <1>2. FileInv /\ [Next]_vars =>
          [\A h \in Handlers : (IsAt(h, "commit") /\ wk'[h].pc = "refused") =>
              \E v \in hist : v.ver = Number(h) /\ v.prop]_vars
    BY <1>1
  <1> QED
    BY <1>2, FileInvariant, PTL DEF Spec, OnlyProposalsCollide
=============================================================================
