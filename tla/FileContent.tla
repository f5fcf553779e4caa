---------------------------- MODULE FileContent ----------------------------
(***************************************************************************)
(* The content of files (crates/storage/src/service): the upload in two    *)
(* phases through the object store (begin_upload, the client's PUT,        *)
(* finalize_upload), content stored under its hash and shared, the         *)
(* versions of a file with proposals among them, and the timer that        *)
(* collects what interrupted uploads leave behind (upload_gc).             *)
(*                                                                         *)
(* Bytes and their hash are one model value.  There is one file whose      *)
(* content is replaced, and uploads that create files of their own.  A     *)
(* transaction is the action of its commit; what it reads before it waits  *)
(* for a lock, or holds while it calls another service, is an action       *)
(* before that.  Reference counts are the number of rows of hist.          *)
(***************************************************************************)
EXTENDS Integers, FiniteSets, FiniteSetsExt

CONSTANTS
    Uploads,
    Contents,
    Declared,     \* upload -> declared_sha256
    Original,     \* content of the file's first version
    Handlers,     \* requests that run at the same time
    Nothing,      \* no object, no upload
    MaxPuts,      \* bound: PUTs of an upload
    MaxRequests,  \* bound: finalize requests of an upload
    Saved,        \* contents that are saved or proposed by others
    MaxEdits      \* bound: saves, proposals, restored versions and renames

ASSUME FileAssumption ==
    /\ Handlers \subseteq Nat /\ Original \in Contents /\ Declared \in [Uploads -> Contents]
    /\ Nothing \notin Uploads \cup Contents
    /\ MaxPuts \in Nat /\ MaxRequests \in Nat /\ MaxEdits \in Nat /\ Saved \subseteq Contents

VARIABLES
    row,         \* upload -> its row of pending_upload: [st, new, base]
    staging,     \* upload -> object the client PUT
    incoming,    \* upload -> the server's copy of it
    final,       \* content -> object stored under that hash
    blob,        \* contents with a row in blob
    cur,         \* the file's row in node: [ver, sha]
    hist,        \* its rows in node_version: [ver, sha, prop, by]
    files,       \* nodes created by uploads: <<upload, request>>
    owned,       \* nodes with an owner tuple in OpenFGA
    wk,          \* handler -> what it is doing
    sw,          \* the timer: [pc, kind, keys]
    puts, reqs, edits,
    overlapped,  \* history: uploads of which two finalize requests ran at once
    lost         \* history: nodes whose commit succeeded but was answered by an error

store == <<staging, incoming, final>>
file == <<cur, hist>>
nodes == <<files, owned, lost>>
counts == <<puts, reqs, edits, overlapped>>
vars == <<row, store, blob, file, nodes, wk, sw, counts>>

Gone == [st |-> "gone", new |-> FALSE, base |-> 0]
Idle == [pc |-> "idle", kind |-> "none", u |-> Nothing, new |-> FALSE, n |-> 0, sha |-> Nothing, seen |-> 0]
Cycle == [pc |-> "ttl", kind |-> "staging", keys |-> {}]

Init ==
    /\ row = [u \in Uploads |-> [Gone EXCEPT !.st = "none"]]
    /\ staging = [u \in Uploads |-> Nothing] /\ incoming = [u \in Uploads |-> Nothing]
    /\ final = [c \in Contents |-> IF c = Original THEN c ELSE Nothing] /\ blob = {Original}
    /\ cur = [ver |-> 1, sha |-> Original]
    /\ hist = {[ver |-> 1, sha |-> Original, prop |-> FALSE, by |-> Nothing]}
    /\ files = {} /\ owned = {} /\ lost = {}
    /\ wk = [h \in Handlers |-> Idle] /\ sw = Cycle
    /\ puts = [u \in Uploads |-> 0] /\ reqs = [u \in Uploads |-> 0]
    /\ edits = 0 /\ overlapped = {}

IsAt(h, pc) == wk[h].pc = pc
Goto(h, pc) == wk' = [wk EXCEPT ![h].pc = pc]
Done(h) == wk' = [wk EXCEPT ![h] = Idle]
\* Requests have no names: a new one is the first that is free.
IsFree(h) == IsAt(h, "idle") /\ \A g \in Handlers : g < h => ~IsAt(g, "idle")
Visible(u) == row[u].st \in {"open", "locked"}
MaxRow == Max({v.ver : v \in hist})
NextNumber == Max({cur.ver, MaxRow}) + 1
Edit == edits < MaxEdits /\ edits' = edits + 1 /\ UNCHANGED <<puts, reqs, overlapped>>

-----------------------------------------------------------------------------
(* Declaration and upload *)

\* begin_upload_with_base, for a new file or for the file's content; base 0 is NULL.
Declare(u) ==
    /\ row[u].st = "none"
    /\ \E new \in BOOLEAN, b \in {0, cur.ver} :
          /\ new => b = 0
          /\ row' = [row EXCEPT ![u] = [st |-> "open", new |-> new, base |-> b]]
    /\ UNCHANGED <<store, blob, file, nodes, wk, sw, counts>>

\* The client's PUT to the presigned URL, of whatever bytes; one that began in time may end late.
Put(u, c) ==
    /\ row[u].st # "none" /\ puts[u] < MaxPuts
    /\ staging' = [staging EXCEPT ![u] = c] /\ puts' = [puts EXCEPT ![u] = @ + 1]
    /\ UNCHANGED <<row, incoming, final, blob, file, nodes, wk, sw, reqs, edits, overlapped>>

-----------------------------------------------------------------------------
(* finalize_upload *)

Begin(h, u) ==
    /\ IsFree(h) /\ Visible(u) /\ reqs[u] < MaxRequests
    /\ reqs' = [reqs EXCEPT ![u] = @ + 1]
    /\ wk' = [wk EXCEPT ![h] = [Idle EXCEPT !.pc = "copy", !.kind = "upload", !.u = u,
                                            !.new = row[u].new, !.n = reqs[u] + 1, !.sha = Declared[u]]]
    /\ overlapped' = IF \E g \in Handlers : wk[g].u = u THEN overlapped \cup {u} ELSE overlapped
    /\ UNCHANGED <<row, store, blob, file, nodes, sw, puts, edits>>

\* staging -> incoming; without a staged object the request is refused.
CopyIn(h) ==
    LET u == wk[h].u IN
    /\ IsAt(h, "copy")
    /\ IF staging[u] = Nothing THEN Done(h) /\ UNCHANGED incoming
       ELSE incoming' = [incoming EXCEPT ![u] = staging[u]] /\ Goto(h, "hash")
    /\ UNCHANGED <<row, staging, final, blob, file, nodes, sw, counts>>

\* read_and_hash, compared with the declaration.
Hash(h) ==
    LET got == incoming[wk[h].u] IN
    /\ IsAt(h, "hash")
    /\ \/ got = Nothing /\ Done(h)
       \/ got = wk[h].sha /\ Goto(h, "probe")
       \/ got \notin {Nothing, wk[h].sha} /\ Goto(h, "scrap")
    /\ UNCHANGED <<row, store, blob, file, nodes, sw, counts>>

\* Is there a row in blob?  Then the bytes are not stored again.
Probe(h) ==
    /\ IsAt(h, "probe")
    /\ Goto(h, IF wk[h].sha \in blob THEN "tx" ELSE "promote")
    /\ UNCHANGED <<row, store, blob, file, nodes, sw, counts>>

\* Faulty variant: the staged object is promoted, not the copy that was hashed.
Promote_staged(h) ==
    LET src == IF wk[h].kind = "upload" THEN staging[wk[h].u] ELSE wk[h].sha IN
    /\ IsAt(h, "promote")
    /\ IF src = Nothing THEN Done(h) /\ UNCHANGED final
       ELSE final' = [final EXCEPT ![wk[h].sha] = src] /\ Goto(h, "tx")
    /\ UNCHANGED <<row, staging, incoming, blob, file, nodes, sw, counts>>

\* incoming -> final, or the bytes of a save.
Promote(h) ==
    LET src == IF wk[h].kind = "upload" THEN incoming[wk[h].u] ELSE wk[h].sha IN
    /\ IsAt(h, "promote")
    /\ IF src = Nothing THEN Done(h) /\ UNCHANGED final
       ELSE final' = [final EXCEPT ![wk[h].sha] = src] /\ Goto(h, "tx")
    /\ UNCHANGED <<row, staging, incoming, blob, file, nodes, sw, counts>>

\* The copy fails: the request is refused, and incoming is removed.
PromoteFails(h) ==
    /\ IsAt(h, "promote") /\ wk[h].kind = "upload"
    /\ incoming' = [incoming EXCEPT ![wk[h].u] = Nothing] /\ Done(h)
    /\ UNCHANGED <<row, staging, final, blob, file, nodes, sw, counts>>

\* The DELETE of the pending row finds it; it waits for a transaction that has deleted it.
Claimable(u) == row[u].st = "open"

\* New file: the row of pending_upload is deleted, and stays locked until the transaction ends.
Reserve(h) ==
    LET u == wk[h].u IN
    /\ IsAt(h, "tx") /\ wk[h].new /\ row[u].st # "locked"
    /\ IF Claimable(u) THEN row' = [row EXCEPT ![u].st = "locked"] /\ Goto(h, "tuples")
       ELSE Goto(h, "scrap") /\ row' = row
    /\ UNCHANGED <<store, blob, file, nodes, sw, counts>>

Node(h) == <<wk[h].u, wk[h].n>>

\* The tuples of owner and parent are written before the commit.
WriteTuples(h) ==
    /\ IsAt(h, "tuples")
    /\ owned' = owned \cup {Node(h)} /\ Goto(h, "publish")
    /\ UNCHANGED <<row, store, blob, file, files, lost, sw, counts>>

\* Faulty variant: the tuples are revoked on the way out, whatever became of the commit.
Publish_revoke(h) ==
    /\ IsAt(h, "publish")
    /\ files' = files \cup {Node(h)} /\ blob' = blob \cup {wk[h].sha}
    /\ row' = [row EXCEPT ![wk[h].u] = Gone]
    /\ owned' \in {owned, owned \ {Node(h)}} /\ Goto(h, "clean")
    /\ UNCHANGED <<store, file, lost, sw, counts>>

\* The commit.
Publish(h) ==
    /\ IsAt(h, "publish")
    /\ files' = files \cup {Node(h)} /\ blob' = blob \cup {wk[h].sha}
    /\ row' = [row EXCEPT ![wk[h].u] = Gone]
    /\ Goto(h, "clean")
    /\ UNCHANGED <<store, file, owned, lost, sw, counts>>

\* The commit succeeds, the connection is lost: the tuples are revoked (or that fails too).
PublishLost(h) ==
    /\ IsAt(h, "publish")
    /\ files' = files \cup {Node(h)} /\ blob' = blob \cup {wk[h].sha} /\ lost' = lost \cup {Node(h)}
    /\ row' = [row EXCEPT ![wk[h].u] = Gone]
    /\ owned' \in {owned, owned \ {Node(h)}} /\ Goto(h, "scrap")
    /\ UNCHANGED <<store, file, sw, counts>>

\* The row is there again.  Tuples that stay behind are about a node that never was, and are
\* left out.
RolledBack(h) ==
    IF wk[h].pc \in {"tuples", "publish"}
    THEN row' = [row EXCEPT ![wk[h].u].st = "open"] /\ owned' = owned \ {Node(h)}
    ELSE UNCHANGED <<row, owned>>

\* A statement, a tuple or the commit fails.
TxFails(h) ==
    /\ wk[h].pc \in {"tx", "commit", "tuples", "publish"} /\ wk[h].kind = "upload"
    /\ RolledBack(h)
    /\ Goto(h, "scrap")
    /\ UNCHANGED <<store, blob, file, files, lost, sw, counts>>

\* Objects of an upload are deleted one by one; a call may fail.
Removed(obj, S) == [u \in Uploads |-> IF u \in S THEN Nothing ELSE obj[u]]

\* The end of a request that failed: the upload's objects, then its row.
Scrap(h) ==
    /\ IsAt(h, "scrap")
    /\ incoming' \in {incoming, Removed(incoming, {wk[h].u})}
    /\ staging' \in {staging, Removed(staging, {wk[h].u})}
    /\ Goto(h, "unrow")
    /\ UNCHANGED <<row, final, blob, file, nodes, sw, counts>>

Unrow(h) ==
    LET u == wk[h].u IN
    /\ IsAt(h, "unrow") /\ row[u].st # "locked"
    /\ row' \in {row, [row EXCEPT ![u] = Gone]}
    /\ Done(h)
    /\ UNCHANGED <<store, blob, file, nodes, sw, counts>>

\* The end of a request that succeeded.
Clean(h) ==
    /\ IsAt(h, "clean")
    /\ incoming' \in {incoming, Removed(incoming, {wk[h].u})}
    /\ staging' \in {staging, Removed(staging, {wk[h].u})}
    /\ Done(h)
    /\ UNCHANGED <<row, final, blob, file, nodes, sw, counts>>

\* The client disconnects and the handler is dropped, a call fails, or the process dies; while
\* it cleans up, this is the same as calls that fail.
Drop(h) ==
    /\ wk[h].pc \notin {"idle", "scrap", "unrow", "clean"} /\ Done(h)
    /\ RolledBack(h)
    /\ UNCHANGED <<store, blob, file, files, lost, sw, counts>>

-----------------------------------------------------------------------------
(* Versions *)

\* update_file_content_internal and propose_file_content_internal.
Save(h, kind, c) ==
    /\ IsFree(h) /\ Edit
    /\ wk' = [wk EXCEPT ![h] = [Idle EXCEPT !.pc = "probe", !.kind = kind, !.sha = c]]
    /\ UNCHANGED <<row, store, blob, file, nodes, sw>>

\* The UPDATE of node takes its snapshot, then waits for the row: the subquery of
\* NEXT_CONTENT_VERSION sees the rows of node_version that were committed by now.
Snapshot(h) ==
    /\ IsAt(h, "tx") /\ ~wk[h].new /\ wk[h].kind # "propose"
    /\ wk' = [wk EXCEPT ![h].pc = "commit", ![h].seen = MaxRow]
    /\ UNCHANGED <<row, store, blob, file, nodes, sw, counts>>

\* Faulty variant: the number follows the rows of the snapshot only.
Number_snapshot(h) == wk[h].seen + 1

\* NEXT_CONTENT_VERSION: node.version is read again once the row is locked.
Number(h) == Max({cur.ver, wk[h].seen}) + 1

Taken(n) == \E v \in hist : v.ver = n
Version(n, c, p, u) == [ver |-> n, sha |-> c, prop |-> p, by |-> u]

\* Faulty variant: rows_affected is not looked at.
Claims_any(h) == TRUE

Claims(h) == wk[h].u \in Uploads => Claimable(wk[h].u)

\* The row of pending_upload, the version the upload is based on, and the primary key of
\* node_version may each refuse the update.
Commit(h) ==
    LET u == wk[h].u
        failed == IF u = Nothing THEN "idle" ELSE "scrap"
        based == u \in Uploads => row[u].base \in {0, cur.ver} IN
    /\ IsAt(h, "commit")
    /\ \/ /\ Claims(h) /\ based /\ ~Taken(Number(h))
          /\ cur' = [ver |-> Number(h), sha |-> wk[h].sha]
          /\ hist' = hist \cup {Version(Number(h), wk[h].sha, FALSE, u)}
          /\ blob' = blob \cup {wk[h].sha}
          /\ row' = IF u = Nothing THEN row ELSE [row EXCEPT ![u] = Gone]
          /\ IF u = Nothing THEN Done(h) ELSE Goto(h, "clean")
       \/ /\ Claims(h) /\ based /\ Taken(Number(h))
          /\ Goto(h, "refused") /\ UNCHANGED <<row, blob, file>>
       \/ /\ ~(Claims(h) /\ based)
          /\ Goto(h, failed) /\ UNCHANGED <<row, blob, file>>
    /\ UNCHANGED <<store, nodes, sw, counts>>

Refused(h) ==
    /\ IsAt(h, "refused")
    /\ IF wk[h].u = Nothing THEN Done(h) ELSE Goto(h, "scrap")
    /\ UNCHANGED <<row, store, blob, file, nodes, sw, counts>>

\* The row of node is locked first, so the number comes from a later snapshot.
Propose(h) ==
    /\ IsAt(h, "tx") /\ wk[h].kind = "propose"
    /\ hist' = hist \cup {Version(NextNumber, wk[h].sha, TRUE, Nothing)}
    /\ blob' = blob \cup {wk[h].sha}
    /\ Done(h)
    /\ UNCHANGED <<row, store, cur, nodes, sw, counts>>

\* adopt_proposal_version; restore_version and revert_edit for other versions.
Reissue(v) ==
    /\ v \in hist /\ Edit
    /\ cur' = [ver |-> NextNumber, sha |-> v.sha]
    /\ hist' = hist \cup {Version(NextNumber, v.sha, FALSE, Nothing)}
    /\ blob' = blob \cup {v.sha}
    /\ UNCHANGED <<row, store, nodes, wk, sw>>

\* A change of name or place.
Rename ==
    /\ Edit /\ cur' = [cur EXCEPT !.ver = @ + 1]
    /\ UNCHANGED <<row, store, blob, hist, nodes, wk, sw>>

-----------------------------------------------------------------------------
(* The timer: spawn_upload_gc_timer *)

SweepGoto(pc, kind, keys) == sw' = [pc |-> pc, kind |-> kind, keys |-> keys]

\* sweep_expired_pending_uploads: the rows first (SKIP LOCKED), then their objects.  Any rows may
\* be past the TTL.
Expire ==
    \E S \in SUBSET {u \in Uploads : row[u].st = "open"} :
    /\ sw.pc = "ttl"
    /\ row' = [u \in Uploads |-> IF u \in S THEN Gone ELSE row[u]]
    /\ SweepGoto(IF S = {} THEN "find" ELSE "discard", "staging", S)
    /\ UNCHANGED <<store, blob, file, nodes, wk, counts>>

Discard ==
    /\ sw.pc = "discard"
    /\ \/ incoming' = Removed(incoming, sw.keys) /\ staging' = Removed(staging, sw.keys)
       \/ UNCHANGED <<incoming, staging>>
    /\ SweepGoto("find", "staging", {})
    /\ UNCHANGED <<row, final, blob, file, nodes, wk, counts>>

\* sweep_orphans_under.
Objects == IF sw.kind = "staging" THEN staging ELSE incoming
SweepOn == IF sw.kind = "staging" THEN SweepGoto("find", "incoming", {}) ELSE sw' = Cycle

\* Faulty variant: a row that a transaction is about to delete does not count.
FindOrphans_open ==
    LET orphans == {u \in Uploads : Objects[u] # Nothing /\ ~Claimable(u)} IN
    /\ sw.pc = "find"
    /\ IF orphans = {} THEN SweepOn ELSE SweepGoto("delete", sw.kind, orphans)
    /\ UNCHANGED <<row, store, blob, file, nodes, wk, counts>>

\* The keys are listed, then their rows looked for.  A row is older than its objects and does
\* not come back, so that both can be one step; the deletion is another.
FindOrphans ==
    LET orphans == {u \in Uploads : Objects[u] # Nothing /\ ~Visible(u)} IN
    /\ sw.pc = "find"
    /\ IF orphans = {} THEN SweepOn ELSE SweepGoto("delete", sw.kind, orphans)
    /\ UNCHANGED <<row, store, blob, file, nodes, wk, counts>>

\* Faulty variant: only staged objects are removed.
Delete_staged ==
    /\ sw.pc = "delete" /\ SweepOn
    /\ staging' = IF sw.kind = "staging" THEN Removed(staging, sw.keys) ELSE staging
    /\ UNCHANGED <<row, incoming, final, blob, file, nodes, wk, counts>>

Delete ==
    /\ sw.pc = "delete" /\ SweepOn
    /\ staging' = IF sw.kind = "staging" THEN Removed(staging, sw.keys) ELSE staging
    /\ incoming' = IF sw.kind = "incoming" THEN Removed(incoming, sw.keys) ELSE incoming
    /\ UNCHANGED <<row, final, blob, file, nodes, wk, counts>>

\* The deletion fails, or the process restarts.
DeleteFails ==
    /\ sw.pc = "delete" /\ SweepOn
    /\ UNCHANGED <<row, store, blob, file, nodes, wk, counts>>

-----------------------------------------------------------------------------
Handler(h) ==
    \/ CopyIn(h) \/ Hash(h) \/ Probe(h) \/ Promote(h) \/ Reserve(h) \/ WriteTuples(h) \/ Publish(h)
    \/ Snapshot(h) \/ Commit(h) \/ Refused(h) \/ Propose(h) \/ Scrap(h) \/ Unrow(h) \/ Clean(h)

Timer == Expire \/ Discard \/ FindOrphans \/ Delete \/ DeleteFails

Next ==
    \/ \E u \in Uploads : Declare(u) \/ \E c \in Contents : Put(u, c)
    \/ \E h \in Handlers, u \in Uploads : Begin(h, u)
    \/ \E h \in Handlers : Handler(h) \/ PromoteFails(h) \/ PublishLost(h) \/ TxFails(h) \/ Drop(h)
    \/ \E h \in Handlers, c \in Saved : Save(h, "save", c) \/ Save(h, "propose", c)
    \/ \E v \in hist : Reissue(v)
    \/ Rename \/ Timer

Spec == Init /\ [][Next]_vars

\* Requests end, in steps that are finitely many; the timer goes round, a row that stays grows
\* old, and a deletion that is tried for ever succeeds some time.
LiveSpec ==
    /\ Spec
    /\ WF_vars(\E h \in Handlers : Handler(h))
    /\ WF_vars(Timer)
    /\ SF_vars(Expire /\ row' # row)
    /\ SF_vars(Delete)
-----------------------------------------------------------------------------
(* Properties *)

(* Rows, objects and requests have their types, only a transaction in        *)
(* progress holds an upload's row, and hist has one row per number (the      *)
(* primary key of node_version).                                             *)
TypeOK ==
    /\ row \in [Uploads -> [st : {"none", "open", "locked", "gone"}, new : BOOLEAN, base : Nat]]
    /\ staging \in [Uploads -> Contents \cup {Nothing}] /\ incoming \in [Uploads -> Contents \cup {Nothing}]
    /\ final \in [Contents -> Contents \cup {Nothing}] /\ blob \subseteq Contents
    /\ cur \in [ver : Nat, sha : Contents]
    /\ \A v \in hist : v \in [ver : Nat, sha : Contents, prop : BOOLEAN, by : Uploads \cup {Nothing}]
    /\ \A v, x \in hist : v.ver = x.ver => v = x
    /\ files \subseteq Uploads \X Nat /\ owned \subseteq Uploads \X Nat /\ lost \subseteq files
    /\ \A u \in Uploads : row[u].st = "locked" <=> \E h \in Handlers : wk[h].u = u /\ wk[h].pc \in {"tuples", "publish"}
    /\ sw.keys \subseteq Uploads

(* What a row of blob points to is in the store, and has the content whose   *)
(* hash it is (copy to incoming, read_and_hash, promotion before the         *)
(* commit), whatever the client PUTs meanwhile, the timer removes and other  *)
(* uploads of the same content do.  Excepted is the content of an upload     *)
(* that was finalised by two requests at once.                               *)
Authentic ==
    \A c \in blob :
        /\ final[c] # Nothing
        /\ final[c] = c \/ \E u \in overlapped : Declared[u] = c

(* However often an upload is finalised, it becomes one version or one file  *)
(* (the DELETE of pending_upload inside the transaction).                    *)
OneVersionEach ==
    /\ TypeOK
    /\ \A u \in Uploads :
        Cardinality({v \in hist : v.by = u}) + Cardinality({f \in files : f[1] = u}) <= 1

(* A file that was created has its owner in OpenFGA, unless the answer of    *)
(* the commit was lost (finalize_upload's order and compensation).           *)
OwnerKept == files \ lost \subseteq owned

(* The timer never takes the objects of an upload that can still be          *)
(* finalised (sweep_expired_pending_uploads, sweep_orphans_under).           *)
SweepSpares ==
    [][sw' # sw => \A u \in Uploads :
          Visible(u) /\ row'[u] = row[u] => staging'[u] = staging[u] /\ incoming'[u] = incoming[u]]_vars

(* Updates that wait for one another get numbers that differ: the primary    *)
(* key of node_version refuses one only for the number of a proposal         *)
(* (NEXT_CONTENT_VERSION).                                                   *)
OnlyProposalsCollide ==
    [][\A h \in Handlers : (IsAt(h, "commit") /\ wk'[h].pc = "refused") =>
          \E v \in hist : v.ver = Number(h) /\ v.prop]_vars

(* Interrupted uploads leave nothing behind for good: rows expire, and       *)
(* objects without a row are found (upload_gc_timer).                        *)
UploadsSettle ==
    <>[](\A u \in Uploads : ~Visible(u) /\ staging[u] = Nothing /\ incoming[u] = Nothing)

-----------------------------------------------------------------------------
(* What the documentation says and the code does not keep *)

\* The copy in final always has the declared hash (finalize.rs, where it is promoted).
AuthenticStrict == \A c \in blob : final[c] = c

\* Numbers of versions never collide with those of proposals (service.rs,
\* propose_file_content_internal).
NoneRefused == \A h \in Handlers : ~IsAt(h, "refused")

\* After a failed commit database and OpenFGA agree (finalize_upload).
OwnerStrict == files \subseteq owned
=============================================================================
