------------------------------ MODULE JobQueue ------------------------------
(***************************************************************************)
(* One queue of crates/jobq: its rows of job_queue and job_queue_dead, its *)
(* row of job_queue_vtime, the producers' open database transactions and   *)
(* the consumers' deliveries.                                              *)
(*                                                                         *)
(* Every statement of jobq names one queue (delete_tenant alone spans      *)
(* them), so queues do not interact and one is modelled.  Time is          *)
(* abstracted: visible_at <= now() is the Boolean field "visible", cleared *)
(* by whatever moves visible_at into the future and set by VisibleAgain at *)
(* any later moment.                                                       *)
(***************************************************************************)
EXTENDS Integers, FiniteSets

CONSTANTS
    Tenants,        \* tenant_id values
    Payloads,       \* payload values
    Producers,      \* database transactions that can be open at a time
    Consumers,      \* consumer loops (claim a batch, settle it, loop)
    MaxAttempts,    \* max_attempts of every job of this queue
    Limit,          \* the limit argument of claim
    MaxJobs,        \* bound: ids the sequence hands out
    MaxDeliveries   \* bound: deliveries of one job that may time out or be retried

ASSUME QueueAssumption ==
    /\ MaxAttempts \in Nat \ {0} /\ Limit \in Nat \ {0}
    /\ MaxJobs \in Nat \ {0} /\ MaxDeliveries \in Nat \ {0}
    /\ Tenants # {} /\ Payloads # {}
    /\ IsFiniteSet(Consumers)

Ids == 1..MaxJobs
NoId == 0
Row == [tenant : Tenants, payload : Payloads, attempts : Nat, fair_seq : Nat,
        visible : BOOLEAN]

VARIABLES
    place,     \* where the row of an id is: none, tx (not committed), queue, dead
    row,       \* its columns
    next_id,   \* the sequence behind job_queue.id
    vt,        \* job_queue_vtime.vt; 0 while the row does not exist (coalesce(.., 0))
    tx,        \* producer -> the rows its open transaction inserted, the row it locked
    held       \* consumer -> jobs it claimed and has not settled

vars == <<place, row, next_id, vt, tx, held>>

NewRow(t, w, n) ==
    [tenant |-> t, payload |-> w, attempts |-> 0, fair_seq |-> n, visible |-> TRUE]
NoRow == NewRow(CHOOSE t \in Tenants : TRUE, CHOOSE w \in Payloads : TRUE, 0)
NoTx == [rows |-> {}, lock |-> NoId]

Init ==
    /\ place = [i \in Ids |-> "none"]
    /\ row = [i \in Ids |-> NoRow]
    /\ next_id = 1
    /\ vt = 0
    /\ tx = [p \in Producers |-> NoTx]
    /\ held = [c \in Consumers |-> {}]

-----------------------------------------------------------------------------
(* Helpers *)

Queued == {i \in Ids : place[i] = "queue"}
Locked == {i \in Ids : \E p \in Producers : tx[p].lock = i}
Work(i) == <<row[i].tenant, row[i].payload>>

\* The rows a statement sees in a transaction that inserted "own" (READ COMMITTED).
Seen(own) == Queued \cup own

(* fair_seq_expr!: n is the start tag of the tenant's next job, the greater  *)
(* of its largest fair_seq in the queue + 1 and the queue's virtual time.    *)
IsFairSeq(t, own, n) ==
    LET mine == {row[i].fair_seq + 1 : i \in {j \in Seen(own) : row[j].tenant = t}}
    IN  /\ n \in mine \cup {vt}
        /\ \A m \in mine \cup {vt} : m <= n

\* The order of claim: ORDER BY fair_seq, id.
Before(i, j) == \/ row[i].fair_seq < row[j].fair_seq
                \/ row[i].fair_seq = row[j].fair_seq /\ i < j

\* Faulty variant: claim waits for nobody's lock and skips nobody's row.
Claimable_locked == {i \in Queued : row[i].visible}

\* The rows claim may pick: visible and locked by no transaction (SKIP LOCKED).
Claimable == {i \in Queued \ Locked : row[i].visible}

\* The rows of S leave the queue: deleted, or moved to the dead-letter table.
\* What the job is stays known, to that table or to a consumer that claimed it.
Remove(S, where) ==
    /\ place' = [i \in Ids |-> IF i \in S THEN where ELSE place[i]]
    /\ row' = [i \in Ids |-> IF i \in S THEN NewRow(row[i].tenant, row[i].payload, 0)
                                         ELSE row[i]]

-----------------------------------------------------------------------------
(* Producers: a domain transaction that enqueues, then commits or aborts *)

\* enqueue_on: insert a row that stays invisible to others until commit.
Insert(own, t, w, n) ==
    /\ next_id \in Ids
    /\ IsFairSeq(t, own, n)
    /\ row' = [row EXCEPT ![next_id] = NewRow(t, w, n)]
    /\ next_id' = next_id + 1

Enqueue(p, t, w, n) ==
    /\ Insert(tx[p].rows, t, w, n)
    /\ place' = [place EXCEPT ![next_id] = "tx"]
    /\ tx' = [tx EXCEPT ![p].rows = @ \cup {next_id}]
    /\ UNCHANGED <<vt, held>>

\* Faulty variant: any queued job with these contents counts as pending.
Pending_started(p, t, w) ==
    {i \in Seen(tx[p].rows) : /\ Work(i) = <<t, w>>
                              /\ \A q \in Producers \ {p} : tx[q].lock # i}

\* What the SELECT .. FOR UPDATE SKIP LOCKED of enqueue_unless_pending_on can
\* return: an unstarted job with the same contents, not locked by others.
Pending(p, t, w) ==
    {i \in Seen(tx[p].rows) : /\ Work(i) = <<t, w>> /\ row[i].attempts = 0
                              /\ \A q \in Producers \ {p} : tx[q].lock # i}

\* enqueue_unless_pending_on finds a pending job and keeps it locked until
\* the transaction ends.  (Bound: one such call per transaction.)
SkipPending(p, t, w) ==
    /\ tx[p].lock = NoId
    /\ \E i \in Pending(p, t, w) : tx' = [tx EXCEPT ![p].lock = i]
    /\ UNCHANGED <<place, row, next_id, vt, held>>

\* enqueue_unless_pending_on finds none and enqueues.
EnqueueUnlessPending(p, t, w, n) ==
    /\ tx[p].lock = NoId
    /\ Pending(p, t, w) = {}
    /\ Enqueue(p, t, w, n)

EndTx(p) ==
    /\ tx[p] # NoTx
    /\ tx' = [tx EXCEPT ![p] = NoTx]
    /\ UNCHANGED <<next_id, vt, held>>

Commit(p) ==
    /\ EndTx(p)
    /\ place' = [i \in Ids |-> IF i \in tx[p].rows THEN "queue" ELSE place[i]]
    /\ UNCHANGED row

Rollback(p) == EndTx(p) /\ Remove(tx[p].rows, "none")

-----------------------------------------------------------------------------
(* Consumers *)

\* Faulty variant: the rows are picked without an order.
IsPicked_any(picked) == picked \subseteq Claimable /\ Cardinality(picked) = Limit

\* The materialized CTE "picked": the first Limit claimable rows.
IsPicked(picked) ==
    /\ picked \subseteq Claimable /\ picked # {}
    /\ \A i \in picked, j \in Claimable \ picked : Before(i, j)
    /\ \/ Cardinality(picked) = Limit
       \/ Cardinality(picked) < Limit /\ picked = Claimable

\* Faulty variant: vt advances to the start tag, not the finish tag.
AdvanceVt_start(picked) ==
    \E i \in picked :
       /\ \A j \in picked : row[j].fair_seq <= row[i].fair_seq
       /\ vt' = IF vt < row[i].fair_seq THEN row[i].fair_seq ELSE vt

\* Faulty variant: vt follows the claimed row even when that takes it back.
AdvanceVt_back(picked) == \E i \in picked : vt' = row[i].fair_seq + 1

\* vt advances to the largest claimed fair_seq + 1 and never goes back.
AdvanceVt(picked) ==
    \E i \in picked :
       /\ \A j \in picked : row[j].fair_seq <= row[i].fair_seq
       /\ vt' = IF vt < row[i].fair_seq + 1 THEN row[i].fair_seq + 1 ELSE vt

Claim(c, picked) ==
    /\ held[c] = {}
    /\ IsPicked(picked)
    /\ AdvanceVt(picked)
    /\ row' = [i \in Ids |-> IF i \in picked
                             THEN [row[i] EXCEPT !.attempts = @ + 1, !.visible = FALSE]
                             ELSE row[i]]
    /\ held' = [held EXCEPT ![c] = picked]
    /\ UNCHANGED <<place, next_id, tx>>

\* visible_at passes: a delivery timed out, a backoff or a delay is over.
VisibleAgain(i) ==
    /\ i \in Queued /\ ~row[i].visible /\ row[i].attempts < MaxDeliveries
    /\ row' = [row EXCEPT ![i].visible = TRUE]
    /\ UNCHANGED <<place, next_id, vt, tx, held>>

\* extend: the heartbeat of a consumer that still works on the job.
Extend(c, i) ==
    /\ i \in held[c] \cap Queued
    /\ row' = [row EXCEPT ![i].visible = FALSE]
    /\ UNCHANGED <<place, next_id, vt, tx, held>>

\* Settling a delivery ends it for the consumer, whatever became of the row.
Settle(c, i) ==
    /\ i \in held[c]
    /\ held' = [held EXCEPT ![c] = @ \ {i}]
    /\ UNCHANGED <<next_id, vt, tx>>

Ack(c, i) == Settle(c, i) /\ Remove({i} \cap Queued, "none")

Fail(c, i) ==
    /\ Settle(c, i)
    /\ \/ /\ row[i].attempts >= MaxAttempts
          /\ Remove({i} \cap Queued, "dead")
       \/ /\ row[i].attempts < MaxAttempts
          /\ row' = IF i \in Queued THEN [row EXCEPT ![i].visible = FALSE] ELSE row
          /\ UNCHANGED place

\* greatest(attempts - 1, 0): give back the attempt that claim took.
Defer(c, i) ==
    /\ Settle(c, i)
    /\ row' = IF i \in Queued
              THEN [row EXCEPT ![i].visible = FALSE, ![i].attempts = IF @ > 0 THEN @ - 1 ELSE 0]
              ELSE row
    /\ UNCHANGED place

Kill(c, i) == Settle(c, i) /\ Remove({i} \cap Queued, "dead")

\* The consumer's process dies: its deliveries are simply never settled.
Crash(c) ==
    /\ held[c] # {}
    /\ held' = [held EXCEPT ![c] = {}]
    /\ UNCHANGED <<place, row, next_id, vt, tx>>

-----------------------------------------------------------------------------
(* Operations *)

\* requeue_dead: a new row with a new id, a new start tag and no attempts.
RequeueDead(i, n) ==
    /\ place[i] = "dead" /\ next_id \in Ids
    /\ IsFairSeq(row[i].tenant, {}, n)
    /\ row' = [row EXCEPT ![next_id] = NewRow(row[i].tenant, row[i].payload, n)]
    /\ place' = [place EXCEPT ![i] = "none", ![next_id] = "queue"]
    /\ next_id' = next_id + 1
    /\ UNCHANGED <<vt, tx, held>>

\* delete_tenant; it waits for transactions that lock a row of the tenant.
Erased(t) == {i \in Ids : place[i] \in {"queue", "dead"} /\ row[i].tenant = t}
DeleteTenant(t) ==
    /\ Erased(t) # {} /\ Erased(t) \cap Locked = {}
    /\ Remove(Erased(t), "none")
    /\ UNCHANGED <<next_id, vt, tx, held>>

Tags == 0..MaxJobs

Next ==
    \/ \E p \in Producers, t \in Tenants, w \in Payloads :
          \/ SkipPending(p, t, w)
          \/ \E n \in Tags : Enqueue(p, t, w, n) \/ EnqueueUnlessPending(p, t, w, n)
    \/ \E p \in Producers : Commit(p) \/ Rollback(p)
    \/ \E c \in Consumers : Crash(c) \/ \E picked \in SUBSET Ids : Claim(c, picked)
    \/ \E i \in Ids : VisibleAgain(i) \/ \E n \in Tags : RequeueDead(i, n)
    \/ \E c \in Consumers, i \in Ids :
          Extend(c, i) \/ Ack(c, i) \/ Fail(c, i) \/ Defer(c, i) \/ Kill(c, i)
    \/ \E t \in Tenants : DeleteTenant(t)

Spec == Init /\ [][Next]_vars

-----------------------------------------------------------------------------
(* Properties *)

\* The tables, the transactions and the deliveries have their shapes.
TypeOK ==
    /\ place \in [Ids -> {"none", "tx", "queue", "dead"}]
    /\ row \in [Ids -> Row]
    /\ next_id \in 1..(MaxJobs + 1)
    /\ vt \in Nat
    /\ tx \in [Producers -> [rows : SUBSET Ids, lock : Ids \cup {NoId}]]
    /\ held \in [Consumers -> SUBSET Ids]

Holders(i) == {c \in Consumers : i \in held[c]}

(* attempts (claim +1, defer -1, nothing else) never falls below the         *)
(* number of consumers still working on the job, however many deliveries     *)
(* timed out: so "attempts = 0", which enqueue_unless_pending_on takes for   *)
(* "not started", does mean that nobody works on the job.                    *)
HoldersCounted == \A i \in Queued : Cardinality(Holders(i)) <= row[i].attempts

(* A job locked by enqueue_unless_pending_on stays queued and unstarted      *)
(* until that transaction ends: no claim, ack, retry or erasure touches it.  *)
LockedStaysPending ==
    \A p \in Producers : tx[p].lock # NoId =>
       /\ place[tx[p].lock] = (IF tx[p].lock \in tx[p].rows THEN "tx" ELSE "queue")
       /\ row[tx[p].lock].attempts = 0

\* Ids the sequence has not handed out are not in use anywhere.
FreshIds ==
    \A i \in Ids : place[i] # "none" \/ Holders(i) # {} => i < next_id

\* Uncommitted rows belong to one transaction, are unstarted and unclaimed.
TxRowsPrivate ==
    \A p \in Producers : \A i \in tx[p].rows :
       /\ place[i] = "tx" /\ row[i].attempts = 0 /\ Holders(i) = {}
       /\ \A q \in Producers \ {p} : i \notin tx[q].rows

(* The inductive invariant behind HoldersCounted and LockedStaysPending.     *)
QueueInv == TypeOK /\ FreshIds /\ TxRowsPrivate /\ HoldersCounted /\ LockedStaysPending

(* NewJob.max_attempts: "the limit on delivery attempts; past it, the DLQ".  *)
AttemptsLimited == \A i \in Queued : row[i].attempts <= MaxAttempts
=============================================================================
