--------------------------- MODULE JobQueueLedger ---------------------------
(***************************************************************************)
(* How crates/data uses enqueue_unless_pending_on (index/backfill.rs       *)
(* enqueue_op, stats/counters.rs enqueue_analyze): a transaction writes    *)
(* work into a ledger and asks for a job that re-reads the whole ledger,   *)
(* unless an unstarted one is already queued.                              *)
(***************************************************************************)
EXTENDS JobQueue

VARIABLES
    scanned,    \* consumer -> the jobs it holds whose ledger it has already read
    ledger,     \* <<tenant, payload>> with committed work no job has read yet
    written     \* producer -> ledger entries its open transaction wrote

ledgerVars == <<vars, scanned, ledger, written>>

LedgerInit ==
    /\ Init
    /\ scanned = [c \in Consumers |-> {}]
    /\ ledger = {}
    /\ written = [p \in Producers |-> {}]

\* A domain write and the call of enqueue_unless_pending_on in one transaction.
Write(p, t, w) ==
    /\ \/ SkipPending(p, t, w)
       \/ \E n \in Tags : EnqueueUnlessPending(p, t, w, n)
    /\ written' = [written EXCEPT ![p] = @ \cup {<<t, w>>}]
    /\ UNCHANGED <<scanned, ledger>>

LedgerCommit(p) ==
    /\ Commit(p)
    /\ ledger' = ledger \cup written[p]
    /\ written' = [written EXCEPT ![p] = {}]
    /\ UNCHANGED scanned

LedgerRollback(p) ==
    /\ Rollback(p)
    /\ written' = [written EXCEPT ![p] = {}]
    /\ UNCHANGED <<scanned, ledger>>

\* run_index_job: the job reads, and settles, the ledger it finds committed.
Scan(c, i) ==
    /\ i \in held[c] \ scanned[c]
    /\ scanned' = [scanned EXCEPT ![c] = @ \cup {i}]
    /\ ledger' = ledger \ {Work(i)}
    /\ UNCHANGED <<vars, written>>

\* Success is acknowledged after the ledger was read; errors come at any time.
LedgerSettle(c, i) ==
    /\ (i \in scanned[c] /\ Ack(c, i)) \/ Fail(c, i) \/ Defer(c, i) \/ Kill(c, i)
    /\ scanned' = [scanned EXCEPT ![c] = @ \ {i}]
    /\ UNCHANGED <<ledger, written>>

(* consume_index_job_once when the job used up its chunks before the ledger  *)
(* was read through: one transaction hands the rest to another job, found by *)
(* enqueue_unless_pending_on or enqueued by it, and acknowledges this one.   *)
Continue(c, i) ==
    LET done == {i} \cap Queued
        unstarted == {j \in Queued \ Locked : Work(j) = Work(i) /\ row[j].attempts = 0}
    IN  /\ i \in held[c] \ scanned[c]
        /\ held' = [held EXCEPT ![c] = @ \ {i}]
        /\ \/ unstarted # {} /\ Remove(done, "none") /\ UNCHANGED next_id
           \/ /\ unstarted = {} /\ next_id \in Ids
              /\ place' = [j \in Ids |-> IF j = next_id THEN "queue"
                                         ELSE IF j \in done THEN "none" ELSE place[j]]
              /\ \E n \in Tags :
                    /\ IsFairSeq(row[i].tenant, {}, n)
                    /\ row' = [row EXCEPT ![next_id] = NewRow(row[i].tenant, row[i].payload, n)]
              /\ next_id' = next_id + 1
        /\ UNCHANGED <<vt, tx, scanned, ledger, written>>

LedgerCrash(c) ==
    /\ Crash(c)
    /\ scanned' = [scanned EXCEPT ![c] = {}]
    /\ UNCHANGED <<ledger, written>>

\* Tenant erasure removes the tenant's ledger together with its jobs.
LedgerErase(t) ==
    /\ DeleteTenant(t)
    /\ ledger' = {k \in ledger : k[1] # t}
    /\ UNCHANGED <<scanned, written>>

\* The operations of the queue that do not touch the ledger.
QueueOnly ==
    /\ \/ \E c \in Consumers, picked \in SUBSET Ids : Claim(c, picked)
       \/ \E c \in Consumers, i \in Ids : Extend(c, i)
       \/ \E i \in Ids : VisibleAgain(i) \/ \E n \in Tags : RequeueDead(i, n)
    /\ UNCHANGED <<scanned, ledger, written>>

LedgerNext ==
    \/ \E p \in Producers, t \in Tenants, w \in Payloads : Write(p, t, w)
    \/ \E p \in Producers : LedgerCommit(p) \/ LedgerRollback(p)
    \/ \E c \in Consumers, i \in Ids : Scan(c, i) \/ LedgerSettle(c, i) \/ Continue(c, i)
    \/ \E c \in Consumers : LedgerCrash(c)
    \/ \E t \in Tenants : LedgerErase(t)
    \/ QueueOnly

LedgerSpec == LedgerInit /\ [][LedgerNext]_ledgerVars

-----------------------------------------------------------------------------
(* Thinning out jobs loses no work: committed ledger entries always have a   *)
(* job, queued or in the DLQ, that nobody has already read the ledger for.   *)
LedgerCovered ==
    \A k \in ledger : \E i \in Ids :
       /\ place[i] \in {"queue", "dead"} /\ Work(i) = k
       /\ \A c \in Consumers : i \notin scanned[c]
=============================================================================
