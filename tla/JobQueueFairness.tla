-------------------------- MODULE JobQueueFairness --------------------------
(***************************************************************************)
(* What the start tags of crates/jobq promise ("fairness between tenants", *)
(* lib.rs): history variables over JobQueue record which later jobs were   *)
(* delivered while a job waited for its first delivery.                    *)
(***************************************************************************)
EXTENDS JobQueue

VARIABLES
    mark,       \* id -> next_id and vt when the row was committed
    overtakers  \* id -> later jobs delivered first while this one could be claimed

fairVars == <<vars, mark, overtakers>>

FairInit ==
    /\ Init
    /\ mark = [i \in Ids |-> [id |-> 0, vt |-> 0]]
    /\ overtakers = [i \in Ids |-> {}]

\* A row that leaves the queue leaves the history too.
Forget == /\ mark' = [i \in Ids |-> IF place'[i] = "queue" THEN mark[i] ELSE [id |-> 0, vt |-> 0]]
          /\ overtakers' = [i \in Ids |-> IF place'[i] = "queue" THEN overtakers[i] ELSE {}]

\* The rows that a step commits.
Committed == {i \in Ids : place[i] # "queue" /\ place'[i] = "queue"}

FairCommit ==
    /\ (\E p \in Producers : Commit(p)) \/ (\E i \in Ids, n \in Tags : RequeueDead(i, n))
    /\ mark' = [i \in Ids |-> IF i \in Committed THEN [id |-> next_id', vt |-> vt] ELSE mark[i]]
    /\ UNCHANGED overtakers

FairClaim(c) ==
    /\ \E picked \in SUBSET Ids :
          /\ Claim(c, picked)
          /\ overtakers' = [i \in Ids |->
                IF i \in Claimable \ picked /\ row[i].attempts = 0
                THEN overtakers[i] \cup
                     {[id |-> j, tenant |-> row[j].tenant, fair_seq |-> row[j].fair_seq,
                       mark |-> mark[j].id] :
                        j \in {k \in picked : row[k].attempts = 0 /\ k >= mark[i].id}}
                ELSE overtakers[i]]
    /\ UNCHANGED mark

FairEnqueue ==
    /\ \E p \in Producers, t \in Tenants, w \in Payloads, n \in Tags : Enqueue(p, t, w, n)
    /\ UNCHANGED <<mark, overtakers>>

FairOther ==
    /\ \/ \E p \in Producers : Rollback(p)
       \/ \E c \in Consumers, i \in Ids : Ack(c, i) \/ Fail(c, i) \/ Defer(c, i) \/ Kill(c, i)
       \/ \E i \in Ids : VisibleAgain(i)
       \/ \E t \in Tenants : DeleteTenant(t)
    /\ Forget

FairNext == FairEnqueue \/ FairCommit \/ (\E c \in Consumers : FairClaim(c)) \/ FairOther

FairSpec == FairInit /\ [][FairNext]_fairVars

-----------------------------------------------------------------------------
(* A job waiting for its first delivery is passed only by later jobs whose   *)
(* start tag lies between the virtual time it saw at commit and its own tag: *)
(* virtual time does not go back when an old row becomes visible again.      *)
OvertakeWindow ==
    \A i \in Queued : \A o \in overtakers[i] :
       mark[i].vt <= o.fair_seq /\ o.fair_seq < row[i].fair_seq

(* Within a tenant, first deliveries keep the order of enqueueing.           *)
TenantFifo == \A i \in Queued : \A o \in overtakers[i] : o.tenant # row[i].tenant

\* Jobs each enqueued after the one before it was committed.
Serial(S) == \A o, q \in S : o.id < q.id => o.mark <= q.id

(* Fairness between tenants: while a job waits, another tenant that enqueues *)
(* one transaction after the other gets at most as many later jobs ahead of  *)
(* it as the waiting tenant was itself ahead of virtual time (none if it had *)
(* no backlog), even when all its own rows are gone each time it enqueues.   *)
FairShare ==
    \A i \in Queued, t \in Tenants :
       \A S \in SUBSET {o \in overtakers[i] : o.tenant = t} :
          Serial(S) => S = {} \/ Cardinality(S) <= row[i].fair_seq - mark[i].vt
=============================================================================
