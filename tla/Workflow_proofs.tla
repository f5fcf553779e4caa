--------------------------- MODULE Workflow_proofs ---------------------------
(***************************************************************************)
(* Proofs about the workflow engine: a run (WorkflowRun) and the triggers  *)
(* that start runs (TriggerScheduler).                                     *)
(*                                                                         *)
(* A run, for every graph, set of results, number of workers and retry     *)
(* policy.  RunInv is inductive: what a late worker can still write        *)
(* follows from its token, and every action that could let a second worker *)
(* at the step either advances the token or leaves the step in a status    *)
(* from which nothing downstream has been decided.  DecisionInv says what  *)
(* has been decided downstream, and why.                                   *)
(*                                                                         *)
(* The scheduler, for every number of instances, every set of occurrences  *)
(* and events and every interleaving of overlapping and failing ticks: one *)
(* recorded run per key, and nothing passed over (IInv).                   *)
(***************************************************************************)
EXTENDS WorkflowRun, TriggerScheduler, WellFoundedInduction, TLAPS

RunInv ==
    /\ TypeOK
    /\ TokensSound
    /\ AttemptsSound
    /\ WaitsSubscribed
    /\ ReadyUnownedAtFirst

\* How a transaction may change the status of a step it is not about: a
\* pending one is decided, one that is not terminal is cancelled.
Follows(m) ==
    \/ status'[m] = status[m]
    \/ status[m] = "pending" /\ status'[m] \in {"ready", "skipped"}
    \/ status[m] \notin Terminal /\ status'[m] = "cancelled"

\* The shape of every transaction but claim, reclaim and resume: it issues no
\* token, writes the outcome of the steps in X, which nobody holds afterwards,
\* and lets the others follow.
Transaction(X) ==
    /\ fencing' = fencing /\ resumes' = resumes
    /\ \A v \in Workers : job'[v] \in {job[v], NoJob}
    /\ \A v \in Workers : Holds(v) /\ job[v].node \in X => job'[v] = NoJob
    /\ \A m \in Nodes \ X : Follows(m) /\ attempt'[m] = attempt[m] /\ taken'[m] = taken[m]
    /\ \A m \in X : /\ ~Recorded(m) /\ status'[m] # "pending"
                    /\ attempt'[m] <= MaxAttempts + resumes
                    /\ fencing[m] = 0 => attempt'[m] = 0
                    /\ status'[m] = "ready" => attempt'[m] < MaxAttempts + resumes
    /\ \A m \in lapsed' : status'[m] = "running"

-----------------------------------------------------------------------------
(* Types and helpers *)

\* What the proofs use of the constants.
LEMMA Constants ==
    /\ MaxAttempts \in Nat /\ MaxAttempts >= 1
    /\ "no node" \notin Nodes
    /\ \A n \in Nodes : \A r \in Results[n] : r \in Result
<1>1. MaxAttempts \in Nat \ {0}
    BY RunAssumption
<1>2. MaxAttempts >= 1
    BY <1>1
<1>3. \A n \in Nodes : \A r \in Results[n] : r \in Result
    BY RunAssumption
<1> QED
    BY <1>1, <1>2, <1>3, RunAssumption

\* A policy allows a first attempt, and a resume one more.
LEMMA PolicyBound ==
    ASSUME NEW r \in Nat
    PROVE  /\ 0 < MaxAttempts + r /\ MaxAttempts + r \in Nat
           /\ MaxAttempts <= MaxAttempts + r
           /\ \A a \in Nat : a <= MaxAttempts + r => a < MaxAttempts + (r + 1)
           /\ \A a \in Nat : a < MaxAttempts + r => a + 1 <= MaxAttempts + r
<1>1. MaxAttempts \in Nat /\ MaxAttempts >= 1
    BY Constants
<1> QED
    BY <1>1

\* NoJob is told apart from every job, and a job that is not NoJob has a node.
LEMMA JobShape ==
    ASSUME TypeOK, NEW w \in Workers
    PROVE  /\ job[w] \in Job
           /\ job[w] # NoJob => /\ job[w].node \in Nodes
                                /\ job[w].token \in Nat /\ job[w].attempt \in Nat
    BY Constants DEF TypeOK, Job, NoJob, NoNode

\* advance_downstream decides pending steps and leaves the others alone.
LEMMA AdvanceKeeps ==
    ASSUME NEW st \in [Nodes -> StepStatus], NEW ns \in Candidates(st)
    PROVE  /\ ns \in [Nodes -> StepStatus]
           /\ \A m \in Nodes : \/ ns[m] = st[m]
                               \/ st[m] = "pending" /\ ns[m] \in {"ready", "skipped"}
<1> DEFINE pending == {n \in Nodes : st[n] = "pending"}
<1>1. PICK d \in [pending -> {"pending", "ready", "skipped"}] :
        ns = [n \in Nodes |-> IF n \in pending THEN d[n] ELSE st[n]]
    BY DEF Candidates
<1>2. \A m \in Nodes : \/ ns[m] = st[m]
                       \/ st[m] = "pending" /\ ns[m] \in {"ready", "skipped"}
    BY <1>1
<1>3. \A m \in Nodes : ns[m] \in StepStatus
    BY <1>2 DEF StepStatus, Terminal
<1> QED
    BY <1>1, <1>2, <1>3

LEMMA InitInv == Init => RunInv
<1> SUFFICES ASSUME Init PROVE RunInv
    OBVIOUS
<1>1. TypeOK
    BY RunAssumption DEF Init, TypeOK, StepStatus, RunStatus, Ended, Job, NoJob
<1>2. \A w \in Workers : job[w] = NoJob
    BY DEF Init
<1>3. TokensSound
  <2>1. \A n \in Nodes : fencing[n] = 0
    BY DEF Init
  <2> QED
    BY <1>2, <2>1 DEF Init, TokensSound, Holds
<1>4. AttemptsSound
  <2>1. resumes = 0 /\ \A n \in Nodes : attempt[n] = 0
    BY DEF Init
  <2> QED
    BY <1>2, <2>1, PolicyBound DEF AttemptsSound, Holds
<1>5. WaitsSubscribed
    BY DEF Init, WaitsSubscribed
<1>6. ReadyUnownedAtFirst
    BY <1>2 DEF ReadyUnownedAtFirst, ReadyUnowned, Holds
<1> QED
    BY <1>1, <1>3, <1>4, <1>5, <1>6 DEF RunInv

-----------------------------------------------------------------------------
(* What a transaction of the common shape preserves *)

LEMMA TransactionInv ==
    ASSUME RunInv, TypeOK', WaitsSubscribed', NEW X \in SUBSET Nodes, Transaction(X)
    PROVE  RunInv'
<1> USE DEF RunInv
<1>1. /\ fencing' = fencing /\ resumes' = resumes /\ resumes \in Nat
      /\ \A v \in Workers : job'[v] \in {job[v], NoJob}
    BY DEF Transaction, TypeOK
<1>2. \A v \in Workers : Holds(v)' => /\ Holds(v) /\ job'[v] = job[v]
                                      /\ job[v].node \in Nodes \ X
    BY <1>1, JobShape DEF Transaction, Holds
<1>3. \A m \in Nodes \ X : /\ Follows(m) /\ attempt'[m] = attempt[m]
    BY DEF Transaction
<1>4. \A v \in Workers : Holds(v)' =>
         /\ status'[job'[v].node] \in {"running", "cancelled", "ready"}
         /\ status'[job'[v].node] = "ready" => status[job[v].node] = "ready"
    BY <1>2, <1>3 DEF TokensSound, Follows
<1>5. \A m \in Nodes : status'[m] = "pending" => status[m] = "pending" /\ m \notin X
    BY <1>3 DEF Transaction, Follows
<1>6. TokensSound'
  <2>1. \A v \in Workers : (job[v] # NoJob => job[v].token \in 1..fencing[job[v].node])'
    BY <1>1 DEF TokensSound
  <2>2. \A v \in Workers : (Holds(v) => status[job[v].node] \in {"running", "cancelled", "ready"})'
    BY <1>4
  <2>3. (\A v, u \in Workers : Holds(v) /\ Holds(u) /\ job[v].node = job[u].node => v = u)'
    BY <1>2 DEF TokensSound
  <2>4. (\A m \in Nodes : status[m] = "pending" => fencing[m] = 0)'
    BY <1>1, <1>5 DEF TokensSound
  <2>5. (\A m \in lapsed : status[m] = "running")'
    BY DEF Transaction
  <2> QED
    BY <2>1, <2>2, <2>3, <2>4, <2>5 DEF TokensSound
<1>7. AttemptsSound'
  <2>1. \A v \in Workers : (Holds(v) => /\ job[v].attempt = attempt[job[v].node]
                                        /\ attempt[job[v].node] > 0)'
    BY <1>2, <1>3 DEF AttemptsSound
  <2>2. (\A m \in Nodes : fencing[m] = 0 => attempt[m] = 0)'
    BY <1>1, <1>3 DEF AttemptsSound, Transaction
  <2>3. (\A m \in Nodes : status[m] = "ready" => attempt[m] < MaxAttempts + resumes)'
    <3> SUFFICES ASSUME NEW m \in Nodes, status'[m] = "ready"
                 PROVE  attempt'[m] < MaxAttempts + resumes
      BY <1>1
    <3>1. CASE m \in X
      BY <3>1 DEF Transaction
    <3>2. CASE m \notin X /\ status[m] = "ready"
      BY <3>2, <1>3 DEF AttemptsSound
    <3>3. CASE m \notin X /\ status[m] = "pending"
      <4>1. attempt'[m] = 0
        BY <3>3, <1>3 DEF AttemptsSound, TokensSound
      <4> QED
        BY <4>1, <1>1, PolicyBound
    <3> QED
      BY <3>1, <3>2, <3>3, <1>3 DEF Follows
  <2>4. (\A m \in Nodes : attempt[m] <= MaxAttempts + resumes)'
    BY <1>1, <1>3 DEF AttemptsSound, Transaction
  <2> QED
    BY <2>1, <2>2, <2>3, <2>4 DEF AttemptsSound
<1>8. ReadyUnownedAtFirst'
    BY <1>1, <1>2, <1>4 DEF ReadyUnownedAtFirst, ReadyUnowned
<1> QED
    BY <1>6, <1>7, <1>8

\* Steps whose outcome is recorded keep it.
RecordKept ==
    \A n \in Nodes : Recorded(n) => status'[n] = status[n] /\ taken'[n] = taken[n]
                                    /\ fencing'[n] = fencing[n]

LEMMA TransactionKeeps ==
    ASSUME NEW X \in SUBSET Nodes, Transaction(X)
    PROVE  RecordKept
<1> SUFFICES ASSUME NEW n \in Nodes, Recorded(n)
             PROVE  status'[n] = status[n] /\ taken'[n] = taken[n] /\ fencing'[n] = fencing[n]
    BY DEF RecordKept
<1>1. n \notin X /\ fencing' = fencing /\ Follows(n) /\ taken'[n] = taken[n]
    BY DEF Transaction
<1>2. status[n] \in Terminal /\ status[n] # "pending"
    BY DEF Recorded, Terminal
<1> QED
    BY <1>1, <1>2 DEF Follows

\* How the other steps follow when one step n gets its outcome and the run advances.
LEMMA AdvanceFollows ==
    ASSUME TypeOK, NEW n \in Nodes, NEW o \in {"succeeded", "failed"}, NEW tk,
           Advance([status EXCEPT ![n] = o], tk)
    PROVE  /\ status' \in [Nodes -> StepStatus] /\ status'[n] = o
           /\ \A m \in Nodes \ {n} : \/ status'[m] = status[m]
                                     \/ status[m] = "pending" /\ status'[m] \in {"ready", "skipped"}
           /\ run_status' \in RunStatus
           /\ last_event' \in Ended \cup {"none", "started", "resumed"}
<1> DEFINE st == [status EXCEPT ![n] = o]
<1>1. st \in [Nodes -> StepStatus] /\ st[n] = o /\ \A m \in Nodes \ {n} : st[m] = status[m]
    BY DEF TypeOK, StepStatus, Terminal
<1> HIDE DEF st
<1>2. Advance(st, tk)
    BY DEF st
<1>3. PICK ns \in Candidates(st) : status' = ns /\ FinalizeRunIfDone(ns, tk)
    BY <1>2 DEF Advance
<1>4. /\ ns \in [Nodes -> StepStatus]
      /\ \A m \in Nodes : \/ ns[m] = st[m]
                          \/ st[m] = "pending" /\ ns[m] \in {"ready", "skipped"}
    BY <1>1, AdvanceKeeps
<1>5. /\ run_status' \in RunStatus
      /\ last_event' \in Ended \cup {"none", "started", "resumed"}
    BY <1>3 DEF FinalizeRunIfDone, EndRun, TypeOK, RunStatus, Ended
<1> QED
    BY <1>1, <1>3, <1>4, <1>5

\* How they follow when its failure ends the run.
LEMMA FailFollows ==
    ASSUME TypeOK, NEW n \in Nodes, FailRun([status EXCEPT ![n] = "failed"])
    PROVE  /\ status' \in [Nodes -> StepStatus] /\ status'[n] = "failed"
           /\ \A m \in Nodes \ {n} : IF status[m] \in Terminal THEN status'[m] = status[m]
                                     ELSE status'[m] = "cancelled"
           /\ lapsed' = {} /\ unfired' = {}
           /\ WaitsSubscribed'
           /\ run_status' \in RunStatus
           /\ last_event' \in Ended \cup {"none", "started", "resumed"}
<1> DEFINE st == [status EXCEPT ![n] = "failed"]
<1>1. st[n] = "failed" /\ \A m \in Nodes \ {n} : st[m] = status[m]
    BY DEF TypeOK
<1> HIDE DEF st
<1>2. FailRun(st)
    BY DEF st
<1>3. status' = [m \in Nodes |-> IF st[m] \in Terminal THEN st[m] ELSE "cancelled"]
    BY <1>2 DEF FailRun
<1>4. \A m \in Nodes : status'[m] \in Terminal
    BY <1>3 DEF Terminal
<1>5. lapsed' = {} /\ unfired' = {}
    BY <1>2 DEF FailRun
<1>6. WaitsSubscribed'
    BY <1>4, <1>5 DEF WaitsSubscribed, Terminal
<1>7. /\ run_status' \in RunStatus
      /\ last_event' \in Ended \cup {"none", "started", "resumed"}
    BY <1>2 DEF FailRun, EndRun, TypeOK, RunStatus, Ended
<1> QED
    BY <1>1, <1>3, <1>4, <1>5, <1>6, <1>7 DEF StepStatus, Terminal

-----------------------------------------------------------------------------
(* Workers *)

LEMMA ClaimInv ==
    ASSUME RunInv, NEW w \in Workers, NEW n \in Nodes, Claim(w, n)
    PROVE  RunInv'
<1> USE DEF RunInv
<1>1. /\ status' = [status EXCEPT ![n] = "running"] /\ status[n] = "ready"
      /\ fencing' = [fencing EXCEPT ![n] = @ + 1]
      /\ attempt' = [attempt EXCEPT ![n] = @ + 1]
      /\ job[w] = NoJob
      /\ job' = [job EXCEPT ![w] = [node |-> n, token |-> fencing[n] + 1,
                                    attempt |-> attempt[n] + 1]]
      /\ UNCHANGED <<taken, lapsed, unfired, run_status, cancel_requested, timed_out, overdue,
                     last_event, resumes>>
    BY DEF Claim, run
<1>2. fencing[n] \in Nat /\ attempt[n] \in Nat /\ resumes \in Nat
    BY DEF TypeOK
<1>3. TypeOK'
  <2>1. job'[w] \in Job
    BY <1>1, <1>2 DEF TypeOK, Job
  <2> QED
    BY <1>1, <1>2, <2>1 DEF TypeOK, StepStatus, Job
<1>4. \A v \in Workers : v # w => job'[v] = job[v]
    BY <1>1 DEF TypeOK
<1>5. /\ job'[w].node = n /\ job'[w].token = fencing'[n] /\ job'[w].attempt = attempt'[n]
      /\ job'[w] # NoJob
      /\ fencing'[n] = fencing[n] + 1 /\ attempt'[n] = attempt[n] + 1
    BY <1>1, <1>2, Constants DEF TypeOK, NoJob, NoNode
<1>6. \A m \in Nodes : m # n => /\ status'[m] = status[m] /\ fencing'[m] = fencing[m]
                                /\ attempt'[m] = attempt[m]
    BY <1>1 DEF TypeOK
<1>7. \A v \in Workers : v # w /\ Holds(v)' => Holds(v) /\ job[v].node # n
  <2> SUFFICES ASSUME NEW v \in Workers, v # w, Holds(v)' PROVE Holds(v) /\ job[v].node # n
    OBVIOUS
  <2>1. job[v] # NoJob /\ job[v].token = fencing'[job[v].node]
    BY <1>4 DEF Holds
  <2>2. job[v].node \in Nodes /\ job[v].token \in 1..fencing[job[v].node]
    BY <2>1, JobShape DEF TokensSound
  <2>3. job[v].node # n
    BY <2>1, <2>2, <1>5, <1>2
  <2> QED
    BY <2>1, <2>2, <2>3, <1>6 DEF Holds
<1>8. TokensSound'
  <2>1. \A v \in Workers : (job[v] # NoJob => job[v].token \in 1..fencing[job[v].node])'
    <3> SUFFICES ASSUME NEW v \in Workers, (job[v] # NoJob)'
                 PROVE  (job[v].token \in 1..fencing[job[v].node])'
      OBVIOUS
    <3>1. CASE v = w
      BY <3>1, <1>5, <1>2
    <3>2. CASE v # w
      <4>1. job[v].node \in Nodes /\ job[v].token \in 1..fencing[job[v].node]
        BY <3>2, <1>4, JobShape DEF TokensSound
      <4> QED
        BY <4>1, <3>2, <1>4, <1>5, <1>6, <1>2
    <3> QED
      BY <3>1, <3>2
  <2>2. \A v \in Workers : (Holds(v) => status[job[v].node] \in {"running", "cancelled", "ready"})'
    <3> SUFFICES ASSUME NEW v \in Workers, Holds(v)'
                 PROVE  (status[job[v].node] \in {"running", "cancelled", "ready"})'
      OBVIOUS
    <3>1. CASE v = w
      BY <3>1, <1>1, <1>5 DEF TypeOK
    <3>2. CASE v # w
      BY <3>2, <1>4, <1>6, <1>7, JobShape DEF TokensSound, Holds
    <3> QED
      BY <3>1, <3>2
  <2>3. (\A v, u \in Workers : Holds(v) /\ Holds(u) /\ job[v].node = job[u].node => v = u)'
    BY <1>4, <1>5, <1>7 DEF TokensSound
  <2>4. (\A m \in Nodes : status[m] = "pending" => fencing[m] = 0)'
    BY <1>1, <1>6 DEF TokensSound, TypeOK
  <2>5. (\A m \in lapsed : status[m] = "running")'
    BY <1>1, <1>6 DEF TokensSound, TypeOK
  <2> QED
    BY <2>1, <2>2, <2>3, <2>4, <2>5 DEF TokensSound
<1>9. AttemptsSound'
  <2>1. \A v \in Workers : (Holds(v) => /\ job[v].attempt = attempt[job[v].node]
                                        /\ attempt[job[v].node] > 0)'
    <3> SUFFICES ASSUME NEW v \in Workers, Holds(v)'
                 PROVE  (/\ job[v].attempt = attempt[job[v].node]
                         /\ attempt[job[v].node] > 0)'
      OBVIOUS
    <3>1. CASE v = w
      BY <3>1, <1>5, <1>2
    <3>2. CASE v # w
      BY <3>2, <1>4, <1>6, <1>7, JobShape DEF AttemptsSound, Holds
    <3> QED
      BY <3>1, <3>2
  <2>2. attempt'[n] <= MaxAttempts + resumes
    <3>1. attempt[n] < MaxAttempts + resumes
      BY <1>1 DEF AttemptsSound
    <3> QED
      BY <3>1, <1>5, <1>2, PolicyBound
  <2>3. status'[n] = "running" /\ fencing'[n] # 0
    BY <1>1, <1>2, <1>5 DEF TypeOK
  <2> QED
    BY <2>1, <2>2, <2>3, <1>1, <1>6 DEF AttemptsSound
<1>10. WaitsSubscribed'
    BY <1>1, <1>6 DEF WaitsSubscribed, TypeOK
<1>11. ReadyUnownedAtFirst'
  <2> SUFFICES ASSUME resumes = 0, NEW v \in Workers, Holds(v)' PROVE (status[job[v].node] # "ready")'
    BY <1>1 DEF ReadyUnownedAtFirst, ReadyUnowned
  <2>1. CASE v = w
    BY <2>1, <1>1, <1>5 DEF TypeOK
  <2>2. CASE v # w
    BY <2>2, <1>4, <1>6, <1>7, JobShape DEF ReadyUnownedAtFirst, ReadyUnowned, Holds
  <2> QED
    BY <2>1, <2>2
<1> QED
    BY <1>3, <1>8, <1>9, <1>10, <1>11

\* The action is a transaction of the common shape about the steps X.
Shaped(X) == TypeOK' /\ WaitsSubscribed' /\ Transaction(X)

\* The run's columns but status and last_event.
flags == <<cancel_requested, timed_out, overdue>>

\* What settling a claim says: the step is the worker's alone, and is given up.
LEMMA SettleFacts ==
    ASSUME RunInv, NEW w \in Workers, Settle(w)
    PROVE  LET n == job[w].node
           IN  /\ n \in Nodes /\ status[n] \in {"running", "cancelled", "ready"} /\ ~Recorded(n)
               /\ n \notin unfired
               /\ attempt[n] \in Nat /\ attempt[n] > 0 /\ job[w].attempt = attempt[n]
               /\ attempt[n] <= MaxAttempts + resumes /\ fencing[n] # 0
               /\ fencing' = fencing /\ resumes' = resumes /\ UNCHANGED flags
               /\ job' \in [Workers -> Job]
               /\ \A v \in Workers : job'[v] \in {job[v], NoJob}
               /\ \A v \in Workers : Holds(v) /\ job[v].node = n => job'[v] = NoJob
<1> USE DEF RunInv
<1>1. Holds(w) /\ job' = [job EXCEPT ![w] = NoJob]
    BY DEF Settle
<1>2. job[w].node \in Nodes
    BY <1>1, JobShape DEF Holds
<1>3. status[job[w].node] \in {"running", "cancelled", "ready"}
    BY <1>1 DEF TokensSound
<1>4. ~Recorded(job[w].node) /\ job[w].node \notin unfired
    BY <1>3 DEF Recorded, WaitsSubscribed
<1>5. /\ attempt[job[w].node] \in Nat /\ attempt[job[w].node] > 0
      /\ job[w].attempt = attempt[job[w].node]
      /\ attempt[job[w].node] <= MaxAttempts + resumes /\ fencing[job[w].node] # 0
    BY <1>1, <1>2 DEF AttemptsSound, TypeOK
<1>6. /\ job' \in [Workers -> Job]
      /\ \A v \in Workers : job'[v] \in {job[v], NoJob}
      /\ job'[w] = NoJob
    BY <1>1 DEF TypeOK, Job
<1>7. \A v \in Workers : Holds(v) /\ job[v].node = job[w].node => v = w
    BY <1>1 DEF TokensSound
<1> QED
    BY <1>2, <1>3, <1>4, <1>5, <1>6, <1>7 DEF Settle, flags

LEMMA SuspendShaped ==
    ASSUME RunInv, NEW w \in Workers, NEW k \in Suspends, Suspend(w, k)
    PROVE  Shaped({job[w].node})
<1> DEFINE n == job[w].node
<1> USE DEF RunInv
<1>1. Settle(w)
    BY DEF Suspend
<1>2. /\ n \in Nodes /\ status[n] \in {"running", "cancelled", "ready"} /\ ~Recorded(n)
      /\ n \notin unfired
      /\ attempt[n] <= MaxAttempts + resumes /\ fencing[n] # 0
      /\ fencing' = fencing /\ resumes' = resumes /\ UNCHANGED flags
      /\ job' \in [Workers -> Job]
      /\ \A v \in Workers : job'[v] \in {job[v], NoJob}
      /\ \A v \in Workers : Holds(v) /\ job[v].node = n => job'[v] = NoJob
    BY <1>1, SettleFacts
<1> HIDE DEF n
<1>3. /\ status' = [status EXCEPT ![n] = WaitStatus(k)] /\ lapsed' = lapsed \ {n}
      /\ unfired' = IF k = "event" THEN unfired \cup {n} ELSE unfired
      /\ UNCHANGED <<taken, attempt, run_status, last_event>>
    BY DEF Suspend, n
<1>4. WaitStatus(k) = IF k = "event" THEN "waiting_event" ELSE "waiting_timer"
    BY DEF WaitStatus, Suspends
<1>5. /\ status'[n] = WaitStatus(k) /\ status' \in [Nodes -> StepStatus]
      /\ \A m \in Nodes \ {n} : status'[m] = status[m]
    BY <1>2, <1>3, <1>4 DEF TypeOK, StepStatus, Waiting
<1>6. TypeOK'
    BY <1>2, <1>3, <1>5 DEF TypeOK, flags
<1>7. WaitsSubscribed'
    BY <1>2, <1>3, <1>4, <1>5 DEF WaitsSubscribed
<1>8. Transaction({n})
    BY <1>2, <1>3, <1>4, <1>5 DEF Transaction, Follows, TokensSound
<1> QED
    BY <1>6, <1>7, <1>8 DEF Shaped, n

LEMMA RetryShaped ==
    ASSUME RunInv, NEW w \in Workers, NEW k \in NotOk, Retry(w, k)
    PROVE  Shaped({job[w].node})
<1> DEFINE n == job[w].node
           a == IF k = "rate_limited" THEN attempt[n] - 1 ELSE attempt[n]
<1> USE DEF RunInv
<1>1. Settle(w) /\ Retries(w, k)
    BY DEF Retry
<1>2. /\ n \in Nodes /\ status[n] \in {"running", "cancelled", "ready"} /\ ~Recorded(n)
      /\ n \notin unfired
      /\ attempt[n] \in Nat /\ attempt[n] > 0 /\ job[w].attempt = attempt[n]
      /\ attempt[n] <= MaxAttempts + resumes /\ fencing[n] # 0
      /\ fencing' = fencing /\ resumes' = resumes /\ UNCHANGED flags
      /\ job' \in [Workers -> Job]
      /\ \A v \in Workers : job'[v] \in {job[v], NoJob}
      /\ \A v \in Workers : Holds(v) /\ job[v].node = n => job'[v] = NoJob
    BY <1>1, SettleFacts
<1>3. k # "rate_limited" => attempt[n] < MaxAttempts
    BY <1>1, <1>2 DEF Retries
<1> HIDE DEF n
<1>4. resumes \in Nat /\ MaxAttempts \in Nat
    BY Constants DEF TypeOK
<1>5. a \in Nat /\ a < MaxAttempts + resumes /\ a <= MaxAttempts + resumes
    BY <1>2, <1>3, <1>4
<1>6. /\ status' = [status EXCEPT ![n] = "ready"] /\ lapsed' = lapsed \ {n}
      /\ attempt' = [attempt EXCEPT ![n] = a]
      /\ UNCHANGED <<taken, unfired, run_status, last_event>>
    BY DEF Retry, n
<1> HIDE DEF a
<1>7. /\ status'[n] = "ready" /\ status' \in [Nodes -> StepStatus]
      /\ attempt'[n] = a /\ attempt' \in [Nodes -> Nat]
      /\ \A m \in Nodes \ {n} : status'[m] = status[m] /\ attempt'[m] = attempt[m]
    BY <1>2, <1>5, <1>6 DEF TypeOK, StepStatus
<1>8. TypeOK'
    BY <1>2, <1>6, <1>7 DEF TypeOK, flags
<1>9. WaitsSubscribed'
    BY <1>2, <1>6, <1>7 DEF WaitsSubscribed
<1>10. Transaction({n})
    BY <1>2, <1>5, <1>6, <1>7 DEF Transaction, Follows, TokensSound
<1> QED
    BY <1>8, <1>9, <1>10 DEF Shaped, n

\* A success, or a failure handled by the error port.
LEMMA OutcomeShaped ==
    ASSUME RunInv, NEW w \in Workers, NEW o \in {"succeeded", "failed"},
           NEW ports \in SUBSET Ports, Settle(w),
           taken' = [taken EXCEPT ![job[w].node] = ports],
           lapsed' = lapsed \ {job[w].node},
           Advance([status EXCEPT ![job[w].node] = o], [taken EXCEPT ![job[w].node] = ports]),
           UNCHANGED <<attempt, unfired>>
    PROVE  Shaped({job[w].node})
<1> DEFINE n == job[w].node
<1> USE DEF RunInv
<1>1. /\ n \in Nodes /\ status[n] \in {"running", "cancelled", "ready"} /\ ~Recorded(n)
      /\ n \notin unfired
      /\ attempt[n] <= MaxAttempts + resumes /\ fencing[n] # 0
      /\ fencing' = fencing /\ resumes' = resumes /\ UNCHANGED flags
      /\ job' \in [Workers -> Job]
      /\ \A v \in Workers : job'[v] \in {job[v], NoJob}
      /\ \A v \in Workers : Holds(v) /\ job[v].node = n => job'[v] = NoJob
    BY SettleFacts
<1> HIDE DEF n
<1>2. /\ status' \in [Nodes -> StepStatus] /\ status'[n] = o
      /\ \A m \in Nodes \ {n} : \/ status'[m] = status[m]
                                \/ status[m] = "pending" /\ status'[m] \in {"ready", "skipped"}
      /\ run_status' \in RunStatus
      /\ last_event' \in Ended \cup {"none", "started", "resumed"}
    BY <1>1, AdvanceFollows DEF n
<1>3. /\ taken' \in [Nodes -> SUBSET Ports]
      /\ \A m \in Nodes \ {n} : taken'[m] = taken[m]
    BY <1>1 DEF TypeOK, n
<1>4. lapsed' = lapsed \ {n} /\ attempt' = attempt /\ unfired' = unfired
    BY DEF n
<1>5. TypeOK'
    BY <1>1, <1>2, <1>3, <1>4 DEF TypeOK, flags
<1>6. WaitsSubscribed'
    BY <1>1, <1>2, <1>4 DEF WaitsSubscribed
<1>7. Transaction({n})
  <2>1. \A m \in lapsed' : status'[m] = "running"
    BY <1>2, <1>4 DEF TokensSound, TypeOK
  <2>2. \A m \in Nodes \ {n} : Follows(m)
    BY <1>2 DEF Follows
  <2> QED
    BY <1>1, <1>2, <1>3, <1>4, <2>1, <2>2 DEF Transaction
<1> QED
    BY <1>5, <1>6, <1>7 DEF Shaped, n

LEMMA FailUnhandledShaped ==
    ASSUME RunInv, NEW w \in Workers, NEW k \in NotOk, FailUnhandled(w, k)
    PROVE  Shaped({job[w].node})
<1> DEFINE n == job[w].node
<1> USE DEF RunInv
<1>1. Settle(w)
    BY DEF FailUnhandled
<1>2. /\ n \in Nodes /\ ~Recorded(n)
      /\ attempt[n] <= MaxAttempts + resumes /\ fencing[n] # 0
      /\ fencing' = fencing /\ resumes' = resumes /\ UNCHANGED flags
      /\ job' \in [Workers -> Job]
      /\ \A v \in Workers : job'[v] \in {job[v], NoJob}
      /\ \A v \in Workers : Holds(v) /\ job[v].node = n => job'[v] = NoJob
    BY <1>1, SettleFacts
<1> HIDE DEF n
<1>3. /\ taken' = [taken EXCEPT ![n] = {}] /\ attempt' = attempt
      /\ FailRun([status EXCEPT ![n] = "failed"])
    BY DEF FailUnhandled, n
<1>4. /\ status' \in [Nodes -> StepStatus] /\ status'[n] = "failed"
      /\ \A m \in Nodes \ {n} : IF status[m] \in Terminal THEN status'[m] = status[m]
                                ELSE status'[m] = "cancelled"
      /\ lapsed' = {} /\ unfired' = {}
      /\ WaitsSubscribed'
      /\ run_status' \in RunStatus
      /\ last_event' \in Ended \cup {"none", "started", "resumed"}
    BY <1>2, <1>3, FailFollows
<1>5. /\ taken' \in [Nodes -> SUBSET Ports]
      /\ \A m \in Nodes \ {n} : taken'[m] = taken[m]
    BY <1>2, <1>3 DEF TypeOK
<1>6. TypeOK'
    BY <1>2, <1>3, <1>4, <1>5 DEF TypeOK, flags
<1>7. Transaction({n})
    BY <1>2, <1>3, <1>4, <1>5 DEF Transaction, Follows
<1> QED
    BY <1>4, <1>6, <1>7 DEF Shaped, n

\* A worker that dies, or is refused, only forgets its claim.
LEMMA ReleaseShaped ==
    ASSUME RunInv, NEW w \in Workers, job' = [job EXCEPT ![w] = NoJob], UNCHANGED <<steps, run>>
    PROVE  Shaped({})
<1> USE DEF RunInv
<1>1. UNCHANGED <<status, taken, fencing, attempt, lapsed, unfired, run_status, cancel_requested,
                  timed_out, overdue, last_event, resumes>>
    BY DEF steps, run
<1>2. job' \in [Workers -> Job] /\ \A v \in Workers : job'[v] \in {job[v], NoJob}
    BY DEF TypeOK, Job
<1>3. TypeOK'
    BY <1>1, <1>2 DEF TypeOK
<1>4. WaitsSubscribed'
    BY <1>1 DEF WaitsSubscribed
<1>5. Transaction({})
    BY <1>1, <1>2 DEF Transaction, Follows, TokensSound
<1> QED
    BY <1>3, <1>4, <1>5 DEF Shaped

LEMMA CheckpointShaped ==
    ASSUME RunInv, NEW w \in Workers, Checkpoint(w)
    PROVE  \E X \in SUBSET Nodes : Shaped(X)
<1>1. CASE CheckpointZombie(w)
  <2>1. job' = [job EXCEPT ![w] = NoJob] /\ UNCHANGED <<steps, run>>
    BY <1>1 DEF CheckpointZombie
  <2>2. Shaped({})
    BY <2>1, ReleaseShaped
  <2> QED
    BY <2>2
<1>2. CASE Holds(w) /\ ~CheckpointZombie(w)
  <2>1. job[w].node \in Nodes
    BY <1>2, JobShape DEF Holds, RunInv
  <2>2. PICK r \in Results[job[w].node] :
            \/ r.kind \in Suspends /\ Suspend(w, r.kind)
            \/ r.kind = "ok" /\ Succeed(w, r.ports)
            \/ r.kind \in NotOk /\ Retry(w, r.kind)
            \/ r.kind \in NotOk /\ FailToErrorPort(w, r.kind)
            \/ r.kind \in NotOk /\ FailUnhandled(w, r.kind)
    BY <1>2 DEF Checkpoint
  <2>3. r.ports \in SUBSET Ports
    BY <2>1, Constants DEF Result
  <2>4. Succeed(w, r.ports) => Shaped({job[w].node})
    <3> SUFFICES ASSUME Succeed(w, r.ports) PROVE Shaped({job[w].node})
      OBVIOUS
    <3>1. /\ Settle(w) /\ taken' = [taken EXCEPT ![job[w].node] = r.ports]
          /\ lapsed' = lapsed \ {job[w].node}
          /\ Advance([status EXCEPT ![job[w].node] = "succeeded"],
                     [taken EXCEPT ![job[w].node] = r.ports])
          /\ UNCHANGED <<attempt, unfired>>
      BY DEF Succeed
    <3> QED
      BY <2>3, <3>1, OutcomeShaped
  <2>5. FailToErrorPort(w, r.kind) => Shaped({job[w].node})
    <3> SUFFICES ASSUME FailToErrorPort(w, r.kind) PROVE Shaped({job[w].node})
      OBVIOUS
    <3>1. /\ Settle(w) /\ taken' = [taken EXCEPT ![job[w].node] = {"error"}]
          /\ lapsed' = lapsed \ {job[w].node}
          /\ Advance([status EXCEPT ![job[w].node] = "failed"],
                     [taken EXCEPT ![job[w].node] = {"error"}])
          /\ UNCHANGED <<attempt, unfired>>
      BY DEF FailToErrorPort
    <3>2. {"error"} \in SUBSET Ports
      BY DEF Ports
    <3> QED
      BY <3>1, <3>2, OutcomeShaped
  <2>6. Shaped({job[w].node})
    BY <2>2, <2>4, <2>5, SuspendShaped, RetryShaped, FailUnhandledShaped
  <2> QED
    BY <2>1, <2>6
<1> QED
    BY <1>1, <1>2 DEF Checkpoint

-----------------------------------------------------------------------------
(* The tick, and cancellation *)

LEMMA HeartbeatShaped ==
    ASSUME RunInv, NEW w \in Workers, Heartbeat(w)
    PROVE  Shaped({})
<1> USE DEF RunInv
<1>1. /\ lapsed' \subseteq lapsed
      /\ UNCHANGED <<status, taken, fencing, attempt, unfired, run_status, cancel_requested,
                     timed_out, overdue, last_event, resumes, job>>
    BY DEF Heartbeat, run
<1>2. TypeOK'
    BY <1>1 DEF TypeOK
<1>3. WaitsSubscribed'
    BY <1>1 DEF WaitsSubscribed
<1>4. Transaction({})
    BY <1>1 DEF Transaction, Follows, TokensSound
<1> QED
    BY <1>2, <1>3, <1>4 DEF Shaped

LEMMA LeaseLapsesShaped ==
    ASSUME RunInv, NEW n \in Nodes, LeaseLapses(n)
    PROVE  Shaped({})
<1> USE DEF RunInv
<1>1. /\ lapsed' = lapsed \cup {n} /\ status[n] = "running"
      /\ UNCHANGED <<status, taken, fencing, attempt, unfired, run_status, cancel_requested,
                     timed_out, overdue, last_event, resumes, job>>
    BY DEF LeaseLapses, run
<1>2. TypeOK'
    BY <1>1 DEF TypeOK
<1>3. WaitsSubscribed'
    BY <1>1 DEF WaitsSubscribed
<1>4. Transaction({})
    BY <1>1 DEF Transaction, Follows, TokensSound
<1> QED
    BY <1>2, <1>3, <1>4 DEF Shaped

LEMMA FlagsShaped ==
    ASSUME RunInv, TimeoutPasses \/ ExpireRun
    PROVE  Shaped({})
<1> USE DEF RunInv
<1>1. /\ cancel_requested' \in BOOLEAN /\ timed_out' \in BOOLEAN /\ overdue' \in BOOLEAN
      /\ UNCHANGED <<status, taken, fencing, attempt, lapsed, unfired, run_status, last_event,
                     resumes, job>>
    BY DEF TimeoutPasses, ExpireRun, steps, TypeOK
<1>2. TypeOK'
    BY <1>1 DEF TypeOK
<1>3. WaitsSubscribed'
    BY <1>1 DEF WaitsSubscribed
<1>4. Transaction({})
    BY <1>1 DEF Transaction, Follows, TokensSound
<1> QED
    BY <1>2, <1>3, <1>4 DEF Shaped

\* Nobody holds a step that waits.
LEMMA WaitingUnheld ==
    ASSUME RunInv, NEW n \in Nodes, status[n] \in Waiting
    PROVE  /\ \A v \in Workers : Holds(v) => job[v].node # n
           /\ ~Recorded(n) /\ n \notin lapsed
           /\ attempt[n] <= MaxAttempts + resumes /\ (fencing[n] = 0 => attempt[n] = 0)
    BY DEF RunInv, TokensSound, AttemptsSound, Waiting, Recorded

LEMMA WakeShaped ==
    ASSUME RunInv, NEW n \in Nodes, NEW port \in Ports, status[n] \in Waiting, Wake(n, port)
    PROVE  Shaped({n})
<1> USE DEF RunInv
<1>1. /\ unfired' = unfired \ {n} /\ taken' = [taken EXCEPT ![n] = {port}]
      /\ Advance([status EXCEPT ![n] = "succeeded"], [taken EXCEPT ![n] = {port}])
      /\ UNCHANGED <<fencing, attempt, lapsed, cancel_requested, timed_out, overdue, resumes, job>>
    BY DEF Wake
<1>2. /\ status' \in [Nodes -> StepStatus] /\ status'[n] = "succeeded"
      /\ \A m \in Nodes \ {n} : \/ status'[m] = status[m]
                                \/ status[m] = "pending" /\ status'[m] \in {"ready", "skipped"}
      /\ run_status' \in RunStatus
      /\ last_event' \in Ended \cup {"none", "started", "resumed"}
    BY <1>1, AdvanceFollows
<1>3. /\ taken' \in [Nodes -> SUBSET Ports]
      /\ \A m \in Nodes \ {n} : taken'[m] = taken[m]
    BY <1>1 DEF TypeOK
<1>4. TypeOK'
    BY <1>1, <1>2, <1>3 DEF TypeOK
<1>5. WaitsSubscribed'
    BY <1>1, <1>2 DEF WaitsSubscribed
<1>6. Transaction({n})
  <2>1. \A m \in lapsed' : status'[m] = "running"
    BY <1>1, <1>2, WaitingUnheld DEF TokensSound, TypeOK
  <2>2. \A m \in Nodes \ {n} : Follows(m)
    BY <1>2 DEF Follows
  <2> QED
    BY <1>1, <1>2, <1>3, <2>1, <2>2, WaitingUnheld DEF Transaction
<1> QED
    BY <1>4, <1>5, <1>6 DEF Shaped

LEMMA ExpireWaitShaped ==
    ASSUME RunInv, NEW n \in Nodes, ExpireWait(n)
    PROVE  Shaped({n})
<1> USE DEF RunInv
<1>1. status[n] \in Waiting
    BY DEF ExpireWait
<1>2. CASE Wake(n, "timeout")
    BY <1>1, <1>2, WakeShaped DEF Ports
<1>3. CASE /\ taken' = [taken EXCEPT ![n] = {}]
           /\ FailRun([status EXCEPT ![n] = "failed"])
           /\ UNCHANGED <<fencing, attempt, cancel_requested, timed_out, overdue, resumes, job>>
  <2>1. /\ status' \in [Nodes -> StepStatus] /\ status'[n] = "failed"
        /\ \A m \in Nodes \ {n} : IF status[m] \in Terminal THEN status'[m] = status[m]
                                  ELSE status'[m] = "cancelled"
        /\ lapsed' = {} /\ unfired' = {}
        /\ WaitsSubscribed'
        /\ run_status' \in RunStatus
        /\ last_event' \in Ended \cup {"none", "started", "resumed"}
    BY <1>3, FailFollows
  <2>2. /\ taken' \in [Nodes -> SUBSET Ports]
        /\ \A m \in Nodes \ {n} : taken'[m] = taken[m]
    BY <1>3 DEF TypeOK
  <2>3. TypeOK'
    BY <1>3, <2>1, <2>2 DEF TypeOK
  <2>4. Transaction({n})
    BY <1>1, <1>3, <2>1, <2>2, WaitingUnheld DEF Transaction, Follows
  <2> QED
    BY <2>1, <2>3, <2>4 DEF Shaped
<1> QED
    BY <1>2, <1>3 DEF ExpireWait

LEMMA PromoteShaped ==
    ASSUME RunInv, Promote
    PROVE  Shaped({})
<1> USE DEF RunInv
<1>1. /\ status' = [n \in Nodes |-> IF n \in Roots /\ status[n] = "pending"
                                    THEN "ready" ELSE status[n]]
      /\ run_status' = "running" /\ last_event' = "started"
      /\ UNCHANGED <<taken, fencing, attempt, lapsed, unfired, cancel_requested, timed_out,
                     overdue, resumes, job>>
    BY DEF Promote
<1>2. \A m \in Nodes : \/ status'[m] = status[m]
                       \/ status[m] = "pending" /\ status'[m] = "ready"
    BY <1>1
<1>3. status' \in [Nodes -> StepStatus]
    BY <1>1 DEF TypeOK, StepStatus
<1>4. TypeOK'
    BY <1>1, <1>3 DEF TypeOK, RunStatus
<1>5. WaitsSubscribed'
    BY <1>1, <1>2 DEF WaitsSubscribed
<1>6. Transaction({})
  <2>1. \A m \in lapsed' : status'[m] = "running"
    BY <1>1, <1>2 DEF TokensSound, TypeOK
  <2> QED
    BY <1>1, <1>2, <2>1 DEF Transaction, Follows
<1> QED
    BY <1>4, <1>5, <1>6 DEF Shaped

LEMMA DrainShaped ==
    ASSUME RunInv, RequestCancel \/ Drain
    PROVE  Shaped({})
<1> USE DEF RunInv
<1>1. /\ DrainOne /\ cancel_requested' \in BOOLEAN
    BY DEF RequestCancel, Drain, TypeOK
<1>2. /\ status' = [n \in Nodes |-> IF Drained(n) THEN "cancelled" ELSE status[n]]
      /\ lapsed' = {n \in lapsed : ~Drained(n)}
      /\ unfired' = {}
      /\ UNCHANGED <<taken, fencing, attempt, timed_out, overdue, resumes, job>>
    BY <1>1 DEF DrainOne
<1>3. /\ run_status' \in RunStatus
      /\ last_event' \in Ended \cup {"none", "started", "resumed"}
    BY <1>1 DEF DrainOne, TypeOK, RunStatus, Ended
<1>4. \A m \in Nodes : Drained(m) => status[m] \notin Terminal
    BY DEF Drained, TokensSound, Waiting, Terminal
<1>5. \A m \in Nodes : /\ Drained(m) => status'[m] = "cancelled"
                       /\ ~Drained(m) => status'[m] = status[m] /\ status[m] \notin Waiting
    BY <1>2 DEF Drained
<1>6. status' \in [Nodes -> StepStatus]
    BY <1>2 DEF TypeOK, StepStatus, Terminal
<1>7. TypeOK'
    BY <1>1, <1>2, <1>3, <1>6 DEF TypeOK
<1>8. WaitsSubscribed'
    BY <1>2, <1>5 DEF WaitsSubscribed, Waiting
<1>9. Transaction({})
  <2>1. \A m \in lapsed' : status'[m] = "running"
    BY <1>2, <1>5 DEF TokensSound, TypeOK
  <2> QED
    BY <1>2, <1>4, <1>5, <2>1 DEF Transaction, Follows
<1> QED
    BY <1>7, <1>8, <1>9 DEF Shaped

-----------------------------------------------------------------------------
(* Reclaim and resume *)

LEMMA ReclaimInv ==
    ASSUME RunInv, NEW n \in Nodes, Reclaim(n)
    PROVE  RunInv'
<1> DEFINE a == IF attempt[n] > 0 THEN attempt[n] - 1 ELSE 0
<1> USE DEF RunInv
<1>1. /\ n \in lapsed /\ status' = [status EXCEPT ![n] = "ready"]
      /\ attempt' = [attempt EXCEPT ![n] = a]
      /\ fencing' = [fencing EXCEPT ![n] = @ + 1]
      /\ lapsed' = lapsed \ {n}
      /\ UNCHANGED <<taken, unfired, run_status, cancel_requested, timed_out, overdue,
                     last_event, resumes, job>>
    BY DEF Reclaim, run
<1>2. /\ fencing[n] \in Nat /\ attempt[n] \in Nat /\ resumes \in Nat
      /\ attempt[n] <= MaxAttempts + resumes
    BY DEF TypeOK, AttemptsSound
<1>3. a \in Nat /\ a < MaxAttempts + resumes /\ a <= MaxAttempts + resumes
    BY <1>2, PolicyBound
<1> HIDE DEF a
<1>4. /\ status'[n] = "ready" /\ attempt'[n] = a /\ fencing'[n] = fencing[n] + 1
      /\ \A m \in Nodes : m # n => /\ status'[m] = status[m] /\ fencing'[m] = fencing[m]
                                   /\ attempt'[m] = attempt[m]
    BY <1>1 DEF TypeOK
<1>5. TypeOK'
    BY <1>1, <1>2, <1>3 DEF TypeOK, StepStatus
<1>6. \A v \in Workers : job[v] # NoJob =>
         job[v].node \in Nodes /\ job[v].token \in 1..fencing[job[v].node]
    BY JobShape DEF TokensSound
<1>7. \A v \in Workers : Holds(v)' => Holds(v) /\ job[v].node # n /\ job[v].node \in Nodes
  <2> SUFFICES ASSUME NEW v \in Workers, Holds(v)'
               PROVE  Holds(v) /\ job[v].node # n /\ job[v].node \in Nodes
    OBVIOUS
  <2>1. job[v] # NoJob /\ job[v].token = fencing'[job[v].node]
    BY <1>1 DEF Holds
  <2>2. job[v].node # n
    BY <2>1, <1>2, <1>4, <1>6
  <2> QED
    BY <2>1, <2>2, <1>4, <1>6 DEF Holds
<1>8. TokensSound'
  <2>1. \A v \in Workers : (job[v] # NoJob => job[v].token \in 1..fencing[job[v].node])'
    <3> SUFFICES ASSUME NEW v \in Workers, job[v] # NoJob
                 PROVE  job[v].token \in 1..fencing'[job[v].node]
      BY <1>1
    <3>1. job[v].node \in Nodes /\ job[v].token \in 1..fencing[job[v].node]
      BY <1>6
    <3>2. fencing[job[v].node] \in Nat
      BY <3>1 DEF TypeOK
    <3>3. \/ fencing'[job[v].node] = fencing[job[v].node]
          \/ fencing'[job[v].node] = fencing[job[v].node] + 1
      BY <3>1, <1>4
    <3> QED
      BY <3>1, <3>2, <3>3
  <2>2. \A v \in Workers : (Holds(v) => status[job[v].node] \in {"running", "cancelled", "ready"})'
    BY <1>1, <1>4, <1>7 DEF TokensSound
  <2>3. (\A v, u \in Workers : Holds(v) /\ Holds(u) /\ job[v].node = job[u].node => v = u)'
    BY <1>1, <1>7 DEF TokensSound
  <2>4. (\A m \in Nodes : status[m] = "pending" => fencing[m] = 0)'
    BY <1>4 DEF TokensSound
  <2>5. (\A m \in lapsed : status[m] = "running")'
    BY <1>1, <1>4 DEF TokensSound, TypeOK
  <2> QED
    BY <2>1, <2>2, <2>3, <2>4, <2>5 DEF TokensSound
<1>9. AttemptsSound'
  <2>1. \A v \in Workers : (Holds(v) => /\ job[v].attempt = attempt[job[v].node]
                                        /\ attempt[job[v].node] > 0)'
    BY <1>1, <1>4, <1>7 DEF AttemptsSound
  <2>2. fencing'[n] # 0
    BY <1>2, <1>4
  <2> QED
    BY <2>1, <2>2, <1>1, <1>3, <1>4 DEF AttemptsSound
<1>10. WaitsSubscribed'
    BY <1>1, <1>4 DEF WaitsSubscribed, TokensSound
<1>11. ReadyUnownedAtFirst'
    BY <1>1, <1>4, <1>7 DEF ReadyUnownedAtFirst, ReadyUnowned
<1> QED
    BY <1>5, <1>8, <1>9, <1>10, <1>11

\* What resuming does to a step.
LEMMA ResumeSteps ==
    ASSUME RunInv, Resume
    PROVE  /\ status' \in [Nodes -> StepStatus]
           /\ \A m \in Nodes :
                \/ status'[m] = status[m]
                \/ /\ status[m] \in {"failed", "cancelled", "pending"} /\ ~Recorded(m)
                   /\ status'[m] \in {"ready", "pending", "skipped"}
                   /\ status'[m] # "ready" => fencing[m] = 0 /\ status[m] \in {"cancelled", "pending"}
<1> DEFINE st == [n \in Nodes |-> Reset(n)]
<1>1. \A m \in Nodes :
        \/ st[m] = status[m]
        \/ status[m] \in {"failed", "cancelled"} /\ ~Recorded(m) /\ st[m] = "ready"
        \/ status[m] = "cancelled" /\ ~Recorded(m) /\ st[m] = "pending" /\ fencing[m] = 0
    BY DEF Reset, Recorded
<1>2. \A m \in Nodes : st[m] \in StepStatus
    BY <1>1 DEF StepStatus, RunInv, TypeOK
<1>3. st \in [Nodes -> StepStatus]
    BY <1>2
<1>4. PICK ns \in Candidates(st) : status' = ns
    BY DEF Resume
<1> HIDE DEF st
<1>5. /\ ns \in [Nodes -> StepStatus]
      /\ \A m \in Nodes : \/ ns[m] = st[m]
                          \/ st[m] = "pending" /\ ns[m] \in {"ready", "skipped"}
    BY <1>3, AdvanceKeeps
<1>6. \A m \in Nodes : st[m] = "pending" => fencing[m] = 0 /\ status[m] \in {"cancelled", "pending"}
    BY <1>1 DEF RunInv, TokensSound
<1>7. \A m \in Nodes : status[m] = "pending" => ~Recorded(m)
    BY DEF Recorded
<1> QED
    BY <1>1, <1>4, <1>5, <1>6, <1>7

LEMMA ResumeInv ==
    ASSUME RunInv, Resume
    PROVE  RunInv'
<1> USE DEF RunInv
<1>1. /\ run_status' = "running" /\ last_event' = "resumed"
      /\ timed_out' = FALSE /\ cancel_requested' = FALSE /\ resumes' = resumes + 1
      /\ UNCHANGED <<taken, fencing, attempt, lapsed, unfired, overdue, job>>
    BY DEF Resume
<1>2. resumes \in Nat
    BY DEF TypeOK
<1>3. /\ status' \in [Nodes -> StepStatus]
      /\ \A m \in Nodes :
           \/ status'[m] = status[m]
           \/ /\ status[m] \in {"failed", "cancelled", "pending"}
              /\ status'[m] \in {"ready", "pending", "skipped"}
              /\ status'[m] # "ready" => fencing[m] = 0 /\ status[m] \in {"cancelled", "pending"}
    BY ResumeSteps
<1>4. TypeOK'
  <2>1. resumes' \in Nat
    BY <1>1, <1>2
  <2> QED
    BY <1>1, <1>3, <2>1 DEF TypeOK, RunStatus
<1>5. \A v \in Workers : Holds(v)' = Holds(v)
    BY <1>1 DEF Holds
<1>6. \A v \in Workers : Holds(v) => /\ job[v].node \in Nodes
                                     /\ job[v].token \in 1..fencing[job[v].node]
    BY JobShape DEF TokensSound, Holds
<1>7. TokensSound'
  <2>1. \A v \in Workers : (job[v] # NoJob => job[v].token \in 1..fencing[job[v].node])'
    BY <1>1 DEF TokensSound
  <2>2. \A v \in Workers : (Holds(v) => status[job[v].node] \in {"running", "cancelled", "ready"})'
    <3> SUFFICES ASSUME NEW v \in Workers, Holds(v)
                 PROVE  status'[job[v].node] \in {"running", "cancelled", "ready"}
      BY <1>1, <1>5
    <3>1. fencing[job[v].node] # 0
      BY <1>6 DEF TypeOK
    <3>2. status[job[v].node] \in {"running", "cancelled", "ready"}
      BY DEF TokensSound
    <3> QED
      BY <3>1, <3>2, <1>3, <1>6
  <2>3. (\A v, u \in Workers : Holds(v) /\ Holds(u) /\ job[v].node = job[u].node => v = u)'
    BY <1>1, <1>5 DEF TokensSound
  <2>4. (\A m \in Nodes : status[m] = "pending" => fencing[m] = 0)'
    BY <1>1, <1>3 DEF TokensSound
  <2>5. (\A m \in lapsed : status[m] = "running")'
    BY <1>1, <1>3 DEF TokensSound, TypeOK
  <2> QED
    BY <2>1, <2>2, <2>3, <2>4, <2>5 DEF TokensSound
<1>8. AttemptsSound'
  <2>1. \A v \in Workers : (Holds(v) => /\ job[v].attempt = attempt[job[v].node]
                                        /\ attempt[job[v].node] > 0)'
    BY <1>1, <1>5 DEF AttemptsSound
  <2>2. (\A m \in Nodes : fencing[m] = 0 => attempt[m] = 0)'
    BY <1>1 DEF AttemptsSound
  <2>3. \A m \in Nodes : attempt[m] < MaxAttempts + (resumes + 1)
    BY <1>2, PolicyBound DEF AttemptsSound, TypeOK
  <2>4. \A m \in Nodes : attempt[m] <= MaxAttempts + (resumes + 1)
    <3>1. MaxAttempts + (resumes + 1) \in Nat /\ attempt \in [Nodes -> Nat]
      BY <1>2, PolicyBound DEF TypeOK
    <3> QED
      BY <2>3, <3>1
  <2> QED
    BY <2>1, <2>2, <2>3, <2>4, <1>1 DEF AttemptsSound
<1>9. WaitsSubscribed'
    BY <1>1, <1>3 DEF WaitsSubscribed
<1>10. ReadyUnownedAtFirst'
    BY <1>1, <1>2 DEF ReadyUnownedAtFirst
<1> QED
    BY <1>4, <1>7, <1>8, <1>9, <1>10

-----------------------------------------------------------------------------
(* Every step of the run *)

\* Claim, reclaim and resume do not touch a recorded outcome either.
LEMMA TokenStepsKeep ==
    ASSUME RunInv, \/ \E w \in Workers, n \in Nodes : Claim(w, n)
                   \/ \E n \in Nodes : Reclaim(n)
                   \/ Resume
    PROVE  RecordKept
<1>1. ASSUME NEW n \in Nodes, status[n] \in {"ready", "running"},
             taken' = taken,
             \A m \in Nodes : m # n => status'[m] = status[m] /\ fencing'[m] = fencing[m]
      PROVE  RecordKept
    BY <1>1 DEF RecordKept, Recorded
<1>2. ASSUME NEW w \in Workers, NEW n \in Nodes, Claim(w, n) PROVE RecordKept
  <2>1. \A m \in Nodes : m # n => status'[m] = status[m] /\ fencing'[m] = fencing[m]
    BY <1>2 DEF Claim, RunInv, TypeOK
  <2>2. status[n] = "ready" /\ taken' = taken
    BY <1>2 DEF Claim
  <2> QED
    BY <1>1, <2>1, <2>2
<1>3. ASSUME NEW n \in Nodes, Reclaim(n) PROVE RecordKept
  <2>1. \A m \in Nodes : m # n => status'[m] = status[m] /\ fencing'[m] = fencing[m]
    BY <1>3 DEF Reclaim, RunInv, TypeOK
  <2>2. status[n] = "running" /\ taken' = taken
    BY <1>3 DEF Reclaim, RunInv, TokensSound
  <2> QED
    BY <1>1, <2>1, <2>2
<1>4. CASE Resume
  <2>1. taken' = taken /\ fencing' = fencing
    BY <1>4 DEF Resume
  <2> QED
    BY <1>4, <2>1, ResumeSteps DEF RecordKept
<1> QED
    BY <1>2, <1>3, <1>4

\* Every other action is a transaction of the common shape.
LEMMA NextShaped ==
    ASSUME RunInv, Next
    PROVE  \/ \E w \in Workers, n \in Nodes : Claim(w, n)
           \/ \E n \in Nodes : Reclaim(n)
           \/ Resume
           \/ \E X \in SUBSET Nodes : Shaped(X)
<1>1. ASSUME NEW w \in Workers, Crash(w) PROVE Shaped({})
    BY <1>1, ReleaseShaped DEF Crash
<1>2. ASSUME NEW n \in Nodes, WakeTimer(n) PROVE Shaped({n})
  <2>1. status[n] \in Waiting /\ Wake(n, "out") /\ "out" \in Ports
    BY <1>2 DEF WakeTimer, Waiting, Ports
  <2> QED
    BY <2>1, WakeShaped
<1>3. ASSUME NEW n \in Nodes, WakeEvent(n) PROVE Shaped({n})
  <2>1. status[n] \in Waiting /\ Wake(n, "out") /\ "out" \in Ports
    BY <1>3 DEF WakeEvent, Ports
  <2> QED
    BY <2>1, WakeShaped
<1>4. {} \in SUBSET Nodes /\ \A n \in Nodes : {n} \in SUBSET Nodes
    OBVIOUS
<1>5. ASSUME NEW w \in Workers, Heartbeat(w) \/ Crash(w) \/ Checkpoint(w)
      PROVE  \E X \in SUBSET Nodes : Shaped(X)
    BY <1>1, <1>4, <1>5, HeartbeatShaped, CheckpointShaped
<1>6. ASSUME NEW n \in Nodes,
             LeaseLapses(n) \/ WakeTimer(n) \/ WakeEvent(n) \/ ExpireWait(n)
      PROVE  \E X \in SUBSET Nodes : Shaped(X)
    BY <1>2, <1>3, <1>4, <1>6, LeaseLapsesShaped, ExpireWaitShaped
<1>7. ASSUME Promote \/ TimeoutPasses \/ ExpireRun \/ RequestCancel \/ Drain
      PROVE  \E X \in SUBSET Nodes : Shaped(X)
    BY <1>4, <1>7, PromoteShaped, FlagsShaped, DrainShaped
<1> QED
    BY <1>5, <1>6, <1>7 DEF Next

LEMMA NextInv == RunInv /\ [Next]_vars => RunInv' /\ [RecordKept]_vars
<1> SUFFICES ASSUME RunInv, [Next]_vars PROVE RunInv' /\ [RecordKept]_vars
    OBVIOUS
<1>1. CASE Next
  <2>1. CASE \E w \in Workers, n \in Nodes : Claim(w, n)
    BY <2>1, ClaimInv, TokenStepsKeep
  <2>2. CASE \E n \in Nodes : Reclaim(n)
    BY <2>2, ReclaimInv, TokenStepsKeep
  <2>3. CASE Resume
    BY <2>3, ResumeInv, TokenStepsKeep
  <2>4. CASE \E X \in SUBSET Nodes : Shaped(X)
    <3>1. PICK X \in SUBSET Nodes : TypeOK' /\ WaitsSubscribed' /\ Transaction(X)
      BY <2>4 DEF Shaped
    <3> QED
      BY <3>1, TransactionInv, TransactionKeeps
  <2> QED
    BY <1>1, <2>1, <2>2, <2>3, <2>4, NextShaped
<1>2. CASE UNCHANGED vars
  <2>1. UNCHANGED <<status, taken, fencing, attempt, lapsed, unfired, run_status,
                    cancel_requested, timed_out, overdue, last_event, resumes, job>>
    BY <1>2 DEF vars, steps, run
  <2>2. RunInv'
    BY <2>1 DEF RunInv, TypeOK, TokensSound, AttemptsSound, WaitsSubscribed,
                ReadyUnownedAtFirst, ReadyUnowned, Holds
  <2> QED
    BY <1>2, <2>2
<1> QED
    BY <1>1, <1>2

(* RunInv is an invariant of every run: claim, checkpoint, reclaim, wakes,   *)
(* cancellation and resume keep tokens, attempts and subscriptions sound.    *)
THEOREM RunInvariant == Spec => []RunInv
<1>1. Init => RunInv
    BY InitInv
<1>2. RunInv /\ [Next]_vars => RunInv'
    BY NextInv
<1> QED
    BY <1>1, <1>2, PTL DEF Spec

\* At most one worker can write a step's outcome, for any number of workers:
\* fencing tokens as claim.rs, reclaim and advance.rs use them.
THEOREM TokensAreSound == Spec => []TokensSound
<1>1. RunInv => TokensSound
    BY DEF RunInv
<1> QED
    BY <1>1, RunInvariant, PTL

\* No step starts more often than its retry policy and the resumes allow.
THEOREM AttemptsAreSound == Spec => []AttemptsSound
<1>1. RunInv => AttemptsSound
    BY DEF RunInv
<1> QED
    BY <1>1, RunInvariant, PTL

\* A step waits for an event exactly while its subscription is open (wait.rs).
THEOREM WaitsAreSubscribed == Spec => []WaitsSubscribed
<1>1. RunInv => WaitsSubscribed
    BY DEF RunInv
<1> QED
    BY <1>1, RunInvariant, PTL

\* Until a run is resumed, nobody holds a step that waits to be claimed.
THEOREM ReadyStepsUnowned == Spec => []ReadyUnownedAtFirst
<1>1. RunInv => ReadyUnownedAtFirst
    BY DEF RunInv
<1> QED
    BY <1>1, RunInvariant, PTL

\* A recorded outcome is final, whatever late workers, cancellation and resume do.
THEOREM RecordedOutcomesFinal == Spec => CheckpointFinal
<1>1. RunInv /\ [Next]_vars => [RecordKept]_vars
    BY NextInv
<1> QED
    BY <1>1, RunInvariant, PTL DEF Spec, CheckpointFinal, RecordKept

\* A run that ended stays as it ended, but for a failed run that is resumed:
\* an inductive invariant is not needed, every writer's guard decides it.
THEOREM EndStatusIsFinal == Spec => EndStatusFinal
<1> DEFINE Kept == (run_status \in Ended /\ run_status' # run_status)
                     => run_status = "failed" /\ run_status' = "running" /\ resumes' = resumes + 1
<1>1. \A o : EndRun(o) => Kept
    BY DEF EndRun, Ended
<1>2. \A st, tk : Advance(st, tk) => Kept
  <2>1. \A st, tk : FinalizeRunIfDone(st, tk) => Kept
    BY <1>1 DEF FinalizeRunIfDone
  <2> QED
    BY <2>1 DEF Advance
<1>3. \A st : FailRun(st) => Kept
    BY <1>1 DEF FailRun
<1> HIDE DEF Kept
<1>4. run_status' = run_status => Kept
    BY DEF Kept
<1>5. ASSUME NEW w \in Workers, Checkpoint(w) PROVE Kept
    BY <1>2, <1>3, <1>4, <1>5 DEF Checkpoint, CheckpointZombie, Suspend, Succeed, Retry,
                                  FailToErrorPort, FailUnhandled, run
<1>6. ASSUME NEW n \in Nodes, NEW port, Wake(n, port) PROVE Kept
    BY <1>2, <1>6 DEF Wake
<1>7. ASSUME NEW n \in Nodes, ExpireWait(n) PROVE Kept
    BY <1>3, <1>6, <1>7 DEF ExpireWait
<1>8. ASSUME DrainOne \/ Promote \/ Resume PROVE Kept
    BY <1>8 DEF Kept, DrainOne, Promote, Resume, Ended
<1>9. ASSUME Next PROVE Kept
    BY <1>4, <1>5, <1>6, <1>7, <1>8, <1>9
       DEF Next, Claim, Heartbeat, Crash, LeaseLapses, Reclaim, WakeTimer, WakeEvent,
           TimeoutPasses, ExpireRun, RequestCancel, Drain, run
<1>10. [Next]_vars => [Kept]_vars
    BY <1>9
<1> QED
    BY <1>10, PTL DEF Spec, EndStatusFinal, Kept

-----------------------------------------------------------------------------
(* What is decided downstream *)

\* The recorded outcomes that made a step run, or be skipped.
LiveEdge(n) == \E e \in InEdges(n) : Recorded(e.from) /\ e.port \in taken[e.from]
DeadEdges(n) ==
    /\ InEdges(n) # {}
    /\ \A e \in InEdges(n) : Recorded(e.from) /\ e.port \notin taken[e.from]

\* Nothing is decided before the run starts, and nothing is undecided once it
\* has ended or steps of it are cancelled.
PendingSound ==
    /\ run_status = "queued" => \A n \in Nodes : status[n] = "pending"
    /\ run_status \in Ended => \A n \in Nodes : status[n] # "pending"
    /\ (\E n \in Nodes : status[n] = "cancelled") => \A n \in Nodes : status[n] # "pending"

\* While a run is running, its failures are handled and only a request to
\* stop has cancelled steps.
RunningSound ==
    run_status = "running" =>
        /\ \A n \in Nodes : status[n] = "failed" => taken[n] # {}
        /\ ~cancel_requested => \A n \in Nodes : status[n] # "cancelled"

\* Decisions have their reasons in recorded outcomes.
Started(n) == status[n] \notin {"pending", "skipped", "cancelled"} \/ fencing[n] # 0
ReasonsSound ==
    /\ \A n \in Nodes : status[n] = "skipped" => DeadEdges(n)
    /\ \A n \in Nodes : Started(n) => n \in Roots \/ LiveEdge(n)

AllRecorded == run_status = "succeeded" => \A n \in Nodes : Recorded(n)

DecisionInv == PendingSound /\ RunningSound /\ ReasonsSound /\ AllRecorded /\ NoneLeftPending

LEMMA EdgeNodes == \A n \in Nodes : \A e \in InEdges(n) : e.from \in Nodes /\ e.to = n
    BY GraphAssumption DEF InEdges

\* Recorded outcomes stay, and so do the reasons they are.
LEMMA ReasonsKept ==
    ASSUME RecordKept, NEW n \in Nodes
    PROVE  (LiveEdge(n) => LiveEdge(n)') /\ (DeadEdges(n) => DeadEdges(n)')
<1>1. \A m \in Nodes : Recorded(m) => Recorded(m)' /\ taken'[m] = taken[m]
    BY DEF RecordKept, Recorded
<1>2. LiveEdge(n) => LiveEdge(n)'
    BY <1>1, EdgeNodes DEF LiveEdge
<1>3. DeadEdges(n) => DeadEdges(n)'
    BY <1>1, EdgeNodes DEF DeadEdges
<1> QED
    BY <1>2, <1>3

LEMMA ReasonsSoundKept ==
    ASSUME ReasonsSound, RecordKept,
           \A n \in Nodes : status'[n] = "skipped" => status[n] = "skipped" \/ DeadEdges(n)',
           \A n \in Nodes : Started(n)' => Started(n) \/ n \in Roots \/ LiveEdge(n)'
    PROVE  ReasonsSound'
<1>1. \A n \in Nodes : status'[n] = "skipped" => DeadEdges(n)'
    BY ReasonsKept DEF ReasonsSound
<1>2. \A n \in Nodes : Started(n)' => n \in Roots \/ LiveEdge(n)'
    BY ReasonsKept DEF ReasonsSound
<1> QED
    BY <1>1, <1>2 DEF ReasonsSound

\* What the in-edges say depends on which sources are terminal.
LEMMA ReadinessKept ==
    ASSUME NEW st, NEW ns, NEW tk, \A m \in Nodes : st[m] \in Terminal <=> ns[m] \in Terminal, NEW n \in Nodes
    PROVE  (IsReady(n, st, tk) <=> IsReady(n, ns, tk)) /\ (IsSkipped(n, st, tk) <=> IsSkipped(n, ns, tk))
<1>1. Live(n, st, tk) <=> Live(n, ns, tk)
    BY EdgeNodes DEF Live
<1>2. Unresolved(n, st) <=> Unresolved(n, ns)
    BY EdgeNodes DEF Unresolved
<1> QED
    BY <1>1, <1>2 DEF IsReady, IsSkipped

\* advance_downstream decides by recorded outcomes, if no step is cancelled and
\* failures are handled.
LEMMA Decided ==
    ASSUME NEW st, IsAdvanced(st, taken', status'), NEW n \in Nodes, st[n] = "pending",
           \A m \in Nodes : status'[m] # "cancelled",
           \A m \in Nodes : status'[m] = "failed" => taken'[m] # {}
    PROVE  (status'[n] = "ready" => LiveEdge(n)') /\ (status'[n] = "skipped" => DeadEdges(n)')
<1>1. \A m \in Nodes : status'[m] \in Terminal => Recorded(m)'
    BY DEF Terminal, Recorded
<1>2. (status'[n] = "ready" => IsReady(n, status', taken')) /\ (status'[n] = "skipped" => IsSkipped(n, status', taken'))
    BY DEF IsAdvanced
<1>3. Live(n, status', taken') => LiveEdge(n)'
    BY <1>1, EdgeNodes DEF Live, LiveEdge
<1>4. IsSkipped(n, status', taken') => DeadEdges(n)'
    BY <1>1, EdgeNodes DEF IsSkipped, Live, Unresolved, DeadEdges
<1> QED
    BY <1>2, <1>3, <1>4 DEF IsReady

\* A fixpoint leaves no step that could be decided.
LEMMA FixpointDecides ==
    ASSUME NEW st, IsAdvanced(st, taken', status')
    PROVE  NoneLeftPending'
    BY DEF IsAdvanced, NoneLeftPending

LEMMA InitDecisions == Init => DecisionInv
<1> SUFFICES ASSUME Init PROVE DecisionInv
    OBVIOUS
<1>1. \A n \in Nodes : status[n] = "pending" \/ (status[n] = "ready" /\ n \in Roots)
    BY DEF Init
<1>2. run_status \in {"queued", "running"} /\ \A n \in Nodes : fencing[n] = 0
    BY DEF Init
<1>3. PendingSound
    BY <1>1, <1>2 DEF Init, PendingSound, Ended
<1>4. RunningSound /\ AllRecorded
    BY <1>1, <1>2 DEF RunningSound, AllRecorded
<1>5. ReasonsSound
    BY <1>1, <1>2 DEF ReasonsSound, Started
<1>6. NoneLeftPending
    BY <1>1, EdgeNodes DEF NoneLeftPending, IsReady, IsSkipped, Live, Unresolved, Terminal
<1> QED
    BY <1>3, <1>4, <1>5, <1>6 DEF DecisionInv

-----------------------------------------------------------------------------
(* Steps that decide nothing *)

LEMMA SameDecisions ==
    ASSUME RunInv, DecisionInv, UNCHANGED <<status, taken, fencing, run_status>>, cancel_requested' \in {cancel_requested, TRUE}
    PROVE  DecisionInv'
<1>1. PendingSound' /\ RunningSound' /\ AllRecorded'
    BY DEF DecisionInv, PendingSound, RunningSound, AllRecorded, Recorded
<1>2. ReasonsSound'
    BY DEF DecisionInv, ReasonsSound, Started, DeadEdges, LiveEdge, Recorded
<1>3. NoneLeftPending'
    BY DEF DecisionInv, NoneLeftPending
<1> QED
    BY <1>1, <1>2, <1>3 DEF DecisionInv

\* A step that was started goes on: it is claimed, suspended, retried or reclaimed.
LEMMA LocalDecisions ==
    ASSUME RunInv, DecisionInv, RecordKept, NEW n \in Nodes,
           status[n] \in {"running", "cancelled", "ready"}, Started(n),
           status'[n] \in {"running", "ready"} \cup Waiting,
           \A m \in Nodes : m # n => status'[m] = status[m] /\ fencing'[m] = fencing[m],
           UNCHANGED <<taken, run_status, cancel_requested>>
    PROVE  DecisionInv'
<1>1. \A m \in Nodes : status'[m] \in {"pending", "cancelled", "failed", "skipped"} => m # n /\ status'[m] = status[m]
    BY DEF Waiting
<1>2. run_status # "queued" /\ run_status # "succeeded"
    BY DEF DecisionInv, PendingSound, AllRecorded, Recorded
<1>3. PendingSound' /\ RunningSound' /\ AllRecorded'
    BY <1>1, <1>2 DEF DecisionInv, PendingSound, RunningSound, AllRecorded
<1>4. ReasonsSound'
    BY <1>1, ReasonsSoundKept DEF DecisionInv, Started
<1>5. NoneLeftPending'
  <2> SUFFICES ASSUME run_status = "running", NEW k \in Nodes, status'[k] = "pending"
               PROVE  ~IsReady(k, status', taken) /\ ~IsSkipped(k, status', taken)
    BY DEF NoneLeftPending
  <2>1. k # n /\ status[k] = "pending" /\ status[n] # "cancelled"
    BY <1>1 DEF DecisionInv, PendingSound
  <2>2. \A m \in Nodes : status[m] \in Terminal <=> status'[m] \in Terminal
    BY <2>1 DEF Terminal, Waiting
  <2>3. ~IsReady(k, status, taken) /\ ~IsSkipped(k, status, taken)
    BY <2>1 DEF DecisionInv, NoneLeftPending
  <2> QED
    BY <2>2, <2>3, ReadinessKept
<1> QED
    BY <1>3, <1>4, <1>5 DEF DecisionInv

-----------------------------------------------------------------------------
(* Steps that decide *)

\* A step gets its outcome, and the run advances.
LEMMA AdvanceDecisions ==
    ASSUME RunInv, DecisionInv, RecordKept, NEW n \in Nodes, NEW o \in {"succeeded", "failed"}, NEW ports,
           o = "failed" => ports # {}, status[n] # "pending", ~Recorded(n), Started(n),
           taken' = [taken EXCEPT ![n] = ports], Advance([status EXCEPT ![n] = o], [taken EXCEPT ![n] = ports]),
           UNCHANGED <<fencing, cancel_requested>>
    PROVE  DecisionInv'
<1> DEFINE st == [status EXCEPT ![n] = o]
<1>1. /\ status'[n] = o
      /\ \A m \in Nodes \ {n} : \/ status'[m] = status[m]
                                \/ status[m] = "pending" /\ status'[m] \in {"ready", "skipped"}
    BY AdvanceFollows DEF RunInv
<1>2. st[n] = o /\ taken'[n] = ports /\ \A m \in Nodes \ {n} : st[m] = status[m] /\ taken'[m] = taken[m]
    BY DEF RunInv, TypeOK
<1> HIDE DEF st
<1>3. IsAdvanced(st, taken', status') /\ FinalizeRunIfDone(status', taken')
    BY DEF Advance, st
<1>4. run_status \in {"running"} \cup Ended /\ run_status # "succeeded"
    BY DEF RunInv, TypeOK, RunStatus, DecisionInv, PendingSound, AllRecorded
<1>5. \/ run_status' = run_status
      \/ /\ run_status = "running" /\ run_status' \in Ended /\ \A m \in Nodes : status'[m] \in Terminal
         /\ run_status' = "succeeded" =>
              /\ ~cancel_requested /\ \A m \in Nodes : status'[m] = "failed" => taken'[m] # {}
    BY <1>3 DEF FinalizeRunIfDone, EndRun, Ended
<1>6. \A m \in Nodes : status'[m] = "pending" => status[m] = "pending"
    BY <1>1
<1>7. \A m \in Nodes : status'[m] = "cancelled" => status[m] = "cancelled"
    BY <1>1
<1>8. PendingSound'
  <2>1. run_status' # "queued"
    BY <1>4, <1>5 DEF Ended
  <2>2. run_status' \in Ended => \A m \in Nodes : status'[m] # "pending"
    BY <1>5, <1>6 DEF DecisionInv, PendingSound, Terminal
  <2>3. (\E m \in Nodes : status'[m] = "cancelled") => \A m \in Nodes : status'[m] # "pending"
    BY <1>6, <1>7 DEF DecisionInv, PendingSound
  <2> QED
    BY <2>1, <2>2, <2>3 DEF PendingSound
<1>9. run_status = "running" => \A m \in Nodes : status'[m] = "failed" => taken'[m] # {}
    BY <1>1, <1>2 DEF DecisionInv, RunningSound
<1>10. RunningSound'
  <2>1. run_status' = "running" => run_status = "running"
    BY <1>5 DEF Ended
  <2> QED
    BY <1>7, <1>9, <2>1 DEF DecisionInv, RunningSound
<1>11. AllRecorded'
  <2> SUFFICES ASSUME run_status' = "succeeded", NEW m \in Nodes PROVE Recorded(m)'
    BY DEF AllRecorded
  <2>1. status'[m] \in Terminal /\ (status'[m] = "failed" => taken'[m] # {}) /\ run_status = "running" /\ ~cancel_requested
    BY <1>4, <1>5
  <2>2. status'[m] # "cancelled"
    BY <1>7, <2>1 DEF DecisionInv, RunningSound
  <2> QED
    BY <2>1, <2>2 DEF Recorded, Terminal
<1>12. NoneLeftPending'
    BY <1>3, FixpointDecides
<1>13. ReasonsSound'
  <2>1. ASSUME NEW m \in Nodes, status'[m] # status[m], m # n
        PROVE  (status'[m] = "ready" => LiveEdge(m)') /\ (status'[m] = "skipped" => DeadEdges(m)')
               /\ status'[m] \in {"ready", "skipped"}
    <3>1. status[m] = "pending" /\ status'[m] \in {"ready", "skipped"} /\ st[m] = "pending"
      BY <1>1, <1>2, <2>1
    <3>2. run_status = "running" /\ \A k \in Nodes : status'[k] # "cancelled"
      BY <1>4, <1>7, <3>1 DEF DecisionInv, PendingSound
    <3> QED
      BY <1>3, <1>9, <3>1, <3>2, Decided
  <2>2. \A m \in Nodes : status'[m] = "skipped" => status[m] = "skipped" \/ DeadEdges(m)'
    BY <1>1, <2>1
  <2>3. \A m \in Nodes : Started(m)' => Started(m) \/ m \in Roots \/ LiveEdge(m)'
    BY <1>1, <2>1 DEF Started
  <2> QED
    BY <2>2, <2>3, ReasonsSoundKept DEF DecisionInv
<1> QED
    BY <1>8, <1>10, <1>11, <1>12, <1>13 DEF DecisionInv

\* A step fails the run.
LEMMA FailDecisions ==
    ASSUME RunInv, DecisionInv, RecordKept, NEW n \in Nodes, status[n] # "pending", ~Recorded(n), Started(n),
           FailRun([status EXCEPT ![n] = "failed"]), UNCHANGED fencing
    PROVE  DecisionInv'
<1>1. /\ status'[n] = "failed"
      /\ \A m \in Nodes \ {n} : IF status[m] \in Terminal THEN status'[m] = status[m] ELSE status'[m] = "cancelled"
    BY FailFollows DEF RunInv
<1>2. \A m \in Nodes : status'[m] \in Terminal
    BY <1>1 DEF Terminal
<1>3. run_status \in {"running"} \cup Ended /\ run_status # "succeeded"
    BY DEF RunInv, TypeOK, RunStatus, DecisionInv, PendingSound, AllRecorded
<1>4. run_status' \in Ended /\ run_status' # "succeeded"
    BY <1>3 DEF FailRun, EndRun, Ended
<1>5. PendingSound' /\ RunningSound' /\ AllRecorded' /\ NoneLeftPending'
    BY <1>2, <1>4 DEF PendingSound, RunningSound, AllRecorded, NoneLeftPending, Ended, Terminal
<1>6. ReasonsSound'
  <2>1. \A m \in Nodes : status'[m] = "skipped" => status[m] = "skipped"
    BY <1>1
  <2>2. \A m \in Nodes : Started(m)' => Started(m)
    BY <1>1 DEF Started
  <2> QED
    BY <2>1, <2>2, ReasonsSoundKept DEF DecisionInv
<1> QED
    BY <1>5, <1>6 DEF DecisionInv

LEMMA DrainDecisions ==
    ASSUME RunInv, DecisionInv, RecordKept, RequestCancel \/ Drain
    PROVE  DecisionInv'
<1>1. DrainOne /\ cancel_requested'
    BY DEF RequestCancel, Drain
<1>2. \A m \in Nodes : status'[m] = (IF Drained(m) THEN "cancelled" ELSE status[m])
    BY <1>1 DEF DrainOne
<1>3. \A m \in Nodes : status'[m] # "pending"
    BY <1>2 DEF Drained
<1>4. run_status' # "queued" /\ run_status' # "succeeded"
      /\ (run_status' = "running" => run_status = "running")
  <2>1. CASE run_status = "queued"
    BY <1>1, <2>1 DEF DrainOne, DecisionInv, PendingSound
  <2>2. CASE run_status = "running"
    BY <1>1, <2>2 DEF DrainOne
  <2> QED
    BY <1>1, <2>1, <2>2 DEF DrainOne
<1>5. UNCHANGED <<taken, fencing>>
    BY <1>1 DEF DrainOne
<1>6. PendingSound' /\ RunningSound' /\ AllRecorded' /\ NoneLeftPending'
    BY <1>1, <1>2, <1>3, <1>4, <1>5 DEF PendingSound, RunningSound, AllRecorded, NoneLeftPending, DecisionInv
<1>7. ReasonsSound'
  <2>1. \A m \in Nodes : (status'[m] = "skipped" => status[m] = "skipped") /\ (Started(m)' => Started(m))
    BY <1>2, <1>5 DEF Started
  <2> QED
    BY <2>1, ReasonsSoundKept DEF DecisionInv
<1> QED
    BY <1>6, <1>7 DEF DecisionInv

LEMMA PromoteDecisions ==
    ASSUME RunInv, DecisionInv, RecordKept, Promote
    PROVE  DecisionInv'
<1>1. \A m \in Nodes : status[m] = "pending"
    BY DEF Promote, DecisionInv, PendingSound
<1>2. \A m \in Nodes : status'[m] = "pending" \/ (status'[m] = "ready" /\ m \in Roots)
    BY <1>1 DEF Promote
<1>3. run_status' = "running" /\ UNCHANGED <<taken, fencing>>
    BY DEF Promote
<1>4. PendingSound' /\ RunningSound' /\ AllRecorded'
    BY <1>2, <1>3 DEF PendingSound, RunningSound, AllRecorded, Ended
<1>5. NoneLeftPending'
    BY <1>2, EdgeNodes DEF NoneLeftPending, IsReady, IsSkipped, Live, Unresolved, Terminal
<1>6. ReasonsSound'
    BY <1>2, <1>3, ReasonsSoundKept DEF DecisionInv, Started
<1> QED
    BY <1>4, <1>5, <1>6 DEF DecisionInv

\* Nothing is cancelled any more, and what was never claimed is decided anew.
LEMMA ResumeDecisions ==
    ASSUME RunInv, DecisionInv, RecordKept, Resume
    PROVE  DecisionInv'
<1> DEFINE st == [m \in Nodes |-> Reset(m)]
<1>1. \A m \in Nodes : status[m] # "pending"
    BY DEF Resume, DecisionInv, PendingSound, Ended
<1>2. \A m \in Nodes : /\ st[m] # "cancelled"
                       /\ st[m] = "failed" => taken[m] # {}
                       /\ st[m] = "skipped" => status[m] = "skipped"
                       /\ st[m] \notin {"pending", "skipped"} => Started(m)
    BY <1>1 DEF Reset, Started
<1>3. st \in [Nodes -> StepStatus]
  <2>1. \A m \in Nodes : Reset(m) \in StepStatus
    BY DEF Reset, RunInv, TypeOK, StepStatus
  <2> QED
    BY <2>1
<1>4. PICK ns \in Candidates(st) : IsAdvanced(st, taken, ns) /\ status' = ns
    BY DEF Resume
<1>5. run_status' = "running" /\ UNCHANGED <<taken, fencing>>
    BY DEF Resume
<1> HIDE DEF st
<1>6. \A m \in Nodes : status'[m] = st[m] \/ (st[m] = "pending" /\ status'[m] \in {"ready", "skipped"})
    BY <1>3, <1>4, AdvanceKeeps
<1>7. IsAdvanced(st, taken', status')
    BY <1>4, <1>5
<1>8. \A m \in Nodes : status'[m] # "cancelled" /\ (status'[m] = "failed" => taken'[m] # {})
    BY <1>2, <1>5, <1>6
<1>9. PendingSound' /\ RunningSound' /\ AllRecorded'
    BY <1>5, <1>8 DEF PendingSound, RunningSound, AllRecorded, Ended
<1>10. NoneLeftPending'
    BY <1>7, FixpointDecides
<1>11. ReasonsSound'
  <2>1. \A m \in Nodes : status'[m] = "skipped" => status[m] = "skipped" \/ DeadEdges(m)'
    BY <1>2, <1>6, <1>7, <1>8, Decided
  <2>2. \A m \in Nodes : Started(m)' => Started(m) \/ m \in Roots \/ LiveEdge(m)'
    <3> SUFFICES ASSUME NEW m \in Nodes, Started(m)', ~Started(m) PROVE LiveEdge(m)'
      OBVIOUS
    <3>1. status'[m] \notin {"pending", "skipped", "cancelled"}
      BY <1>5 DEF Started
    <3>2. st[m] = "pending" /\ status'[m] = "ready"
      BY <1>2, <1>6, <3>1
    <3> QED
      BY <1>7, <1>8, <3>2, Decided
  <2> QED
    BY <2>1, <2>2, ReasonsSoundKept DEF DecisionInv
<1> QED
    BY <1>9, <1>10, <1>11 DEF DecisionInv

-----------------------------------------------------------------------------
(* Every step of the run keeps its decisions sound *)

LEMMA CheckpointDecisions ==
    ASSUME RunInv, DecisionInv, RecordKept, NEW w \in Workers, Checkpoint(w)
    PROVE  DecisionInv'
<1> DEFINE n == job[w].node
<1>1. CASE CheckpointZombie(w)
    BY <1>1, SameDecisions DEF CheckpointZombie, steps, run
<1>2. ASSUME Settle(w)
      PROVE  /\ n \in Nodes /\ status[n] \in {"running", "cancelled", "ready"} /\ ~Recorded(n) /\ Started(n)
             /\ UNCHANGED <<fencing, cancel_requested>> /\ status[n] # "pending"
    BY <1>2, SettleFacts DEF flags, Started
<1>3. ASSUME NEW k, Suspend(w, k) \/ Retry(w, k) PROVE DecisionInv'
  <2>1. Settle(w) /\ UNCHANGED <<taken, run_status>> /\ \E s \in {"running", "ready"} \cup Waiting : status' = [status EXCEPT ![n] = s]
    BY <1>3 DEF Suspend, Retry, WaitStatus, Waiting
  <2>2. status'[n] \in {"running", "ready"} \cup Waiting /\ \A m \in Nodes : m # n => status'[m] = status[m]
    BY <1>2, <2>1 DEF RunInv, TypeOK
  <2> HIDE DEF n
  <2> QED
    BY <1>2, <2>1, <2>2, LocalDecisions
<1>4. ASSUME NEW ports, Succeed(w, ports) PROVE DecisionInv'
  <2>1. Settle(w) /\ taken' = [taken EXCEPT ![n] = ports]
        /\ Advance([status EXCEPT ![n] = "succeeded"], [taken EXCEPT ![n] = ports])
    BY <1>4 DEF Succeed
  <2> HIDE DEF n
  <2> QED
    BY <1>2, <2>1, AdvanceDecisions
<1>5. ASSUME NEW k, FailToErrorPort(w, k) PROVE DecisionInv'
  <2>1. Settle(w) /\ taken' = [taken EXCEPT ![n] = {"error"}]
        /\ Advance([status EXCEPT ![n] = "failed"], [taken EXCEPT ![n] = {"error"}])
    BY <1>5 DEF FailToErrorPort
  <2>2. {"error"} # {}
    OBVIOUS
  <2> HIDE DEF n
  <2> QED
    BY <1>2, <2>1, <2>2, AdvanceDecisions
<1>6. ASSUME NEW k, FailUnhandled(w, k) PROVE DecisionInv'
  <2>1. Settle(w) /\ FailRun([status EXCEPT ![n] = "failed"])
    BY <1>6 DEF FailUnhandled
  <2> HIDE DEF n
  <2> QED
    BY <1>2, <2>1, FailDecisions
<1> QED
    BY <1>1, <1>3, <1>4, <1>5, <1>6 DEF Checkpoint

LEMMA WaitDecisions ==
    ASSUME RunInv, DecisionInv, RecordKept, NEW n \in Nodes, WakeTimer(n) \/ WakeEvent(n) \/ ExpireWait(n)
    PROVE  DecisionInv'
<1>1. status[n] \in Waiting /\ status[n] # "pending" /\ ~Recorded(n) /\ Started(n)
    BY DEF WakeTimer, WakeEvent, ExpireWait, Waiting, Recorded, Started
<1>2. ASSUME NEW port, Wake(n, port) PROVE DecisionInv'
  <2>1. taken' = [taken EXCEPT ![n] = {port}] /\ UNCHANGED <<fencing, cancel_requested>>
        /\ Advance([status EXCEPT ![n] = "succeeded"], [taken EXCEPT ![n] = {port}])
    BY <1>2 DEF Wake
  <2> QED
    BY <1>1, <2>1, AdvanceDecisions
<1>3. ASSUME FailRun([status EXCEPT ![n] = "failed"]), UNCHANGED fencing PROVE DecisionInv'
    BY <1>1, <1>3, FailDecisions
<1> QED
    BY <1>2, <1>3 DEF WakeTimer, WakeEvent, ExpireWait

LEMMA NextDecisions == RunInv /\ DecisionInv /\ [Next]_vars => DecisionInv'
<1> SUFFICES ASSUME RunInv, DecisionInv, [Next]_vars PROVE DecisionInv'
    OBVIOUS
<1>1. CASE UNCHANGED vars
    BY <1>1, SameDecisions DEF vars, steps, run
<1>2. CASE Next
  <2>1. CASE UNCHANGED vars
    BY <1>1, <2>1
  <2>2. CASE ~UNCHANGED vars
    <3>1. RecordKept
      BY <2>2, NextInv
    <3>2. ASSUME NEW n \in Nodes, (\E w \in Workers : Claim(w, n)) \/ Reclaim(n) PROVE DecisionInv'
      <4>1. status[n] \in {"ready", "running"} /\ UNCHANGED <<taken, run_status, cancel_requested>> /\ Started(n)
        BY <3>2 DEF Claim, Reclaim, run, RunInv, TokensSound, Started
      <4>2. status'[n] \in {"running", "ready"}
            /\ \A m \in Nodes : m # n => status'[m] = status[m] /\ fencing'[m] = fencing[m]
        BY <3>2 DEF Claim, Reclaim, RunInv, TypeOK
      <4> QED
        BY <3>1, <4>1, <4>2, LocalDecisions
    <3>3. ASSUME NEW w \in Workers, Heartbeat(w) \/ Crash(w) PROVE DecisionInv'
      BY <3>3, SameDecisions DEF Heartbeat, Crash, steps, run
    <3>4. ASSUME NEW n \in Nodes, LeaseLapses(n) PROVE DecisionInv'
      BY <3>4, SameDecisions DEF LeaseLapses, run
    <3>5. ASSUME TimeoutPasses \/ ExpireRun PROVE DecisionInv'
      BY <3>5, SameDecisions DEF TimeoutPasses, ExpireRun, steps
    <3> QED
      BY <1>2, <3>1, <3>2, <3>3, <3>4, <3>5, CheckpointDecisions, WaitDecisions, PromoteDecisions, DrainDecisions,
         ResumeDecisions DEF Next
  <2> QED
    BY <2>1, <2>2
<1> QED
    BY <1>1, <1>2

(* What is decided downstream has its reasons in recorded outcomes, in every *)
(* state of every run (advance_downstream, drain_one, resume_failed).        *)
THEOREM DecisionInvariant == Spec => []DecisionInv
    BY InitDecisions, NextDecisions, RunInvariant, PTL DEF Spec

(* advance_downstream leaves no step of a running run that its in-edges      *)
(* decide: not after checkpoints in any order, wakes, expired waits,         *)
(* cancellation, late workers and resume.                                    *)
THEOREM NothingLeftPending == Spec => []NoneLeftPending
<1>1. DecisionInv => NoneLeftPending
    BY DEF DecisionInv
<1> QED
    BY <1>1, DecisionInvariant, PTL

(* A run that succeeded ran exactly the steps its live edges lead to and     *)
(* skipped the others, for every graph (finalize_run_if_done).               *)
THEOREM SuccessIsSound == Spec => []SuccessSound
<1>1. DecisionInv => SuccessSound
  <2> SUFFICES ASSUME DecisionInv, run_status = "succeeded", NEW n \in Nodes
               PROVE  /\ Recorded(n)
                      /\ status[n] = "skipped" <=> n \notin Roots /\ ~Live(n, status, taken)
    BY DEF SuccessSound
  <2>1. \A m \in Nodes : Recorded(m) /\ status[m] \in Terminal
    BY DEF DecisionInv, AllRecorded, Recorded, Terminal
  <2>2. LiveEdge(n) => Live(n, status, taken)
    BY <2>1, EdgeNodes DEF LiveEdge, Live
  <2>3. DeadEdges(n) => n \notin Roots /\ ~Live(n, status, taken)
    BY DEF DeadEdges, InEdges, Roots, Live
  <2>4. status[n] # "skipped" => Started(n)
    BY <2>1 DEF Recorded, Started
  <2> QED
    BY <2>1, <2>2, <2>3, <2>4 DEF DecisionInv, ReasonsSound
<1> QED
    BY <1>1, DecisionInvariant, PTL

-----------------------------------------------------------------------------
(* Triggers *)

Holding == {"launch", "record"}

\* The row lock: nobody else works on the key of a scheduler that holds its row.
Locks ==
    /\ \A s \in Schedulers :
          /\ tick[s].launched => tick[s].pc = "record"
          /\ tick[s].pc \in Holding =>
                tick[s].key \in Keys /\ tick[s].key \in tick[s].todo /\ row[tick[s].key] # "run"
    /\ \A s, t \in Schedulers :
          s # t /\ tick[s].pc \in Holding /\ tick[t].pc \in Holding => tick[s].key # tick[t].key

\* Every run of a key is recorded, about to be, or lost its record.
Accounted ==
    \A k \in Keys :
        /\ runs[k] <= unrecorded[k] + 1
        /\ row[k] # "run" /\ ~(\E s \in Schedulers : tick[s].launched /\ tick[s].key = k)
              => runs[k] <= unrecorded[k]

\* What a tick has not fired yet.
Pending(s, k) ==
    IF catchup = "all" THEN k \in tick[s].todo ELSE \E j \in Times : j \in tick[s].todo /\ k <= j

\* A tick that will raise the highest watermark fires what it then passes.
Planned ==
    \A s \in Schedulers :
        /\ tick[s].pc = "plan" => ~tick[s].events
        /\ tick[s].pc = "scan" => tick[s].todo \subseteq Events
        /\ tick[s].pc \in {"fire", "launch", "record"} /\ ~tick[s].events /\ high <= tick[s].now =>
              \A k \in Times : Wanted(k, tick[s].now) => Covered(k) \/ Pending(s, k)
        /\ tick[s].pc \in {"fire", "launch", "record"} /\ tick[s].events =>
              \A e \in tick[s].batch : e \in tick[s].todo \/ row[e] # "absent"

IInv == SchedulerTypes /\ Locks /\ Accounted /\ Planned /\ NonePassedOver

-----------------------------------------------------------------------------
(* A bounded set of times that is not empty has a last element, which is what *)
(* latest_occurrence_between returns.                                        *)
LEMMA LatestExists ==
    ASSUME NEW S \in SUBSET (1..MaxTime), NEW k \in S
    PROVE  \E m \in Latest(S) : k <= m
<1> DEFINE R == OpToRel(<, Nat)
           T == {MaxTime - j : j \in S}
<1>1. T \subseteq Nat /\ T # {}
  BY SchedulerAssumption
<1>2. PICK x \in T : \A y \in T : ~(<<y, x>> \in R)
  <2> HIDE DEF R, T
  <2> QED BY <1>1, WFMin, NatLessThanWellFounded DEF R
<1>3. \A y \in T : x <= y
  <2> SUFFICES ASSUME NEW y \in T, y < x PROVE FALSE
    BY <1>1
  <2>1. <<y, x>> \in R
    BY <1>1 DEF OpToRel
  <2> QED BY <2>1, <1>2
<1>4. PICK m \in S : x = MaxTime - m
  OBVIOUS
<1>5. \A j \in S : j <= m
  <2> SUFFICES ASSUME NEW j \in S PROVE j <= m
    OBVIOUS
  <2>1. x <= MaxTime - j
    BY <1>3
  <2> QED BY <2>1, <1>4, SchedulerAssumption
<1> QED BY <1>4, <1>5 DEF Latest

(* The states a tick is put into are tick states.                           *)
LEMMA TickStates ==
    /\ Idle \in TickState
    /\ \A x \in TickState : [x EXCEPT !.pc = "relay"] \in TickState
    /\ \A x \in TickState, K \in SUBSET Keys : [x EXCEPT !.pc = "scan", !.todo = K] \in TickState
    /\ \A x \in TickState, B \in SUBSET Events :
          [x EXCEPT !.pc = "fire", !.events = TRUE, !.todo = B, !.batch = B] \in TickState
    /\ \A x \in TickState, K \in SUBSET Keys :
          [x EXCEPT !.pc = "fire", !.todo = K, !.key = NoKey, !.launched = FALSE] \in TickState
<1>1. Idle \in TickState
  <2>1. 0 \in 0..MaxTime
    BY SchedulerAssumption
  <2> QED BY <2>1 DEF Idle, TickState, Steps
<1>2. \A x \in TickState : [x EXCEPT !.pc = "relay"] \in TickState
  BY DEF TickState, Steps
<1>3. \A x \in TickState, B \in SUBSET Events :
          [x EXCEPT !.pc = "fire", !.events = TRUE, !.todo = B, !.batch = B] \in TickState
  BY DEF TickState, Steps, Keys
<1>4. \A x \in TickState, K \in SUBSET Keys :
          [x EXCEPT !.pc = "fire", !.todo = K, !.key = NoKey, !.launched = FALSE] \in TickState
  BY DEF TickState, Steps
<1>5. \A x \in TickState, K \in SUBSET Keys : [x EXCEPT !.pc = "scan", !.todo = K] \in TickState
  BY DEF TickState, Steps
<1> QED BY <1>1, <1>2, <1>3, <1>4, <1>5

\* A new trigger satisfies the invariant.
LEMMA InitHolds == SchedulerInit => IInv
<1> SUFFICES ASSUME SchedulerInit PROVE IInv
  OBVIOUS
<1> USE SchedulerAssumption DEF SchedulerInit, Idle, Keys, NoKey
<1>1. SchedulerTypes
  <2> HIDE DEF Idle
  <2>1. tick \in [Schedulers -> TickState]
    BY TickStates
  <2>2. lease \in [owner : Schedulers \cup {None}, valid : BOOLEAN]
    OBVIOUS
  <2> QED BY <2>1, <2>2 DEF SchedulerTypes
<1>2. Locks
  BY DEF Locks, Holding
<1>3. Accounted
  BY DEF Accounted
<1>4. Planned
  BY DEF Planned
<1>5. NonePassedOver
  BY DEF NonePassedOver, Wanted
<1> QED BY <1>1, <1>2, <1>3, <1>4, <1>5 DEF IInv

\* Taking or renewing the lease keeps the invariant.
LEMMA AcquireKeeps ==
    ASSUME IInv, NEW s \in Schedulers, Acquire(s)
    PROVE  IInv'
<1> USE SchedulerAssumption DEF IInv, Acquire, Idle, db, NoKey
<1>1. SchedulerTypes'
  BY DEF SchedulerTypes, TickState, Steps, Keys, None
<1>2. Locks'
  BY DEF SchedulerTypes, TickState, Locks, Holding, Locked, IsNext
<1>3. Accounted'
  BY DEF SchedulerTypes, TickState, Accounted, Locks, Holding
<1>4. Planned'
  BY DEF SchedulerTypes, TickState, Planned, Wanted, Covered, Pending, Locks, Holding
<1>5. NonePassedOver'
  BY DEF SchedulerTypes, TickState, NonePassedOver, Wanted, Covered, Planned
<1> QED BY <1>1, <1>2, <1>3, <1>4, <1>5

\* Planning a tick: the due occurrences include all it will pass keeps the invariant.
LEMMA PlanKeeps ==
    ASSUME IInv, NEW s \in Schedulers, Plan(s)
    PROVE  IInv'
<1> USE SchedulerAssumption DEF IInv, Plan, Idle, db, NoKey
<1>1. SchedulerTypes'
  <2>0. Due(watermark, tick[s].now) \subseteq Keys
    BY DEF Due, Latest, Keys, SchedulerTypes
  <2>1. [tick[s] EXCEPT !.pc = "fire", !.todo = Due(watermark, tick[s].now)] \in TickState
    BY <2>0, ZenonT(40) DEF SchedulerTypes, TickState, Steps
  <2>2. tick' \in [Schedulers -> TickState]
    BY <2>1 DEF SchedulerTypes
  <2> QED BY <2>2 DEF SchedulerTypes, TickState, Keys
<1>2. Locks'
  BY DEF SchedulerTypes, TickState, Locks, Holding, Locked, IsNext
<1>3. Accounted'
  BY DEF SchedulerTypes, TickState, Accounted, Locks, Holding
<1>4. Planned'
  <2> DEFINE between == {k \in Times : watermark < k /\ k <= tick[s].now}
  <2>1. tick'[s].todo = Due(watermark, tick[s].now) /\ tick'[s].now = tick[s].now
        /\ \A t \in Schedulers \ {s} : tick'[t] = tick[t]
    BY DEF SchedulerTypes, TickState
  <2>2. tick'[s].events => tick'[s].batch = tick[s].batch /\ tick[s].events
    BY DEF SchedulerTypes, TickState
  <2>3. ~tick[s].events
    BY DEF Planned
  <2>4. ASSUME NEW k \in Times, Wanted(k, tick[s].now), high <= tick[s].now
        PROVE  Covered(k) \/ (IF catchup = "all" THEN k \in Due(watermark, tick[s].now)
                              ELSE \E j \in Times : j \in Due(watermark, tick[s].now) /\ k <= j)
    <3>1. CASE k <= watermark
      <4>1. Wanted(k, high)
        BY <2>4, <3>1 DEF Wanted, SchedulerTypes, TickState
      <4> QED BY <4>1 DEF NonePassedOver
    <3>2. CASE ~(k <= watermark)
      <4>1. k \in between /\ between \in SUBSET (1..MaxTime)
        BY <2>4, <3>2 DEF Wanted, SchedulerTypes
      <4>2. PICK m \in Latest(between) : k <= m
        BY <4>1, LatestExists
      <4>3. m \in Times /\ m <= tick[s].now /\ m \in between
        BY <4>2 DEF Latest
      <4>4. catchup = "none" => tick[s].now - m <= Grace
        BY <2>4, <4>2, <4>3 DEF Wanted, SchedulerTypes, TickState
      <4>5. CASE catchup = "all"
        BY <4>1, <4>5 DEF Due
      <4>6. CASE catchup = "skip"
        BY <4>2, <4>3, <4>6 DEF Due
      <4>7. CASE catchup = "none"
        BY <4>2, <4>3, <4>4, <4>7 DEF Due
      <4> QED BY <4>5, <4>6, <4>7 DEF SchedulerTypes
    <3> QED BY <3>1, <3>2
  <2> QED BY <2>1, <2>2, <2>3, <2>4 DEF SchedulerTypes, Planned, Wanted, Covered, Pending
<1>5. NonePassedOver'
  BY DEF SchedulerTypes, TickState, NonePassedOver, Wanted, Covered, Planned
<1> QED BY <1>1, <1>2, <1>3, <1>4, <1>5

\* Locking a row, or finding that its run exists keeps the invariant.
LEMMA ReserveKeeps ==
    ASSUME IInv, NEW s \in Schedulers, NEW k \in Keys, Reserve(s, k)
    PROVE  IInv'
<1> USE SchedulerAssumption DEF IInv, Reserve, Idle, db, NoKey
<1>1. SchedulerTypes'
  BY DEF SchedulerTypes, TickState, Steps, Keys, None
<1>2. Locks'
  BY DEF SchedulerTypes, TickState, Locks, Holding, Locked, IsNext
<1>3. Accounted'
  BY DEF SchedulerTypes, TickState, Accounted, Locks, Holding
<1>4. Planned'
  BY SMTT(30) DEF SchedulerTypes, TickState, Planned, Wanted, Covered, Pending, Locks, Holding
<1>5. NonePassedOver'
  BY DEF SchedulerTypes, TickState, NonePassedOver, Wanted, Covered, Planned
<1> QED BY <1>1, <1>2, <1>3, <1>4, <1>5

\* A launch: the one run beyond the lost ones keeps the invariant.
LEMMA LaunchKeeps ==
    ASSUME IInv, NEW s \in Schedulers, Launch(s)
    PROVE  IInv'
<1> USE SchedulerAssumption DEF IInv, Launch, Idle, db, NoKey
<1>1. SchedulerTypes'
  <2>1. [tick[s] EXCEPT !.pc = "record", !.launched = TRUE] \in TickState
    BY ZenonT(40) DEF SchedulerTypes, TickState, Steps
  <2>2. tick' \in [Schedulers -> TickState]
    BY <2>1 DEF SchedulerTypes
  <2>3. runs' \in [Keys -> Nat]
    <3>1. tick[s].key \in Keys
      BY DEF Locks, Holding
    <3> QED BY <3>1 DEF SchedulerTypes
  <2> QED BY <2>2, <2>3 DEF SchedulerTypes
<1>2. Locks'
  BY DEF SchedulerTypes, TickState, Locks, Holding, Locked, IsNext
<1>3. Accounted'
  BY DEF SchedulerTypes, TickState, Accounted, Locks, Holding
<1>4. Planned'
  BY DEF SchedulerTypes, TickState, Planned, Wanted, Covered, Pending, Locks, Holding
<1>5. NonePassedOver'
  BY DEF SchedulerTypes, TickState, NonePassedOver, Wanted, Covered, Planned
<1> QED BY <1>1, <1>2, <1>3, <1>4, <1>5

\* A launch that creates nothing keeps the invariant.
LEMMA LaunchNothingKeeps ==
    ASSUME IInv, NEW s \in Schedulers, LaunchNothing(s)
    PROVE  IInv'
<1> USE SchedulerAssumption DEF IInv, LaunchNothing, Idle, db, NoKey
<1>1. SchedulerTypes'
  <2>1. [tick[s] EXCEPT !.pc = "record", !.launched = FALSE] \in TickState
    BY ZenonT(40) DEF SchedulerTypes, TickState, Steps
  <2>2. tick' \in [Schedulers -> TickState]
    BY <2>1 DEF SchedulerTypes
  <2> QED BY <2>2 DEF SchedulerTypes, TickState, Keys
<1>2. Locks'
  BY DEF SchedulerTypes, TickState, Locks, Holding, Locked, IsNext
<1>3. Accounted'
  BY DEF SchedulerTypes, TickState, Accounted, Locks, Holding
<1>4. Planned'
  BY SMTT(30) DEF SchedulerTypes, TickState, Planned, Wanted, Covered, Pending, Locks, Holding
<1>5. NonePassedOver'
  BY DEF SchedulerTypes, TickState, NonePassedOver, Wanted, Covered, Planned
<1> QED BY <1>1, <1>2, <1>3, <1>4, <1>5

\* Writing run_id keeps the invariant.
LEMMA RecordKeeps ==
    ASSUME IInv, NEW s \in Schedulers, Record(s)
    PROVE  IInv'
<1> USE SchedulerAssumption DEF IInv, Record, Idle, db, NoKey
<1>1. SchedulerTypes'
  <2>1. tick' = [tick EXCEPT ![s] = [tick[s] EXCEPT !.pc = "fire", !.todo = tick[s].todo \ {tick[s].key},
                                                    !.key = NoKey, !.launched = FALSE]]
    BY DEF SchedulerTypes, TickState
  <2>2. tick' \in [Schedulers -> TickState]
    <3>1. tick[s] \in TickState /\ tick[s].todo \ {tick[s].key} \in SUBSET Keys
      BY DEF SchedulerTypes, TickState
    <3>2. [tick[s] EXCEPT !.pc = "fire", !.todo = tick[s].todo \ {tick[s].key},
                          !.key = NoKey, !.launched = FALSE] \in TickState
      <4> HIDE DEF NoKey
      <4> QED BY <3>1, TickStates
    <3> QED BY <2>1, <3>2 DEF SchedulerTypes
  <2>3. row' \in [Keys -> {"absent", "null", "run"}]
    BY DEF SchedulerTypes
  <2> QED BY <2>2, <2>3 DEF SchedulerTypes
<1>2. Locks'
  BY DEF SchedulerTypes, TickState, Locks, Holding, Locked, IsNext
<1>3. Accounted'
  BY DEF SchedulerTypes, TickState, Accounted, Locks, Holding
<1>4. Planned'
  BY DEF SchedulerTypes, TickState, Planned, Wanted, Covered, Pending, Locks, Holding
<1>5. NonePassedOver'
  BY DEF SchedulerTypes, TickState, NonePassedOver, Wanted, Covered, Planned
<1> QED BY <1>1, <1>2, <1>3, <1>4, <1>5

\* Moving the watermark, forward or back keeps the invariant.
LEMMA AdvanceWatermarkKeeps ==
    ASSUME IInv, NEW s \in Schedulers, AdvanceWatermark(s)
    PROVE  IInv'
<1> USE SchedulerAssumption DEF IInv, AdvanceWatermark, Idle, db, NoKey
<1>1. SchedulerTypes'
  <2> HIDE DEF Idle
  <2>1. tick' \in [Schedulers -> TickState]
    BY TickStates DEF SchedulerTypes
  <2>2. watermark' \in 0..high' /\ high' \in 0..MaxTime
    BY DEF SchedulerTypes, TickState
  <2> QED BY <2>1, <2>2 DEF SchedulerTypes
<1>2. Locks'
  BY DEF SchedulerTypes, TickState, Locks, Holding, Locked, IsNext
<1>3. Accounted'
  BY DEF SchedulerTypes, TickState, Accounted, Locks, Holding
<1>4. Planned'
  BY DEF SchedulerTypes, TickState, Planned, Wanted, Covered, Pending, Locks, Holding
<1>5. NonePassedOver'
  <2>1. \A k \in Times : Wanted(k, high)' => Covered(k)'
    <3> SUFFICES ASSUME NEW k \in Times, Wanted(k, high)' PROVE Covered(k)
      BY DEF Covered
    <3>1. CASE high < tick[s].now
      <4>1. Wanted(k, tick[s].now)
        BY <3>1 DEF Wanted
      <4>2. Covered(k) \/ Pending(s, k)
        BY <3>1, <4>1 DEF Planned, SchedulerTypes, TickState
      <4> QED BY <4>2 DEF Pending
    <3>2. CASE ~(high < tick[s].now)
      BY <3>2 DEF Wanted, NonePassedOver
    <3> QED BY <3>1, <3>2
  <2> QED BY <2>1 DEF NonePassedOver
<1> QED BY <1>1, <1>2, <1>3, <1>4, <1>5

\* The snapshot of a claim keeps the invariant.
LEMMA ScanKeeps ==
    ASSUME IInv, NEW s \in Schedulers, Scan(s)
    PROVE  IInv'
<1> USE SchedulerAssumption DEF IInv, Scan, Idle, db, NoKey
<1>1. SchedulerTypes'
  <2>0. outbox \ delivered \in SUBSET Keys
    BY DEF SchedulerTypes, Keys
  <2>1. [tick[s] EXCEPT !.pc = "scan", !.todo = outbox \ delivered] \in TickState
    <3>1. tick[s] \in TickState
      BY DEF SchedulerTypes
    <3> HIDE DEF IInv, Scan, Idle
    <3> QED BY <2>0, <3>1, TickStates
  <2>2. tick' \in [Schedulers -> TickState]
    BY <2>1 DEF SchedulerTypes
  <2> QED BY <2>2 DEF SchedulerTypes
<1>2. Locks'
  BY DEF SchedulerTypes, TickState, Locks, Holding, Locked, IsNext
<1>3. Accounted'
  BY DEF SchedulerTypes, TickState, Accounted, Locks, Holding
<1>4. Planned'
  BY DEF SchedulerTypes, TickState, Planned, Wanted, Covered, Pending, Locks, Holding
<1>5. NonePassedOver'
  BY DEF SchedulerTypes, TickState, NonePassedOver, Wanted, Covered, Planned
<1> QED BY <1>1, <1>2, <1>3, <1>4, <1>5

\* Claiming a batch of events keeps the invariant.
LEMMA ClaimEventsKeeps ==
    ASSUME IInv, NEW s \in Schedulers, ClaimEvents(s)
    PROVE  IInv'
<1> USE SchedulerAssumption DEF IInv, ClaimEvents, Idle, db, NoKey
<1>1. SchedulerTypes'
  <2> HIDE DEF Idle
  <2>1. tick[s].todo \subseteq Events
    BY DEF Planned
  <2>2. tick' \in [Schedulers -> TickState]
    BY <2>1, TickStates DEF SchedulerTypes
  <2> QED BY <2>2 DEF SchedulerTypes
<1>2. Locks'
  BY DEF SchedulerTypes, TickState, Locks, Holding, Locked, IsNext
<1>3. Accounted'
  BY DEF SchedulerTypes, TickState, Accounted, Locks, Holding
<1>4. Planned'
  BY DEF SchedulerTypes, TickState, Planned, Wanted, Covered, Pending, Locks, Holding
<1>5. NonePassedOver'
  BY DEF SchedulerTypes, TickState, NonePassedOver, Wanted, Covered, Planned
<1> QED BY <1>1, <1>2, <1>3, <1>4, <1>5

\* Marking a batch delivered keeps the invariant.
LEMMA MarkDeliveredKeeps ==
    ASSUME IInv, NEW s \in Schedulers, MarkDelivered(s)
    PROVE  IInv'
<1> USE SchedulerAssumption DEF IInv, MarkDelivered, Idle, db, NoKey
<1>1. SchedulerTypes'
  <2>1. Idle \in TickState
    BY DEF SchedulerTypes, TickState, Steps
  <2>2. tick' \in [Schedulers -> TickState]
    BY <2>1 DEF SchedulerTypes
  <2> QED BY <2>2 DEF SchedulerTypes, TickState, Keys
<1>2. Locks'
  BY DEF SchedulerTypes, TickState, Locks, Holding, Locked, IsNext
<1>3. Accounted'
  BY DEF SchedulerTypes, TickState, Accounted, Locks, Holding
<1>4. Planned'
  BY DEF SchedulerTypes, TickState, Planned, Wanted, Covered, Pending, Locks, Holding
<1>5. NonePassedOver'
  BY DEF SchedulerTypes, TickState, NonePassedOver, Wanted, Covered, Planned
<1> QED BY <1>1, <1>2, <1>3, <1>4, <1>5

\* A failure at any step of a tick keeps the invariant.
LEMMA FailKeeps ==
    ASSUME IInv, NEW s \in Schedulers, Fail(s)
    PROVE  IInv'
<1> USE SchedulerAssumption DEF IInv, Fail, Idle, db, NoKey
<1>1. SchedulerTypes'
  <2>1. tick' \in [Schedulers -> TickState]
    <3> HIDE DEF Idle
    <3> QED BY TickStates, ZenonT(40) DEF SchedulerTypes
  <2>2. unrecorded' \in [Keys -> Nat] /\ fails' \in Nat
    BY DEF SchedulerTypes
  <2> QED BY <2>1, <2>2 DEF SchedulerTypes
<1>2. Locks'
  BY DEF SchedulerTypes, TickState, Locks, Holding, Locked, IsNext
<1>3. Accounted'
  <2> SUFFICES ASSUME NEW k \in Keys
               PROVE  /\ runs[k] <= unrecorded'[k] + 1
                      /\ row[k] # "run" /\ ~(\E t \in Schedulers : tick'[t].launched /\ tick'[t].key = k)
                            => runs[k] <= unrecorded'[k]
    BY DEF Accounted
  <2>1. runs[k] \in Nat /\ unrecorded[k] \in Nat
    BY DEF SchedulerTypes
  <2>2. CASE tick[s].launched /\ tick[s].key = k
    <3>1. unrecorded'[k] = unrecorded[k] + 1
      BY <2>2
    <3> QED BY <2>1, <3>1 DEF Accounted
  <2>3. CASE ~(tick[s].launched /\ tick[s].key = k)
    <3>1. unrecorded'[k] = unrecorded[k]
      BY <2>3
    <3>2. ASSUME NEW t \in Schedulers, tick[t].launched, tick[t].key = k
          PROVE  tick'[t].launched /\ tick'[t].key = k
      BY <2>3, <3>2 DEF SchedulerTypes
    <3> QED BY <3>1, <3>2 DEF Accounted
  <2> QED BY <2>2, <2>3
<1>4. Planned'
  BY DEF SchedulerTypes, TickState, Planned, Wanted, Covered, Pending, Locks, Holding
<1>5. NonePassedOver'
  BY DEF SchedulerTypes, TickState, NonePassedOver, Wanted, Covered, Planned
<1> QED BY <1>1, <1>2, <1>3, <1>4, <1>5

\* The end of the lease keeps the invariant.
LEMMA LeaseExpiresKeeps ==
    ASSUME IInv, LeaseExpires
    PROVE  IInv'
<1> USE SchedulerAssumption DEF IInv, LeaseExpires, Idle, db, NoKey
<1>1. SchedulerTypes'
  BY DEF SchedulerTypes, TickState, Steps, Keys, None
<1>2. Locks'
  BY DEF SchedulerTypes, TickState, Locks, Holding, Locked, IsNext
<1>3. Accounted'
  BY DEF SchedulerTypes, TickState, Accounted, Locks, Holding
<1>4. Planned'
  BY DEF SchedulerTypes, TickState, Planned, Wanted, Covered, Pending, Locks, Holding
<1>5. NonePassedOver'
  BY DEF SchedulerTypes, TickState, NonePassedOver, Wanted, Covered, Planned
<1> QED BY <1>1, <1>2, <1>3, <1>4, <1>5

\* The passing of time keeps the invariant.
LEMMA ClockKeeps ==
    ASSUME IInv, Clock
    PROVE  IInv'
<1> USE SchedulerAssumption DEF IInv, Clock, Idle, db, NoKey
<1>1. SchedulerTypes'
  BY DEF SchedulerTypes, TickState, Steps, Keys, None
<1>2. Locks'
  BY DEF SchedulerTypes, TickState, Locks, Holding, Locked, IsNext
<1>3. Accounted'
  BY DEF SchedulerTypes, TickState, Accounted, Locks, Holding
<1>4. Planned'
  BY DEF SchedulerTypes, TickState, Planned, Wanted, Covered, Pending, Locks, Holding
<1>5. NonePassedOver'
  BY DEF SchedulerTypes, TickState, NonePassedOver, Wanted, Covered, Planned
<1> QED BY <1>1, <1>2, <1>3, <1>4, <1>5

\* An event that commits keeps the invariant.
LEMMA EmitKeeps ==
    ASSUME IInv, NEW e \in Events, Emit(e)
    PROVE  IInv'
<1> USE SchedulerAssumption DEF IInv, Emit, Idle, db, NoKey
<1>1. SchedulerTypes'
  BY DEF SchedulerTypes, TickState, Steps, Keys, None
<1>2. Locks'
  BY DEF SchedulerTypes, TickState, Locks, Holding, Locked, IsNext
<1>3. Accounted'
  BY DEF SchedulerTypes, TickState, Accounted, Locks, Holding
<1>4. Planned'
  BY DEF SchedulerTypes, TickState, Planned, Wanted, Covered, Pending, Locks, Holding
<1>5. NonePassedOver'
  BY DEF SchedulerTypes, TickState, NonePassedOver, Wanted, Covered, Planned
<1> QED BY <1>1, <1>2, <1>3, <1>4, <1>5

\* A step of something else keeps the invariant.
LEMMA StutterKeeps ==
    ASSUME IInv, UNCHANGED schedulerVars
    PROVE  IInv'
<1> USE SchedulerAssumption DEF IInv, schedulerVars, Idle, db, NoKey
<1>1. SchedulerTypes'
  BY DEF SchedulerTypes, TickState, Steps, Keys, None
<1>2. Locks'
  BY DEF SchedulerTypes, TickState, Locks, Holding, Locked, IsNext
<1>3. Accounted'
  BY DEF SchedulerTypes, TickState, Accounted, Locks, Holding
<1>4. Planned'
  BY DEF SchedulerTypes, TickState, Planned, Wanted, Covered, Pending, Locks, Holding
<1>5. NonePassedOver'
  BY DEF SchedulerTypes, TickState, NonePassedOver, Wanted, Covered, Planned
<1> QED BY <1>1, <1>2, <1>3, <1>4, <1>5

-----------------------------------------------------------------------------
\* Every step keeps the invariant.
LEMMA NextKeeps == IInv /\ [SchedulerNext]_schedulerVars => IInv'
<1> SUFFICES ASSUME IInv, [SchedulerNext]_schedulerVars PROVE IInv'
  OBVIOUS
<1>1. CASE UNCHANGED schedulerVars
  BY <1>1, StutterKeeps
<1>2. ASSUME NEW s \in Schedulers, TickStep(s) PROVE IInv'
  BY <1>2, AcquireKeeps, PlanKeeps, ReserveKeeps, LaunchKeeps, RecordKeeps,
     AdvanceWatermarkKeeps, ScanKeeps, ClaimEventsKeeps, MarkDeliveredKeeps DEF TickStep
<1>3. ASSUME NEW s \in Schedulers, LaunchNothing(s) \/ Fail(s) PROVE IInv'
  BY <1>3, LaunchNothingKeeps, FailKeeps
<1>4. CASE LeaseExpires \/ Clock \/ \E e \in Events : Emit(e)
  BY <1>4, LeaseExpiresKeeps, ClockKeeps, EmitKeeps
<1> QED BY <1>1, <1>2, <1>3, <1>4 DEF SchedulerNext

(* The invariant of triggers and ticks holds in every state.                *)
THEOREM SchedulerInvariant == SchedulerSpec => []IInv
BY InitHolds, NextKeeps, PTL DEF SchedulerSpec

(* One run per occurrence and event, but for lost records: the row lock of  *)
(* fire_occurrence and match_event suffices, the leader's lease is not      *)
(* needed for it.                                                           *)
THEOREM RunsLaunchedOnce == SchedulerSpec => []LaunchedOnce
<1>1. IInv => LaunchedOnce
  BY DEF IInv, SchedulerTypes, Accounted, LaunchedOnce
<1> QED BY <1>1, SchedulerInvariant, PTL

(* Nothing the catchup policy asks for is passed over by a watermark, and   *)
(* no event is marked delivered without its row.                            *)
THEOREM NothingPassedOver == SchedulerSpec => []NonePassedOver
<1>1. IInv => NonePassedOver
  BY DEF IInv
<1> QED BY <1>1, SchedulerInvariant, PTL
==============================================================================
