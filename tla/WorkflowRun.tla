---------------------------- MODULE WorkflowRun ----------------------------
(***************************************************************************)
(* One run of a workflow (crates/workflow-engine/src/run): its row of      *)
(* workflow_run, its rows of step_execution and wait_subscription, and the *)
(* workers that execute its steps.                                         *)
(*                                                                         *)
(* checkpoint_and_advance, the wakes, drain_one, request_cancel and        *)
(* resume_failed lock the run's row for their whole transaction, claim and *)
(* reclaim are single statements: each is one action.  Time is abstracted: *)
(* next_retry_at, wake_at and timeout_at delay an action by any amount; a  *)
(* lease that lapsed is remembered in "lapsed", a run_timeout that passed  *)
(* in "overdue".  A node's execution is any of the results its type gives. *)
(* Map regions (control.map) are not part of this module.                  *)
(***************************************************************************)
EXTENDS Integers, FiniteSets

CONSTANTS
    Nodes,             \* the nodes of the run's IR snapshot; step_path = node id
    Edges,             \* set of [from, port, to]
    Joins,             \* control.join nodes
    AllJoins,          \* those whose mode is "all"
    ContinueOnError,   \* nodes whose on_error is "continue"
    ContinueOnTimeout, \* wait(event) nodes whose on_timeout is "continue"
    Results,           \* node -> the results its executions can have
    Workers,           \* worker tasks
    MaxAttempts,       \* retry.max_attempts
    MaxTokens,         \* bound: tokens of a step that a crash or a lapsed lease may end
    MaxResumes         \* bound: calls of resume_failed

Ports == {"out", "error", "timeout", "true", "false"}
NotOk == {"rate_limited", "retryable", "permanent"}
Suspends == {"timer", "event"}
Result == [kind : {"ok"} \cup NotOk \cup Suspends, ports : SUBSET Ports]

\* What validation (V2) guarantees of a saved IR: the edges form a DAG and
\* a join has an in-edge.
ASSUME GraphAssumption ==
    /\ Edges \subseteq [from : Nodes, port : Ports, to : Nodes]
    /\ AllJoins \subseteq Joins /\ Joins \subseteq Nodes
    /\ \A n \in Joins : \E e \in Edges : e.to = n
    /\ \E rank \in [Nodes -> 1..Cardinality(Nodes)] :
         \A e \in Edges : rank[e.from] < rank[e.to]

ASSUME RunAssumption ==
    /\ IsFiniteSet(Nodes) /\ Nodes # {} /\ "no node" \notin Nodes
    /\ Results \in [Nodes -> SUBSET Result]
    /\ MaxAttempts \in Nat \ {0} /\ MaxTokens \in Nat /\ MaxResumes \in Nat

VARIABLES
    status,           \* step_execution.status
    taken,            \* step_execution.taken_ports
    fencing,          \* step_execution.fencing_token
    attempt,          \* step_execution.attempt
    lapsed,           \* running steps whose lease_expires_at has passed
    unfired,          \* steps with a wait_subscription row that is not fired
    run_status,       \* workflow_run.status
    cancel_requested, \* workflow_run.cancel_requested
    timed_out,        \* workflow_run.fail_reason = 'run_timeout'
    overdue,          \* workflow_run.timeout_at has passed
    last_event,       \* the last run.* event of run_event
    resumes,          \* calls of resume_failed so far
    job               \* worker -> the step it claimed (ClaimedStep)

steps == <<status, taken, fencing, attempt, lapsed, unfired>>
run == <<run_status, cancel_requested, timed_out, overdue, last_event, resumes>>
vars == <<steps, run, job>>

Waiting == {"waiting_timer", "waiting_event"}
Terminal == {"succeeded", "failed", "skipped", "cancelled"}
StepStatus == {"pending", "ready", "running"} \cup Waiting \cup Terminal
Ended == {"succeeded", "failed", "cancelled"}
RunStatus == {"queued", "running"} \cup Ended

NoNode == "no node"
NoJob == [node |-> NoNode, token |-> 0, attempt |-> 0]
Job == [node : Nodes, token : Nat, attempt : Nat] \cup {NoJob}

Roots == {n \in Nodes : \A e \in Edges : e.to # n}
InEdges(n) == {e \in Edges : e.to = n}
HasErrorEdge(n) == \E e \in Edges : e.from = n /\ e.port = "error"

\* create_run: the root steps of a run that may start are ready, a queued
\* run keeps them pending until it is promoted.
Init ==
    /\ run_status \in {"queued", "running"}
    /\ status = [n \in Nodes |-> IF run_status = "running" /\ n \in Roots
                                 THEN "ready" ELSE "pending"]
    /\ taken = [n \in Nodes |-> {}]
    /\ fencing = [n \in Nodes |-> 0]
    /\ attempt = [n \in Nodes |-> 0]
    /\ lapsed = {} /\ unfired = {}
    /\ cancel_requested = FALSE /\ timed_out = FALSE /\ overdue = FALSE
    /\ last_event = (IF run_status = "running" THEN "started" ELSE "none")
    /\ resumes = 0
    /\ job = [w \in Workers |-> NoJob]

-----------------------------------------------------------------------------
(* Readiness: what the in-edges of a step say, given the statuses "st" and  *)
(* the taken ports "tk" of its sources.                                     *)

Live(n, st, tk) == \E e \in InEdges(n) : st[e.from] \in Terminal /\ e.port \in tk[e.from]
Unresolved(n, st) == \E e \in InEdges(n) : st[e.from] \notin Terminal

IsReady(n, st, tk) == Live(n, st, tk) /\ (n \in AllJoins => ~Unresolved(n, st))

\* Faulty variant: one dead edge is enough to skip a step.
IsSkipped_any(n, st, tk) ==
    \E e \in InEdges(n) : st[e.from] \in Terminal /\ e.port \notin tk[e.from]

\* A step without in-edges is never decided here: roots are made ready when the run starts.
IsSkipped(n, st, tk) ==
    InEdges(n) # {} /\ ~Live(n, st, tk) /\ ~Unresolved(n, st)

\* Faulty variant: the skip is not propagated past the first level.
IsAdvanced_shallow(st, tk, ns) ==
    \A n \in Nodes : ns[n] = IF st[n] # "pending" THEN st[n]
                             ELSE IF IsReady(n, st, tk) THEN "ready"
                             ELSE IF IsSkipped(n, st, tk) THEN "skipped" ELSE "pending"

\* advance_downstream: ns is the fixpoint of deciding every pending step.  The
\* graph is acyclic and a decision never changes, so there is exactly one.
IsAdvanced(st, tk, ns) ==
    \A n \in Nodes : ns[n] = IF st[n] # "pending" THEN st[n]
                             ELSE IF IsReady(n, ns, tk) THEN "ready"
                             ELSE IF IsSkipped(n, ns, tk) THEN "skipped" ELSE "pending"

Candidates(st) ==
    LET pending == {n \in Nodes : st[n] = "pending"}
    IN  {[n \in Nodes |-> IF n \in pending THEN d[n] ELSE st[n]] :
            d \in [pending -> {"pending", "ready", "skipped"}]}

\* The UPDATE asks for status = 'running', the event is appended all the same.
EndRun(outcome) ==
    /\ run_status' = IF run_status = "running" THEN outcome ELSE run_status
    /\ last_event' = outcome

\* finalize_run_if_done.
FinalizeRunIfDone(st, tk) ==
    IF \A n \in Nodes : st[n] \in Terminal
    THEN EndRun(IF timed_out \/ \E n \in Nodes : st[n] = "failed" /\ tk[n] = {} THEN "failed"
                ELSE IF cancel_requested THEN "cancelled" ELSE "succeeded")
    ELSE UNCHANGED <<run_status, last_event>>

\* advance_downstream, then finalize_run_if_done, from the statuses st.
Advance(st, tk) ==
    \E ns \in Candidates(st) : /\ IsAdvanced(st, tk, ns)
                               /\ status' = ns
                               /\ FinalizeRunIfDone(ns, tk)

\* cancel_remaining_steps and the failure of the run.
FailRun(st) ==
    /\ status' = [n \in Nodes |-> IF st[n] \in Terminal THEN st[n] ELSE "cancelled"]
    /\ lapsed' = {} /\ unfired' = {}
    /\ EndRun("failed")

-----------------------------------------------------------------------------
(* Workers *)

\* Faulty variant: the claim does not advance the token.
Claim_unfenced(w, n) ==
    /\ job[w] = NoJob
    /\ status[n] = "ready" /\ ~cancel_requested
    /\ status' = [status EXCEPT ![n] = "running"]
    /\ attempt' = [attempt EXCEPT ![n] = @ + 1]
    /\ job' = [job EXCEPT ![w] = [node |-> n, token |-> fencing[n], attempt |-> attempt[n] + 1]]
    /\ UNCHANGED <<taken, fencing, lapsed, unfired, run>>

\* claim_ready_step; the run's status is not part of the condition.
Claim(w, n) ==
    /\ job[w] = NoJob
    /\ status[n] = "ready" /\ ~cancel_requested
    /\ status' = [status EXCEPT ![n] = "running"]
    /\ fencing' = [fencing EXCEPT ![n] = @ + 1]
    /\ attempt' = [attempt EXCEPT ![n] = @ + 1]
    /\ job' = [job EXCEPT ![w] = [node |-> n, token |-> fencing[n] + 1,
                                  attempt |-> attempt[n] + 1]]
    /\ UNCHANGED <<taken, lapsed, unfired, run>>

\* The fencing check: w's token is still the step's.
Holds(w) == job[w] # NoJob /\ job[w].token = fencing[job[w].node]

\* heartbeat: renews a lapsed lease as long as nobody reclaimed the step.
Heartbeat(w) ==
    /\ Holds(w) /\ status[job[w].node] = "running"
    /\ lapsed' = lapsed \ {job[w].node}
    /\ UNCHANGED <<status, taken, fencing, attempt, unfired, run, job>>

\* The worker dies, or gives up on an error before its checkpoint.
Crash(w) ==
    /\ job[w] # NoJob /\ job[w].token <= MaxTokens
    /\ job' = [job EXCEPT ![w] = NoJob]
    /\ UNCHANGED <<steps, run>>

\* checkpoint_and_advance rejects a zombie.
CheckpointZombie(w) ==
    /\ job[w] # NoJob /\ ~Holds(w)
    /\ job' = [job EXCEPT ![w] = NoJob]
    /\ UNCHANGED <<steps, run>>

Settle(w) ==
    /\ Holds(w)
    /\ job' = [job EXCEPT ![w] = NoJob]
    /\ UNCHANGED <<fencing, cancel_requested, timed_out, overdue, resumes>>

WaitStatus(kind) == IF kind = "timer" THEN "waiting_timer" ELSE "waiting_event"

\* Faulty variant: the wait is recorded, its subscription keeps the fired flag
\* of an earlier wait.
Suspend_fired(w, kind) ==
    LET n == job[w].node
    IN  /\ Settle(w)
        /\ status' = [status EXCEPT ![n] = WaitStatus(kind)]
        /\ lapsed' = lapsed \ {n}
        /\ unfired' = IF kind = "event" /\ fencing[n] = 1 THEN unfired \cup {n} ELSE unfired
        /\ UNCHANGED <<taken, attempt, run_status, last_event>>

\* handle_suspend: wait for a timer or an event (the UPSERT resets fired).
Suspend(w, kind) ==
    LET n == job[w].node
    IN  /\ Settle(w)
        /\ status' = [status EXCEPT ![n] = WaitStatus(kind)]
        /\ lapsed' = lapsed \ {n}
        /\ unfired' = IF kind = "event" THEN unfired \cup {n} ELSE unfired
        /\ UNCHANGED <<taken, attempt, run_status, last_event>>

\* Faulty variant: off by one.
Retries_plus(w, kind) ==
    \/ kind = "rate_limited" /\ job[w].token <= MaxTokens
    \/ kind = "retryable" /\ job[w].attempt <= MaxAttempts

Retries(w, kind) ==
    \/ kind = "rate_limited" /\ job[w].token <= MaxTokens
    \/ kind = "retryable" /\ job[w].attempt < MaxAttempts

\* Back to ready: rate_limited gives the attempt back, retryable consumes it.
Retry(w, kind) ==
    LET n == job[w].node
    IN  /\ Settle(w) /\ Retries(w, kind)
        /\ status' = [status EXCEPT ![n] = "ready"]
        /\ attempt' = [attempt EXCEPT ![n] = IF kind = "rate_limited" THEN @ - 1 ELSE @]
        /\ lapsed' = lapsed \ {n}
        /\ UNCHANGED <<taken, unfired, run_status, last_event>>

\* The step succeeded: checkpoint its ports and advance.
Succeed(w, ports) ==
    LET n == job[w].node
        tk == [taken EXCEPT ![n] = ports]
    IN  /\ Settle(w)
        /\ taken' = tk
        /\ lapsed' = lapsed \ {n}
        /\ Advance([status EXCEPT ![n] = "succeeded"], tk)
        /\ UNCHANGED <<attempt, unfired>>

Failed(w, kind) == kind = "permanent" \/ (kind = "retryable" /\ job[w].attempt >= MaxAttempts)

Handled(n) == n \in ContinueOnError /\ HasErrorEdge(n)

\* The failure becomes data on the error port.
FailToErrorPort(w, kind) ==
    LET n == job[w].node
        tk == [taken EXCEPT ![n] = {"error"}]
    IN  /\ Settle(w) /\ Failed(w, kind) /\ Handled(n)
        /\ taken' = tk
        /\ lapsed' = lapsed \ {n}
        /\ Advance([status EXCEPT ![n] = "failed"], tk)
        /\ UNCHANGED <<attempt, unfired>>

\* An unhandled failure ends the run.
FailUnhandled(w, kind) ==
    LET n == job[w].node
    IN  /\ Settle(w) /\ Failed(w, kind) /\ ~Handled(n)
        /\ taken' = [taken EXCEPT ![n] = {}]
        /\ FailRun([status EXCEPT ![n] = "failed"])
        /\ UNCHANGED attempt

Checkpoint(w) ==
    \/ CheckpointZombie(w)
    \/ /\ Holds(w)
       /\ \E r \in Results[job[w].node] :
            \/ r.kind \in Suspends /\ Suspend(w, r.kind)
            \/ r.kind = "ok" /\ Succeed(w, r.ports)
            \/ r.kind \in NotOk /\ Retry(w, r.kind)
            \/ r.kind \in NotOk /\ FailToErrorPort(w, r.kind)
            \/ r.kind \in NotOk /\ FailUnhandled(w, r.kind)

-----------------------------------------------------------------------------
(* The scheduler's tick, and time *)

LeaseLapses(n) ==
    /\ status[n] = "running" /\ n \notin lapsed /\ fencing[n] <= MaxTokens
    /\ lapsed' = lapsed \cup {n}
    /\ UNCHANGED <<status, taken, fencing, attempt, unfired, run, job>>

\* reclaim_expired_leases, for one of its rows.
Reclaim(n) ==
    /\ n \in lapsed /\ run_status = "running" /\ ~cancel_requested
    /\ status' = [status EXCEPT ![n] = "ready"]
    /\ attempt' = [attempt EXCEPT ![n] = IF @ > 0 THEN @ - 1 ELSE 0]
    /\ fencing' = [fencing EXCEPT ![n] = @ + 1]
    /\ lapsed' = lapsed \ {n}
    /\ UNCHANGED <<taken, unfired, run, job>>

\* wake_step_and_advance with a port.
Wake(n, port) ==
    LET tk == [taken EXCEPT ![n] = {port}]
    IN  /\ run_status = "running"
        /\ unfired' = unfired \ {n}
        /\ taken' = tk
        /\ Advance([status EXCEPT ![n] = "succeeded"], tk)
        /\ UNCHANGED <<fencing, attempt, lapsed, cancel_requested, timed_out, overdue,
                       resumes, job>>

WakeTimer(n) == status[n] = "waiting_timer" /\ Wake(n, "out")
WakeEvent(n) == n \in unfired /\ status[n] \in Waiting /\ Wake(n, "out")

\* expire_due_waits: the timeout port, or the failure of the run.
ExpireWait(n) ==
    /\ n \in unfired /\ status[n] \in Waiting
    /\ \/ n \in ContinueOnTimeout /\ Wake(n, "timeout")
       \/ /\ n \notin ContinueOnTimeout /\ run_status = "running"
          /\ taken' = [taken EXCEPT ![n] = {}]
          /\ FailRun([status EXCEPT ![n] = "failed"])
          /\ UNCHANGED <<fencing, attempt, cancel_requested, timed_out, overdue, resumes, job>>

\* promote_queued_runs, when it is this run's turn.
Promote ==
    /\ run_status = "queued"
    /\ run_status' = "running" /\ last_event' = "started"
    /\ status' = [n \in Nodes |-> IF n \in Roots /\ status[n] = "pending"
                                  THEN "ready" ELSE status[n]]
    /\ UNCHANGED <<taken, fencing, attempt, lapsed, unfired, cancel_requested, timed_out,
                   overdue, resumes, job>>

TimeoutPasses ==
    /\ run_status = "running" /\ ~overdue
    /\ overdue' = TRUE
    /\ UNCHANGED <<steps, run_status, cancel_requested, timed_out, last_event, resumes, job>>

\* expire_run_timeouts: its UPDATE; its drain is the next Drain.
ExpireRun ==
    /\ run_status = "running" /\ overdue /\ ~timed_out
    /\ cancel_requested' = TRUE /\ timed_out' = TRUE
    /\ UNCHANGED <<steps, run_status, overdue, last_event, resumes, job>>

-----------------------------------------------------------------------------
(* Operations of users *)

\* Faulty variant: a step whose worker died is waited for.
Drained_waits(n) == status[n] \in {"pending", "ready"} \cup Waiting

\* The steps drain_one cancels: all but those running under a valid lease.
Drained(n) == status[n] \in {"pending", "ready"} \cup Waiting \/ n \in lapsed

\* drain_one, on a run that is asked to stop.
DrainOne ==
    /\ run_status \in {"queued", "running"}
    /\ status' = [n \in Nodes |-> IF Drained(n) THEN "cancelled" ELSE status[n]]
    /\ lapsed' = {n \in lapsed : ~Drained(n)}
    /\ unfired' = {}
    /\ IF \E n \in Nodes : status[n] = "running" /\ ~Drained(n)
       THEN UNCHANGED <<run_status, last_event>>
       ELSE LET outcome == IF timed_out THEN "failed" ELSE "cancelled"
            IN  run_status' = outcome /\ last_event' = outcome
    /\ UNCHANGED <<taken, fencing, attempt, timed_out, overdue, resumes, job>>

RequestCancel == cancel_requested' = TRUE /\ DrainOne

\* drain_cancel_requested, and the immediate drain of expire_run_timeouts.
Drain == cancel_requested /\ cancel_requested' = cancel_requested /\ DrainOne

\* Faulty variant: every step of the failed run starts over.
Reset_all(n) == IF fencing[n] = 0 THEN "pending" ELSE "ready"

\* The status from which a step of a failed run resumes.
Reset(n) ==
    IF status[n] = "failed" /\ taken[n] = {} THEN "ready"
    ELSE IF status[n] = "cancelled" THEN (IF fencing[n] = 0 THEN "pending" ELSE "ready")
    ELSE status[n]

\* resume_failed: tokens are not revoked, timeout_at is kept.
Resume ==
    /\ run_status = "failed" /\ resumes < MaxResumes
    /\ run_status' = "running" /\ last_event' = "resumed"
    /\ timed_out' = FALSE /\ cancel_requested' = FALSE
    /\ LET st == [n \in Nodes |-> Reset(n)]
       IN  \E ns \in Candidates(st) : IsAdvanced(st, taken, ns) /\ status' = ns
    /\ resumes' = resumes + 1
    /\ UNCHANGED <<taken, fencing, attempt, lapsed, unfired, overdue, job>>

-----------------------------------------------------------------------------

Next ==
    \/ \E w \in Workers : \/ \E n \in Nodes : Claim(w, n)
                          \/ Heartbeat(w) \/ Crash(w) \/ Checkpoint(w)
    \/ \E n \in Nodes : \/ LeaseLapses(n) \/ Reclaim(n)
                        \/ WakeTimer(n) \/ WakeEvent(n) \/ ExpireWait(n)
    \/ Promote \/ TimeoutPasses \/ ExpireRun \/ RequestCancel \/ Drain \/ Resume

Spec == Init /\ [][Next]_vars

(* Worker loops and the leader's tick loop run for ever: a ready step is     *)
(* claimed, an execution ends in its checkpoint, the tick performs what is   *)
(* due.  Timers fire, event waits time out, and the lease of a dead worker   *)
(* lapses.  Nothing forces users, crashes or the run_timeout.                *)
Orphan(n) == status[n] = "running" /\ \A w \in Workers : ~(Holds(w) /\ job[w].node = n)

Fairness ==
    /\ \A n \in Nodes : /\ SF_vars(\E w \in Workers : Claim(w, n))
                        /\ WF_vars(Orphan(n) /\ LeaseLapses(n))
                        /\ WF_vars(Reclaim(n))
                        /\ WF_vars(WakeTimer(n)) /\ WF_vars(ExpireWait(n))
    /\ \A w \in Workers : WF_vars(Checkpoint(w))
    /\ WF_vars(ExpireRun) /\ WF_vars(Drain)

LiveSpec == Spec /\ Fairness

-----------------------------------------------------------------------------
(* Properties *)

\* The rows of workflow_run and step_execution and the workers' claims have their shapes.
TypeOK ==
    /\ status \in [Nodes -> StepStatus]
    /\ taken \in [Nodes -> SUBSET Ports]
    /\ fencing \in [Nodes -> Nat] /\ attempt \in [Nodes -> Nat]
    /\ lapsed \subseteq Nodes /\ unfired \subseteq Nodes
    /\ run_status \in RunStatus
    /\ cancel_requested \in BOOLEAN /\ timed_out \in BOOLEAN /\ overdue \in BOOLEAN
    /\ last_event \in Ended \cup {"none", "started", "resumed"}
    /\ resumes \in Nat
    /\ job \in [Workers -> Job]

\* The outcome of step n is recorded: downstream steps have acted on it.
Recorded(n) ==
    \/ status[n] \in {"succeeded", "skipped"}
    \/ status[n] = "failed" /\ taken[n] # {}

(* "checkpoint が正": once a step's success, skip or handled failure is       *)
(* recorded, no late worker, reclaim, wake, cancellation or resume changes it *)
(* or runs the step again (advance.rs, ops.rs).                               *)
CheckpointFinal ==
    [][\A n \in Nodes : Recorded(n) => status'[n] = status[n] /\ taken'[n] = taken[n]
                                       /\ fencing'[n] = fencing[n]]_vars

(* Tokens: a worker holds a token the step has or had; the one worker whose  *)
(* token is current runs the step, or ran it when the run failed, was        *)
(* cancelled or resumed; a step that was never claimed is the only kind that *)
(* is pending.                                                               *)
TokensSound ==
    /\ \A w \in Workers : job[w] # NoJob => job[w].token \in 1..fencing[job[w].node]
    /\ \A w \in Workers : Holds(w) => status[job[w].node] \in {"running", "cancelled", "ready"}
    /\ \A v, w \in Workers : Holds(v) /\ Holds(w) /\ job[v].node = job[w].node => v = w
    /\ \A n \in Nodes : status[n] = "pending" => fencing[n] = 0
    /\ \A n \in lapsed : status[n] = "running"

\* While a step waits to be claimed no worker can write its outcome: reclaim
\* revokes the token together with the lease (claim.rs), retry gives it up.
ReadyUnowned == \A w \in Workers : Holds(w) => status[job[w].node] # "ready"

\* Until the run is resumed for the first time, ReadyUnowned.
ReadyUnownedAtFirst == resumes = 0 => ReadyUnowned

\* A wait on an event can always be woken: its subscription is open exactly
\* while the step waits, over cancellation, resume and waiting again (wait.rs).
WaitsSubscribed == unfired = {n \in Nodes : status[n] = "waiting_event"}

(* Attempts: a worker knows the attempt it is on, crashes and waits for a    *)
(* slot consume none, and no step starts more often than its retry policy    *)
(* allows; each resume grants one more start (claim.rs, advance.rs).         *)
AttemptsSound ==
    /\ \A w \in Workers : Holds(w) => /\ job[w].attempt = attempt[job[w].node]
                                      /\ attempt[job[w].node] > 0
    /\ \A n \in Nodes : fencing[n] = 0 => attempt[n] = 0
    /\ \A n \in Nodes : status[n] = "ready" => attempt[n] < MaxAttempts + resumes
    /\ \A n \in Nodes : attempt[n] <= MaxAttempts + resumes

\* While a run is running, every step whose in-edges decide it has been
\* decided: a join whose branches finish in any order is not left pending.
NoneLeftPending ==
    run_status = "running" =>
        \A n \in Nodes : status[n] = "pending" =>
            ~IsReady(n, status, taken) /\ ~IsSkipped(n, status, taken)

\* A run that succeeded executed exactly the steps its live edges lead to, and
\* every failure on the way was handled.
SuccessSound ==
    run_status = "succeeded" =>
        \A n \in Nodes :
            /\ Recorded(n)
            /\ status[n] = "skipped" <=> n \notin Roots /\ ~Live(n, status, taken)

\* Only resume_failed leaves an end status, and only from "failed".
EndStatusFinal ==
    [][(run_status \in Ended /\ run_status' # run_status)
         => run_status = "failed" /\ run_status' = "running" /\ resumes' = resumes + 1]_vars

\* A running or cancelled run comes to an end.
RunEnds == run_status = "running" ~> run_status \in Ended

-----------------------------------------------------------------------------
(* What comments of the code say and the code does not keep *)

\* advance.rs:235: after the run failed no step of it is claimed any more.
NoClaimAfterFailure ==
    [][\A n \in Nodes : status[n] = "ready" /\ status'[n] = "running" => run_status # "failed"]_vars

\* readiness.rs:60: a root is never evaluated while pending, other paths made it ready.
RootsReadied == run_status = "running" => \A n \in Roots : status[n] # "pending"

\* The last run.* event tells the run's status.
EventTellsStatus == run_status \in Ended => last_event = run_status

=============================================================================
