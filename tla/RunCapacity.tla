---------------------------- MODULE RunCapacity ----------------------------
(***************************************************************************)
(* The limits of the workflow engine (crates/workflow-engine): how many    *)
(* runs of a workflow are running (run/store.rs create_run,                *)
(* run/store/limits.rs) and how many steps execute at once                 *)
(* (concurrency.rs, run/worker.rs), with the lease of a step, its          *)
(* heartbeat, the reclaim of lapsed leases and the reconciliation of the   *)
(* counters by the scheduler's tick.                                       *)
(*                                                                         *)
(* Every run has one step; WorkflowRun has the graphs.                     *)
(***************************************************************************)
EXTENDS Integers, FiniteSets

CONSTANTS
    Runs,         \* numbered by created_at
    Flow,         \* run -> its workflow
    MaxParallel,  \* policies.max_parallel_runs
    Skipping,     \* runs whose snapshot says on_trigger_overflow = skip
    Workers,      \* one worker task per process
    Limit,        \* scope of a counter (tenant, workflow, node kind) -> limit_n
    Members,      \* scope -> the runs whose steps reserve in it
    MaxTokens,    \* bound: fencing token of a step that may still be claimed
    MaxResumes,   \* bound: resume_failed
    MaxFaults     \* bound: crashes, failed calls, and extensions that come too late

Scopes == DOMAIN Limit
Flows == {Flow[r] : r \in Runs}

ASSUME CapacityAssumption ==
    /\ Runs \subseteq Nat \ {0} /\ MaxParallel \in Nat \ {0}
    /\ Members \in [Scopes -> SUBSET Runs] /\ "none" \notin Scopes
    /\ \A s \in Scopes : Limit[s] \in Nat \ {0}
    /\ MaxTokens \in Nat /\ MaxResumes \in Nat /\ MaxFaults \in Nat

VARIABLES
    run,      \* run -> status of its workflow_run row
    cancel,   \* runs with cancel_requested
    step,     \* run -> its step_execution row: [st, tok, lapsed]
    admit,    \* workflow -> transactions that hold its advisory lock and have counted:
              \*   the run they lock or are to insert, for the tick or for a creation: [who, r, full]
    cur,      \* scope -> current_n
    wk,       \* worker -> where execute_and_advance is
    beats,    \* worker -> heartbeat tasks of its process: the <<run, token>> they extend
    tick,     \* the statement of reconcile in progress: [scope, n, seen]
    faults,
    resumed,  \* history: runs that resume_failed set running; how often
    slack     \* history: a reconcile wrote a count that had not seen a reservation

vars == <<run, cancel, step, admit, cur, wk, beats, tick, faults, resumed, slack>>

NoTick == [scope |-> "none", n |-> 0, seen |-> {}]
Idle == [pc |-> "idle", r |-> 0, tok |-> 0]

Init ==
    /\ run = [r \in Runs |-> "none"] /\ cancel = {}
    /\ step = [r \in Runs |-> [st |-> "none", tok |-> 0, lapsed |-> FALSE]]
    /\ admit = [f \in Flows |-> {}]
    /\ cur = [s \in Scopes |-> 0]
    /\ wk = [w \in Workers |-> Idle] /\ beats = [w \in Workers |-> {}]
    /\ tick = NoTick /\ faults = 0 /\ resumed = {} /\ slack = FALSE

Of(f, status) == {r \in Runs : Flow[r] = f /\ run[r] = status}
ScopesOf(r) == {s \in Scopes : r \in Members[s]}
IsAt(w, pc) == wk[w].pc = pc
Goto(w, pc) == wk' = [wk EXCEPT ![w].pc = pc]
Claimed(w) == <<wk[w].r, wk[w].tok>>
Owns(w) == step[wk[w].r].tok = wk[w].tok
Fault == faults < MaxFaults /\ faults' = faults + 1

-----------------------------------------------------------------------------
(* Admission of runs: create_run and promote_for_workflow under the advisory *)
(* lock of the workflow                                                      *)

\* Faulty variant: the advisory lock is not taken.
Unlocked_never(f) == TRUE

\* pg_advisory_xact_lock
Unlocked(f) == admit[f] = {}

Admitting(who, r, full) ==
    admit' = [admit EXCEPT ![Flow[r]] = @ \cup {[who |-> who, r |-> r, full |-> full]}]

\* The lock, then the count of queued and running runs.  A run appears in the order of the
\* locks, not of created_at.
CreateCount(r) ==
    LET f == Flow[r] IN
    /\ run[r] = "none" /\ Unlocked(f) /\ \A t \in admit[f] : t.r # r
    /\ Admitting("create", r, Cardinality(Of(f, "queued") \cup Of(f, "running")) >= MaxParallel)
    /\ UNCHANGED <<run, cancel, step, cur, wk, beats, tick, faults, resumed, slack>>

\* The rows of the run and of its step; a workflow that skips creates none.
CreateInsert(t) ==
    /\ t.who = "create"
    /\ admit' = [admit EXCEPT ![Flow[t.r]] = @ \ {t}]
    /\ \/ ~t.full /\ run' = [run EXCEPT ![t.r] = "running"] /\ step' = [step EXCEPT ![t.r].st = "ready"]
       \/ /\ t.full /\ t.r \notin Skipping
          /\ run' = [run EXCEPT ![t.r] = "queued"] /\ step' = [step EXCEPT ![t.r].st = "pending"]
       \/ t.full /\ t.r \in Skipping /\ run' = [run EXCEPT ![t.r] = "skipped"] /\ UNCHANGED step
    /\ UNCHANGED <<cancel, cur, wk, beats, tick, faults, resumed, slack>>

\* The lock, then the oldest queued run under its row lock, then the count of the running runs.
PromoteCount(r) ==
    LET f == Flow[r] IN
    /\ run[r] = "queued" /\ Unlocked(f) /\ \A q \in Of(f, "queued") : r <= q
    /\ \A t \in admit[f] : t.r # r
    /\ Admitting("tick", r, Cardinality(Of(f, "running")) >= MaxParallel)
    /\ UNCHANGED <<run, cancel, step, cur, wk, beats, tick, faults, resumed, slack>>

\* The run starts, unless the limit is reached.
Promote(t) ==
    /\ t.who = "tick"
    /\ admit' = [admit EXCEPT ![Flow[t.r]] = @ \ {t}]
    /\ IF t.full THEN UNCHANGED <<run, step>>
       ELSE run' = [run EXCEPT ![t.r] = "running"] /\ step' = [step EXCEPT ![t.r].st = "ready"]
    /\ UNCHANGED <<cancel, cur, wk, beats, tick, faults, resumed, slack>>

\* A statement of either transaction fails.
Rollback(t) ==
    /\ Fault
    /\ admit' = [admit EXCEPT ![Flow[t.r]] = @ \ {t}]
    /\ UNCHANGED <<run, cancel, step, cur, wk, beats, tick, resumed, slack>>

-----------------------------------------------------------------------------
(* A worker: execute_and_advance *)

Claim(w, r) ==
    /\ IsAt(w, "idle") /\ step[r].st = "ready" /\ r \notin cancel
    /\ step[r].tok < MaxTokens
    /\ step' = [step EXCEPT ![r] = [st |-> "running", tok |-> @.tok + 1, lapsed |-> FALSE]]
    /\ wk' = [wk EXCEPT ![w] = [pc |-> "reserve", r |-> r, tok |-> step[r].tok + 1]]
    /\ beats' = [beats EXCEPT ![w] = @ \cup {<<r, step[r].tok + 1>>}]
    /\ UNCHANGED <<run, cancel, admit, cur, tick, faults, resumed, slack>>

HasRoom(r) == \A s \in ScopesOf(r) : cur[s] < Limit[s]
Stopped(w) == [beats EXCEPT ![w] = @ \ {Claimed(w)}]

\* Faulty variant: one scope with room is enough.
TryAcquire_any(w) ==
    LET r == wk[w].r IN
    /\ IsAt(w, "reserve") /\ \E s \in ScopesOf(r) : cur[s] < Limit[s]
    /\ cur' = [s \in Scopes |-> IF s \in ScopesOf(r) THEN cur[s] + 1 ELSE cur[s]]
    /\ Goto(w, "execute")
    /\ UNCHANGED <<run, cancel, step, admit, beats, tick, faults, resumed, slack>>

\* try_acquire: all scopes or none, in one transaction.
TryAcquire(w) ==
    LET r == wk[w].r IN
    /\ IsAt(w, "reserve") /\ HasRoom(r)
    /\ cur' = [s \in Scopes |-> IF s \in ScopesOf(r) THEN cur[s] + 1 ELSE cur[s]]
    /\ Goto(w, "execute")
    /\ UNCHANGED <<run, cancel, step, admit, beats, tick, faults, resumed, slack>>

\* What a checkpoint of worker w leaves: nothing once the token is lost.  It compares only the
\* token, so the step of a drained run is written as well.
Settled(w, st, outcome) ==
    LET r == wk[w].r IN
    IF ~Owns(w) THEN UNCHANGED <<run, step>>
    ELSE /\ step' = [step EXCEPT ![r].st = st, ![r].lapsed = FALSE]
         /\ run' = [run EXCEPT ![r] = IF @ = "running" THEN outcome ELSE @]

\* No room: the step waits its turn (concurrency_limited), or keeps its lease if that write fails.
WaitTurn(w) ==
    /\ IsAt(w, "reserve") /\ ~HasRoom(wk[w].r)
    /\ \/ Settled(w, "ready", "running") /\ UNCHANGED faults
       \/ Fault /\ UNCHANGED <<run, step>>
    /\ wk' = [wk EXCEPT ![w] = Idle] /\ beats' = Stopped(w)
    /\ UNCHANGED <<cancel, admit, cur, tick, resumed, slack>>

\* try_acquire fails: the function returns, and the heartbeat task goes on.
AcquireError(w) ==
    /\ IsAt(w, "reserve") /\ Fault
    /\ wk' = [wk EXCEPT ![w] = Idle]
    /\ UNCHANGED <<run, cancel, step, admit, cur, beats, tick, resumed, slack>>

\* The node has run: the step succeeds, fails for good or is to be retried.
Checkpoint(w) ==
    /\ IsAt(w, "execute")
    /\ \/ Settled(w, "ended", "ended") \/ Settled(w, "ended", "failed") \/ Settled(w, "ready", "running")
    /\ Goto(w, "release") /\ beats' = Stopped(w)
    /\ UNCHANGED <<cancel, admit, cur, tick, faults, resumed, slack>>

\* The checkpoint fails; the reservation is released all the same.
CheckpointError(w) ==
    /\ IsAt(w, "execute") /\ Fault
    /\ Goto(w, "release") /\ beats' = Stopped(w)
    /\ UNCHANGED <<run, cancel, step, admit, cur, tick, resumed, slack>>

\* release, or its failure, which is left to reconcile
Release(w) ==
    /\ IsAt(w, "release")
    /\ \/ /\ cur' = [s \in Scopes |-> IF s \in ScopesOf(wk[w].r) /\ cur[s] > 0 THEN cur[s] - 1 ELSE cur[s]]
          /\ UNCHANGED faults
       \/ Fault /\ UNCHANGED cur
    /\ wk' = [wk EXCEPT ![w] = Idle]
    /\ UNCHANGED <<run, cancel, step, admit, beats, tick, resumed, slack>>

\* The process dies with its heartbeats.
Crash(w) ==
    /\ Fault
    /\ wk' = [wk EXCEPT ![w] = Idle] /\ beats' = [beats EXCEPT ![w] = {}]
    /\ UNCHANGED <<run, cancel, step, admit, cur, tick, resumed, slack>>

-----------------------------------------------------------------------------
(* Leases and the scheduler's tick *)

Extended(r) == \E w \in Workers : <<r, step[r].tok>> \in beats[w]

\* A lease lapses when nobody extends it, or when an extension comes too late.
Lapse(r) ==
    /\ step[r].st = "running" /\ ~step[r].lapsed
    /\ step' = [step EXCEPT ![r].lapsed = TRUE]
    /\ IF Extended(r) THEN Fault ELSE UNCHANGED faults
    /\ UNCHANGED <<run, cancel, admit, cur, wk, beats, tick, resumed, slack>>

\* heartbeat: it extends a lapsed lease too, as long as the token is the same.
Extend(r) ==
    /\ step[r].st = "running" /\ step[r].lapsed /\ Extended(r)
    /\ step' = [step EXCEPT ![r].lapsed = FALSE]
    /\ UNCHANGED <<run, cancel, admit, cur, wk, beats, tick, faults, resumed, slack>>

\* reclaim_expired_leases
Reclaim(r) ==
    /\ step[r].st = "running" /\ step[r].lapsed /\ run[r] = "running" /\ r \notin cancel
    /\ step' = [step EXCEPT ![r] = [st |-> "ready", tok |-> @.tok + 1, lapsed |-> FALSE]]
    /\ UNCHANGED <<run, cancel, admit, cur, wk, beats, tick, faults, resumed, slack>>

\* drain_one: a step in execution is waited for.  Its row lock waits for a promotion.
DrainOne(r) ==
    /\ run[r] \in {"queued", "running"} /\ \A t \in admit[Flow[r]] : t.r # r
    /\ IF step[r].st = "running" /\ ~step[r].lapsed THEN UNCHANGED <<run, step>>
       ELSE run' = [run EXCEPT ![r] = "ended"] /\ step' = [step EXCEPT ![r].st = "ended"]

RequestCancel(r) ==
    /\ DrainOne(r) /\ cancel' = cancel \cup {r}
    /\ UNCHANGED <<admit, cur, wk, beats, tick, faults, resumed, slack>>

\* drain_cancel_requested, when the step has ended or its lease has lapsed
DrainCancelRequested(r) ==
    /\ r \in cancel /\ DrainOne(r)
    /\ UNCHANGED <<cancel, admit, cur, wk, beats, tick, faults, resumed, slack>>

\* resume_failed takes no lock and counts nothing.
Resume(r) ==
    /\ run[r] = "failed" /\ Cardinality(resumed) < MaxResumes
    /\ run' = [run EXCEPT ![r] = "running"]
    /\ step' = [step EXCEPT ![r].st = "ready"]
    /\ cancel' = cancel \ {r} /\ resumed' = resumed \cup {r}
    /\ UNCHANGED <<admit, cur, wk, beats, tick, faults, slack>>

\* reconcile counts the running steps of a scope in the snapshot of its statement.
Counted(s) == {r \in Members[s] : step[r].st = "running"}

ReconcileCount(s) ==
    /\ tick = NoTick
    /\ tick' = [scope |-> s, n |-> Cardinality(Counted(s)),
                seen |-> {Claimed(w) : w \in {v \in Workers : ~IsAt(v, "idle") /\ Owns(v) /\ step[wk[v].r].st = "running"}}]
    /\ UNCHANGED <<run, cancel, step, admit, cur, wk, beats, faults, resumed, slack>>

Holders(s) == {w \in Workers : wk[w].pc \in {"execute", "release"} /\ wk[w].r \in Members[s]}

\* The row is written when its lock is had.
ReconcileSet ==
    /\ tick # NoTick
    /\ cur' = [cur EXCEPT ![tick.scope] = tick.n]
    /\ slack' = (slack \/ \E w \in Holders(tick.scope) : Claimed(w) \notin tick.seen)
    /\ tick' = NoTick
    /\ UNCHANGED <<run, cancel, step, admit, wk, beats, faults, resumed>>

Next ==
    \/ \E r \in Runs : CreateCount(r) \/ PromoteCount(r) \/ DrainCancelRequested(r) \/ RequestCancel(r)
                       \/ Resume(r) \/ Lapse(r) \/ Extend(r) \/ Reclaim(r)
    \/ \E f \in Flows : \E t \in admit[f] : CreateInsert(t) \/ Promote(t) \/ Rollback(t)
    \/ \E w \in Workers, r \in Runs : Claim(w, r)
    \/ \E w \in Workers : TryAcquire(w) \/ WaitTurn(w) \/ AcquireError(w) \/ Checkpoint(w)
                          \/ CheckpointError(w) \/ Release(w) \/ Crash(w)
    \/ \E s \in Scopes : ReconcileCount(s)
    \/ ReconcileSet

Spec == Init /\ [][Next]_vars

-----------------------------------------------------------------------------
(* Properties *)

\* The rows a run and its step may have together, whatever creations, promotions, checkpoints
\* and drains interleave: a step waits for a worker only in a running run, or in one that was
\* drained under its worker, whose cancellation keeps claims away; a queued run has no step to
\* claim, and one that was skipped has none.
TypeOK ==
    /\ run \in [Runs -> {"none", "queued", "running", "failed", "ended", "skipped"}]
    /\ \A r \in Runs : run[r] \in {"none", "skipped"} <=> step[r].st = "none"
    /\ \A r \in Runs : run[r] = "queued" => step[r].st = "pending"
    /\ \A r \in Runs : step[r].st = "running" => run[r] = "running"
    /\ \A r \in Runs : step[r].st = "ready" => run[r] = "running" \/ (run[r] = "ended" /\ r \in cancel)
    /\ cur \in [Scopes -> Nat]
    /\ \A w \in Workers : wk[w].r \in Runs \cup {0}

\* No more than max_parallel_runs runs of a workflow are running, however creations,
\* promotions, cancellations and endings interleave, apart from the runs that resume_failed
\* set running again without counting.
RunBound ==
    /\ TypeOK
    /\ \A f \in Flows : Cardinality(Of(f, "running") \ resumed) <= MaxParallel

\* The steps that execute never exceed the limit of a scope, although counters leak in a crash
\* and reconcile overwrites them, unless a reconcile overwrote a reservation whose step its
\* count had not seen running under that reservation's token.
SlotBound ==
    ~slack => \A s \in Scopes : Cardinality({w \in Holders(s) : IsAt(w, "execute")}) <= Limit[s]

-----------------------------------------------------------------------------
(* What comments of the code and its documents say and the code does not keep *)

\* ir.md:87: max_parallel_runs bounds the runs of a workflow that run at once.
RunStrict == \A f \in Flows : Cardinality(Of(f, "running")) <= MaxParallel

\* concurrency.rs:5: a step executes only with a reservation in every scope.
SlotStrict == \A s \in Scopes : Cardinality({w \in Holders(s) : IsAt(w, "execute")}) <= Limit[s]

\* worker.rs:185: the heartbeat stops when the execution is over.
LeaseMeansWork == \A w \in Workers : \A b \in beats[w] : ~IsAt(w, "idle") /\ Claimed(w) = b
=============================================================================
