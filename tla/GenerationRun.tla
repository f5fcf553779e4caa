--------------------------- MODULE GenerationRun ---------------------------
(***************************************************************************)
(* Generation of the answers of one chat thread, independently of any      *)
(* connection (crates/chat: store/runs.rs, store/reaper.rs, approver.rs,   *)
(* worker/mod.rs, worker/sink.rs) on the primitives of crates/durable:     *)
(* lease, fencing token, append-only event log, checkpoints between the    *)
(* steps of the agent, takeover, the wait for an approval, and the sweeper *)
(* that ends orphaned runs.                                                *)
(*                                                                         *)
(* An answer is the sequence of the texts of its steps, and the text of a  *)
(* step is its number.  Events that are not part of the answer are left    *)
(* out of the log, except those that end it.                               *)
(***************************************************************************)
EXTENDS Integers, Sequences, FiniteSets

CONSTANTS
    Runs,         \* the runs of the thread, numbered by created_at
    Autonomous,   \* those of the autonomous profile: they keep checkpoints
    Workers,
    Steps,        \* steps of an answer
    Gated,        \* steps with a tool that needs an approval
    MaxAttempts,  \* max_attempts of the job
    MaxFaults     \* bound: crashes, errors, and extensions that come too late, by runs posted

ASSUME GenerationAssumption ==
    /\ Runs \subseteq Nat /\ Autonomous \subseteq Runs
    /\ Steps \in Nat \ {0} /\ Gated \subseteq 1..Steps
    /\ MaxAttempts \in Nat \ {0} /\ MaxFaults \in Nat

VARIABLES
    run,      \* generation_run rows
    log,      \* run -> generation_event rows, in the order of seq
    msg,      \* run -> content of the assistant's message
    job,      \* run -> its row of job_queue: [id, st, att]
    wk,       \* worker -> what it is doing
    sweep,    \* the sweeper's force_fail_run in progress: [pc, r]
    faults,
    clean     \* history: runs none of whose attempts left its text in the log

vars == <<run, log, msg, job, wk, sweep, faults, clean>>

Ended == {"done", "failed", "cancelled"}
Unended == {"queued", "running", "waiting"}

\* The event that ends a stream: Done, Error or Status, in the order of the numbers.
EndEvent(status) == CASE status = "done" -> 0 [] status = "failed" -> -1 [] status = "cancelled" -> -2
NoCheckpoint == [at |-> 0, step |-> 0]
NoCall == <<>>
NoJob == 0

\* lease "null" is NULL; pending is the tool call that waits for an approval.
NewRun == [status |-> "none", fence |-> 0, lease |-> "null", cancel |-> FALSE,
           pending |-> NoCall, ckpt |-> NoCheckpoint]

Idle == [pc |-> "idle", r |-> NoJob, tok |-> 0, job |-> 0, last |-> FALSE, content |-> <<>>,
         step |-> 0, at |-> 0, stop |-> FALSE, beat |-> TRUE]

Init ==
    /\ run = [r \in Runs |-> NewRun]
    /\ log = [r \in Runs |-> <<>>] /\ msg = [r \in Runs |-> <<>>]
    /\ job = [r \in Runs |-> [id |-> 0, st |-> "none", att |-> 0]]
    /\ wk = [w \in Workers |-> Idle]
    /\ sweep = [pc |-> "idle", r |-> NoJob]
    /\ faults = 0 /\ clean = Runs

\* The texts among events, in their order: the k-th has k texts up to itself.
Text(events) ==
    LET texts == {i \in DOMAIN events : events[i] > 0}
        upTo(i) == Cardinality({j \in texts : j <= i})
    IN  [k \in 1..Cardinality(texts) |-> events[CHOOSE i \in texts : upTo(i) = k]]

Owns(w) == wk[w].tok = run[wk[w].r].fence
IsAt(w, pc) == wk[w].pc = pc
Goto(w, pc) == wk' = [wk EXCEPT ![w].pc = pc]

\* The bound: a thread of one run sees MaxFaults faults, one of two runs half as many.
Posted == Cardinality({r \in Runs : run[r].status # "none"})
WithinBound(f, n) == f * n <= MaxFaults
Fault == WithinBound(faults + 1, Posted) /\ faults' = faults + 1

-----------------------------------------------------------------------------
(* Requests *)

\* post_message: message, run and job in one transaction.  created_at is the start of the
\* transaction, so a run may appear after one that was created later.
Post(r) ==
    /\ run[r].status = "none" /\ WithinBound(faults, Posted + 1)
    /\ run' = [run EXCEPT ![r].status = "queued"]
    /\ job' = [job EXCEPT ![r] = [id |-> 1, st |-> "ready", att |-> 0]]
    /\ UNCHANGED <<log, msg, wk, sweep, faults, clean>>

RequestCancel(r) ==
    /\ run[r].status # "none"
    /\ run' = [run EXCEPT ![r].cancel = TRUE]
    /\ UNCHANGED <<log, msg, job, wk, sweep, faults, clean>>

-----------------------------------------------------------------------------
(* A worker: claim_and_process *)

TakeJob(w, r) ==
    /\ IsAt(w, "idle") /\ job[r].st = "ready"
    /\ job' = [job EXCEPT ![r].st = "taken", ![r].att = IF @ < MaxAttempts THEN @ + 1 ELSE @]
    /\ wk' = [wk EXCEPT ![w] = [Idle EXCEPT !.pc = "turn", !.r = r, !.job = job[r].id,
                                            !.last = job[r].att + 1 >= MaxAttempts]]
    /\ UNCHANGED <<run, log, msg, sweep, faults, clean>>

\* blocked_by_earlier_run
Blocked(r) == \E e \in Runs : e < r /\ run[e].status \in {"queued", "running"}

HoldsJob(w) == wk[w].job = job[wk[w].r].id

TakeTurn(w) ==
    /\ IsAt(w, "turn") /\ ~Blocked(wk[w].r)
    /\ Goto(w, "claim")
    /\ UNCHANGED <<run, log, msg, job, sweep, faults, clean>>

\* Faulty variant: a job whose turn has not come is acknowledged.
WaitTurn_acked(w) ==
    /\ IsAt(w, "turn") /\ Blocked(wk[w].r)
    /\ Goto(w, "ack")
    /\ UNCHANGED <<run, log, msg, job, sweep, faults, clean>>

\* jobq::defer gives the attempt back.
WaitTurn(w) ==
    /\ IsAt(w, "turn") /\ Blocked(wk[w].r)
    /\ job' = IF HoldsJob(w) /\ job[wk[w].r].st # "none"
              THEN [job EXCEPT ![wk[w].r].st = "ready", ![wk[w].r].att = IF @ > 0 THEN @ - 1 ELSE 0]
              ELSE job
    /\ wk' = [wk EXCEPT ![w] = Idle]
    /\ UNCHANGED <<run, log, msg, sweep, faults, clean>>

Claimable(r) ==
    \/ run[r].status = "queued"
    \/ run[r].status \in {"running", "waiting"} /\ run[r].lease = "lapsed"

\* Faulty variant: a takeover keeps the token.
Claim_unfenced(w) ==
    LET r == wk[w].r IN
    /\ IsAt(w, "claim") /\ Claimable(r)
    /\ run' = [run EXCEPT ![r].status = "running", ![r].lease = "live",
                          ![r].fence = IF @ = 0 THEN 1 ELSE @]
    /\ wk' = [wk EXCEPT ![w].tok = run'[r].fence,
                        ![w].pc = IF run[r].cancel THEN "cancel" ELSE "prune"]
    /\ UNCHANGED <<log, msg, job, sweep, faults, clean>>

\* durable::claim
Claim(w) ==
    LET r == wk[w].r IN
    /\ IsAt(w, "claim") /\ Claimable(r)
    /\ run' = [run EXCEPT ![r].status = "running", ![r].lease = "live", ![r].fence = @ + 1]
    /\ wk' = [wk EXCEPT ![w].tok = run[r].fence + 1,
                        ![w].pc = IF run[r].cancel THEN "cancel" ELSE "prune"]
    /\ UNCHANGED <<log, msg, job, sweep, faults, clean>>

\* The run has ended or another worker has it: the job is acknowledged.
ClaimNothing(w) ==
    /\ IsAt(w, "claim") /\ ~Claimable(wk[w].r)
    /\ Goto(w, "ack")
    /\ UNCHANGED <<run, log, msg, job, sweep, faults, clean>>

\* Faulty variant: the events of the abandoned attempt stay in the log.
Prune_none(w) ==
    LET r == wk[w].r
        c == run[r].ckpt IN
    /\ IsAt(w, "prune")
    /\ wk' = [wk EXCEPT ![w].pc = "step", ![w].step = c.step, ![w].at = c.at,
                        ![w].content = Text(SubSeq(log[r], 1, c.at))]
    /\ clean' = IF Owns(w) /\ c = NoCheckpoint /\ Text(log[r]) # <<>> THEN clean \ {r} ELSE clean
    /\ UNCHANGED <<run, log, msg, job, sweep, faults>>

\* prune_events_after and seed_from_log: the events after the checkpoint go, those before it
\* make up the answer so far.  Without a checkpoint neither happens.
Prune(w) ==
    LET r == wk[w].r
        c == run[r].ckpt IN
    /\ IsAt(w, "prune")
    /\ log' = IF Owns(w) /\ c # NoCheckpoint THEN [log EXCEPT ![r] = SubSeq(@, 1, c.at)] ELSE log
    /\ wk' = [wk EXCEPT ![w].pc = "step", ![w].step = c.step, ![w].at = c.at,
                        ![w].content = Text(SubSeq(log[r], 1, c.at))]
    /\ clean' = IF Owns(w) /\ c = NoCheckpoint /\ Text(log[r]) # <<>> THEN clean \ {r} ELSE clean
    /\ UNCHANGED <<run, msg, job, sweep, faults>>

\* WorkerSink::emit.  A worker that has lost its token stops, and acknowledges the job.
Emit(w) ==
    LET r == wk[w].r IN
    /\ IsAt(w, "step") /\ ~wk[w].stop /\ wk[w].step < Steps
    /\ \/ /\ Owns(w)
          /\ log' = [log EXCEPT ![r] = Append(@, wk[w].step + 1)]
          /\ wk' = [wk EXCEPT ![w].pc = IF wk[w].step + 1 \in Gated THEN "ask" ELSE "save",
                              ![w].step = @ + 1, ![w].content = Append(@, wk[w].step + 1),
                              ![w].at = Len(log[r]) + 1]
       \/ ~Owns(w) /\ Goto(w, "ack") /\ log' = log
    /\ UNCHANGED <<run, msg, job, sweep, faults, clean>>

\* The approval is asked for: the call is recorded before it is shown, then the run waits.
Ask(w) ==
    LET r == wk[w].r IN
    /\ IsAt(w, "ask")
    /\ \/ /\ Owns(w)
          /\ run' = [run EXCEPT ![r].pending = <<wk[w].tok, wk[w].step>>, ![r].status = "waiting"]
          /\ Goto(w, "wait")
       \/ ~Owns(w) /\ Goto(w, "ack") /\ run' = run
    /\ UNCHANGED <<log, msg, job, sweep, faults, clean>>

\* Faulty variant: the recorded call is cleared without a look at the token.
Decide_unfenced(w) ==
    LET r == wk[w].r IN
    /\ IsAt(w, "wait")
    /\ run' = [run EXCEPT ![r].pending = NoCall,
                          ![r].status = IF Owns(w) THEN "running" ELSE @]
    /\ wk' = [wk EXCEPT ![w].pc = "save", ![w].stop = @ \/ run[r].cancel]
    /\ UNCHANGED <<log, msg, job, sweep, faults, clean>>

\* An answer, a cancellation or the end of the wait: resume_running.
Decide(w) ==
    LET r == wk[w].r IN
    /\ IsAt(w, "wait")
    /\ run' = IF Owns(w) THEN [run EXCEPT ![r].pending = NoCall, ![r].status = "running"] ELSE run
    /\ wk' = [wk EXCEPT ![w].pc = "save", ![w].stop = @ \/ run[r].cancel]
    /\ UNCHANGED <<log, msg, job, sweep, faults, clean>>

\* The end of a step.  A checkpoint is saved if the run goes on, unless the statement fails.
Save(w) ==
    LET r == wk[w].r
        live == Owns(w) /\ run[r].status \in {"running", "waiting"} IN
    /\ IsAt(w, "save")
    /\ \/ /\ (r \notin Autonomous \/ wk[w].step = Steps)
          /\ Goto(w, "step") /\ UNCHANGED <<run, faults>>
       \/ /\ r \in Autonomous /\ wk[w].step < Steps /\ live
          /\ run' = [run EXCEPT ![r].ckpt = [at |-> wk[w].at, step |-> wk[w].step]]
          /\ Goto(w, "step") /\ UNCHANGED faults
       \/ /\ r \in Autonomous /\ wk[w].step < Steps /\ ~live
          /\ Goto(w, "ack") /\ UNCHANGED <<run, faults>>
       \/ /\ r \in Autonomous /\ wk[w].step < Steps
          /\ Goto(w, "step") /\ Fault /\ run' = run
    /\ UNCHANGED <<log, msg, job, sweep, clean>>

\* finalize_run: status, message and last event in one transaction, under the token only.
Finalize(w, status, content) ==
    LET r == wk[w].r IN
    /\ IF Owns(w)
       THEN /\ run' = [run EXCEPT ![r].status = status, ![r].lease = "null",
                                  ![r].ckpt = NoCheckpoint]
            /\ msg' = [msg EXCEPT ![r] = content]
            /\ log' = [log EXCEPT ![r] = Append(@, EndEvent(status))]
       ELSE UNCHANGED <<run, msg, log>>
    /\ Goto(w, "ack")
    /\ UNCHANGED <<job, sweep, faults, clean>>

FinishAnswer(w) ==
    /\ IsAt(w, "step") /\ (wk[w].stop \/ wk[w].step = Steps)
    /\ Finalize(w, IF wk[w].stop THEN "cancelled" ELSE "done", wk[w].content)

\* The run was cancelled before it was claimed.
FinishEmpty(w) == IsAt(w, "cancel") /\ Finalize(w, "cancelled", <<>>)

Ack(w) ==
    /\ IsAt(w, "ack")
    /\ job' = IF HoldsJob(w) THEN [job EXCEPT ![wk[w].r].st = "none"] ELSE job
    /\ wk' = [wk EXCEPT ![w] = Idle]
    /\ UNCHANGED <<run, log, msg, sweep, faults, clean>>

\* The generation fails: for good on the last attempt or when the request was refused.
GenerationError(w) ==
    /\ wk[w].pc \in {"prune", "step"} /\ Fault
    /\ \E final \in BOOLEAN :
          /\ wk[w].last => final
          /\ wk' = [wk EXCEPT ![w].pc = IF final THEN "fail" ELSE "nack", ![w].last = final]
    /\ UNCHANGED <<run, log, msg, job, sweep, clean>>

\* force_fail_run, first transaction: the error event, unless the run has ended.
AppendError(r) == log' = [log EXCEPT ![r] = Append(@, EndEvent("failed"))]

\* Second transaction: the status, whatever it is by now.
MarkFailed(r) ==
    run' = [run EXCEPT ![r].status = "failed", ![r].lease = "null", ![r].pending = NoCall]

GiveUp(w) ==
    LET r == wk[w].r IN
    \/ /\ IsAt(w, "fail") /\ run[r].status \in Unended
       /\ AppendError(r) /\ Goto(w, "mark")
       /\ UNCHANGED <<run, msg, job, sweep, faults, clean>>
    \/ /\ IsAt(w, "fail") /\ run[r].status \notin Unended
       /\ Goto(w, "nack")
       /\ UNCHANGED <<run, log, msg, job, sweep, faults, clean>>
    \/ /\ IsAt(w, "mark")
       /\ MarkFailed(r) /\ Goto(w, "nack")
       /\ UNCHANGED <<log, msg, job, sweep, faults, clean>>

\* jobq::fail or kill.
Nack(w) ==
    /\ IsAt(w, "nack")
    /\ job' = IF HoldsJob(w) /\ wk[w].last THEN [job EXCEPT ![wk[w].r].st = "none"] ELSE job
    /\ wk' = [wk EXCEPT ![w] = Idle]
    /\ UNCHANGED <<run, log, msg, sweep, faults, clean>>

Heartbeat(w) ==
    LET r == wk[w].r
        live == Owns(w) /\ run[r].status \in {"running", "waiting"} IN
    /\ wk[w].pc \in {"step", "ask", "wait", "save"} /\ wk[w].beat
    /\ run' = IF live THEN [run EXCEPT ![r].lease = "live"] ELSE run
    /\ wk' = [wk EXCEPT ![w].stop = @ \/ ~live \/ run[r].cancel, ![w].beat = live]
    /\ UNCHANGED <<log, msg, job, sweep, faults, clean>>

Crash(w) ==
    /\ ~IsAt(w, "idle") /\ Fault
    /\ wk' = [wk EXCEPT ![w] = Idle]
    /\ UNCHANGED <<run, log, msg, job, sweep, clean>>

-----------------------------------------------------------------------------
(* Time and the sweeper *)

Working(r) == {w \in Workers : wk[w].pc # "idle" /\ wk[w].r = r}

\* A lease lapses when nobody extends it; while its holder is at work only by a fault.
LeaseLapses(r) ==
    /\ run[r].lease = "live"
    /\ IF \E w \in Working(r) : Owns(w) THEN Fault ELSE UNCHANGED faults
    /\ run' = [run EXCEPT ![r].lease = "lapsed"]
    /\ UNCHANGED <<log, msg, job, wk, sweep, clean>>

\* job_visibility and backoff_for outlast the lease of a worker that is gone.
JobReappears(r) ==
    /\ job[r].st = "taken"
    /\ IF \E w \in Working(r) : HoldsJob(w) THEN Fault
       ELSE run[r].lease # "live" /\ UNCHANGED faults
    /\ job' = [job EXCEPT ![r].st = "ready"]
    /\ UNCHANGED <<run, log, msg, wk, sweep, clean>>

Orphaned(r, status) == run[r].status = status /\ run[r].lease = "lapsed" /\ job[r].st = "none"

\* A row with lease NULL makes the approvals' query fail to decode.
Undecodable == \E r \in Runs : run[r].status = "waiting" /\ run[r].lease = "null" /\ job[r].st = "none"

\* reap_orphaned_runs and recover_orphaned_approvals.
Sweep(r) ==
    /\ sweep.pc = "idle"
    /\ Orphaned(r, "running") \/ (Orphaned(r, "waiting") /\ ~Undecodable)
    /\ sweep' = [pc |-> "fail", r |-> r]
    /\ UNCHANGED <<run, log, msg, job, wk, faults, clean>>

SweepFails ==
    LET r == sweep.r IN
    \/ /\ sweep.pc = "fail" /\ run[r].status \in Unended
       /\ AppendError(r) /\ sweep' = [sweep EXCEPT !.pc = "mark"]
       /\ UNCHANGED <<run, msg, job, wk, faults, clean>>
    \/ /\ sweep.pc = "fail" /\ run[r].status \notin Unended
       /\ sweep' = [sweep EXCEPT !.pc = "idle"]
       /\ UNCHANGED <<run, log, msg, job, wk, faults, clean>>
    \/ /\ sweep.pc = "mark"
       /\ MarkFailed(r) /\ sweep' = [sweep EXCEPT !.pc = "idle"]
       /\ UNCHANGED <<log, msg, job, wk, faults, clean>>

\* requeue_orphaned_approval: within the time for an approval the job is enqueued again.
Requeue(r) ==
    /\ sweep.pc = "idle" /\ Orphaned(r, "waiting") /\ ~Undecodable
    /\ job' = [job EXCEPT ![r] = [id |-> @.id + 1, st |-> "ready", att |-> 0]]
    /\ UNCHANGED <<run, log, msg, wk, sweep, faults, clean>>

-----------------------------------------------------------------------------
WorkerStep(w) ==
    \/ TakeTurn(w) \/ WaitTurn(w) \/ Claim(w) \/ ClaimNothing(w) \/ Prune(w) \/ Emit(w)
    \/ Ask(w) \/ Decide(w) \/ Save(w) \/ FinishAnswer(w) \/ FinishEmpty(w) \/ Ack(w)
    \/ GiveUp(w) \/ Nack(w)

Next ==
    \/ \E r \in Runs : Post(r) \/ RequestCancel(r) \/ LeaseLapses(r) \/ JobReappears(r)
                       \/ Sweep(r) \/ Requeue(r)
    \/ \E w \in Workers, r \in Runs : TakeJob(w, r)
    \/ \E w \in Workers : WorkerStep(w) \/ GenerationError(w) \/ Heartbeat(w) \/ Crash(w)
    \/ SweepFails

Spec == Init /\ [][Next]_vars

\* Workers and the sweeper go on, and time passes.
LiveSpec ==
    /\ Spec
    /\ \A w \in Workers : WF_vars(WorkerStep(w))
    /\ \A r \in Runs : /\ SF_vars(\E w \in Workers : TakeJob(w, r))
                       /\ WF_vars(LeaseLapses(r) /\ faults' = faults)
                       /\ WF_vars(JobReappears(r) /\ faults' = faults)
                       /\ WF_vars(Sweep(r) \/ Requeue(r))
    /\ WF_vars(SweepFails)

-----------------------------------------------------------------------------
(* Properties *)

(* Two workers never hold a run's token (durable::claim).                    *)
OneOwner ==
    \A w, v \in Workers :
        (wk[w].tok # 0 /\ wk[v].tok # 0 /\ wk[w].r = wk[v].r /\ wk[w].tok = wk[v].tok) => w = v

(* However often an answer is taken over, the message of a run that is done  *)
(* has the text of every step once and in order, and the log replays just    *)
(* that text (prune_events_after, seed_from_log, fencing).  Excepted are     *)
(* runs of which an attempt ended before the first checkpoint.               *)
Answer == [i \in 1..Steps |-> i]
ContentSound ==
    \A r \in Runs :
        run[r].status = "done" =>
            /\ (r \in clean \/ r \notin Autonomous) => msg[r] = Answer
            /\ r \in clean => Text(log[r]) = Answer

(* A worker that waits for an approval can be answered: the call it waits    *)
(* for is the one recorded in the run (set_pending_approval,                 *)
(* clear_pending_approval), whatever workers it took over from still do.     *)
WaitAnswerable ==
    \A w \in Workers :
        (IsAt(w, "wait") /\ Owns(w) /\ run[wk[w].r].status = "waiting") =>
            run[wk[w].r].pending = <<wk[w].tok, wk[w].step>>

(* Every run that was posted ends: by its answer, a cancellation, the last   *)
(* attempt or the sweeper (claim_and_process, reap_orphaned_runs), so that   *)
(* no run waits for its turn for ever.                                       *)
RunsEnd == \A r \in Runs : run[r].status = "queued" ~> run[r].status \in Ended

-----------------------------------------------------------------------------
(* What the documentation says and the code does not keep *)

\* A message has no text twice (worker/mod.rs on prune_events_after).
ContentOnce == \A r \in Runs : run[r].status = "done" => msg[r] = Answer

\* A run takes its turn only when every run posted before it has ended
\* (blocked_by_earlier_run).
TurnOrder ==
    [][\A w \in Workers : (IsAt(w, "turn") /\ wk'[w].pc = "claim") =>
          \A e \in Runs : e < wk[w].r => run[e].status \notin Unended]_vars

\* One answer of a thread is generated at a time (claim_and_process).
OneAtATime ==
    \A r, e \in Runs : (run[r].status = "running" /\ run[e].status = "running") => r = e

\* A run that has ended stays as it is (RunStatus::is_terminal, force_fail_run).
EndIsFinal ==
    [][\A r \in Runs : run[r].status \in Ended =>
          run'[r].status = run[r].status /\ log'[r] = log[r]]_vars

\* A run that has not ended ends, so that no later run waits for its turn for ever
\* (blocked_by_earlier_run).
NoneStuck == \A r \in Runs : run[r].status \in Unended ~> run[r].status \in Ended
=============================================================================
