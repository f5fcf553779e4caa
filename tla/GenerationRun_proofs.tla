------------------------ MODULE GenerationRun_proofs ------------------------
(***************************************************************************)
(* For every set of runs and workers and any number of steps, attempts and *)
(* faults: a run's token has one owner, a worker that waits for an         *)
(* approval can be answered, and an answer has every text once.            *)
(***************************************************************************)
EXTENDS GenerationRun, FiniteSetTheorems, SequenceTheorems, TLAPS

\* Rows and workers keep their fields, and tokens are numbers.
WorkerFields == {"pc", "r", "tok", "job", "last", "content", "step", "at", "stop", "beat"}
RunFields == {"status", "fence", "lease", "cancel", "pending", "ckpt"}

WorkerShapes ==
    /\ DOMAIN wk = Workers /\ wk = [w \in Workers |-> wk[w]]
    /\ \A w \in Workers : /\ DOMAIN wk[w] = WorkerFields
                          /\ wk[w] = [f \in WorkerFields |-> wk[w][f]]
                          /\ wk[w].tok \in Nat

RunShapes ==
    /\ DOMAIN run = Runs /\ run = [r \in Runs |-> run[r]]
    /\ \A r \in Runs : /\ DOMAIN run[r] = RunFields
                       /\ run[r] = [f \in RunFields |-> run[r][f]]
                       /\ run[r].fence \in Nat

Shapes == WorkerShapes /\ RunShapes

\* A token was given out by a claim, and who works on a run has one.
Tokens ==
    \A w \in Workers :
        /\ wk[w].tok # 0 => wk[w].r \in Runs /\ wk[w].tok <= run[wk[w].r].fence
        /\ ~IsAt(w, "idle") => wk[w].r \in Runs
        /\ wk[w].pc \in {"prune", "cancel", "step", "ask", "wait", "save"} => wk[w].tok # 0

IInv == Shapes /\ Tokens /\ OneOwner /\ WaitAnswerable

\* What every step but a claim leaves alone: tokens are kept or dropped.
TokensKept ==
    /\ \A r \in Runs : run'[r].fence = run[r].fence
    /\ \A w \in Workers : \/ wk'[w].tok = 0
                          \/ wk'[w].tok = wk[w].tok /\ wk'[w].r = wk[w].r

\* What every step but the question for an approval leaves alone.
WaitsKept ==
    /\ \A r \in Runs : run'[r].status = "waiting" =>
          /\ run[r].status = "waiting" /\ run'[r].pending = run[r].pending
          /\ run'[r].fence = run[r].fence
    /\ \A w \in Workers : wk'[w].pc = "wait" =>
          /\ wk[w].pc = "wait" /\ wk'[w].r = wk[w].r
          /\ wk'[w].tok = wk[w].tok /\ wk'[w].step = wk[w].step

\* Who does not wait need not have a token only where the code says so.
WorkKept ==
    \A w \in Workers :
        /\ wk'[w].pc # "idle" => wk'[w].r \in Runs
        /\ wk'[w].pc \in {"prune", "cancel", "step", "ask", "wait", "save"} => wk'[w].tok # 0

\* A step that keeps tokens, work and waits keeps the invariant.
LEMMA KeptHolds ==
    ASSUME IInv, Shapes', TokensKept, WorkKept, WaitsKept
    PROVE  IInv'
<1>1. Tokens'
  BY DEF IInv, Tokens, TokensKept, WorkKept, IsAt, Shapes, WorkerShapes, RunShapes
<1>2. OneOwner'
  BY DEF IInv, OneOwner, TokensKept
<1>3. WaitAnswerable'
  <2> SUFFICES ASSUME NEW w \in Workers, wk'[w].pc = "wait", wk'[w].tok = run'[wk'[w].r].fence,
                      run'[wk'[w].r].status = "waiting"
               PROVE  run'[wk'[w].r].pending = <<wk'[w].tok, wk'[w].step>>
    BY DEF WaitAnswerable, IsAt, Owns
  <2>1. /\ wk[w].pc = "wait" /\ wk'[w].r = wk[w].r
        /\ wk'[w].tok = wk[w].tok /\ wk'[w].step = wk[w].step /\ wk[w].r \in Runs
    BY DEF WaitsKept, IInv, Tokens, IsAt
  <2>2. /\ run[wk[w].r].status = "waiting" /\ run'[wk[w].r].pending = run[wk[w].r].pending
        /\ run'[wk[w].r].fence = run[wk[w].r].fence
    BY <2>1 DEF WaitsKept
  <2>3. run[wk[w].r].pending = <<wk[w].tok, wk[w].step>>
    BY <2>1, <2>2 DEF IInv, WaitAnswerable, IsAt, Owns
  <2> QED BY <2>1, <2>2, <2>3
<1> QED BY <1>1, <1>2, <1>3 DEF IInv

\* Nobody works at the start.
LEMMA InitHolds == Init => IInv
<1> SUFFICES ASSUME Init PROVE IInv
  OBVIOUS
<1>1. Shapes
  BY DEF Init, Shapes, WorkerShapes, RunShapes, NewRun, Idle, WorkerFields, RunFields
<1>2. Tokens /\ OneOwner /\ WaitAnswerable
  BY DEF Init, Tokens, OneOwner, WaitAnswerable, Idle, IsAt
<1> QED BY <1>1, <1>2 DEF IInv

\* A posted run.
LEMMA PostKeeps ==
    ASSUME IInv, NEW r \in Runs, Post(r)
    PROVE  IInv'
<1> USE DEF Post, IInv
<1>1. Shapes'
  BY ZenonT(40) DEF Shapes, WorkerShapes, RunShapes, WorkerFields, RunFields
<1>2. TokensKept /\ WorkKept /\ WaitsKept
  BY DEF Shapes, WorkerShapes, RunShapes, Tokens, IsAt, TokensKept, WorkKept, WaitsKept, WorkerFields, RunFields
<1> QED BY <1>1, <1>2, KeptHolds

\* A request to cancel.
LEMMA RequestCancelKeeps ==
    ASSUME IInv, NEW r \in Runs, RequestCancel(r)
    PROVE  IInv'
<1> USE DEF RequestCancel, IInv
<1>1. Shapes'
  BY ZenonT(40) DEF Shapes, WorkerShapes, RunShapes, WorkerFields, RunFields
<1>2. TokensKept /\ WorkKept /\ WaitsKept
  BY DEF Shapes, WorkerShapes, RunShapes, Tokens, IsAt, TokensKept, WorkKept, WaitsKept, WorkerFields, RunFields
<1> QED BY <1>1, <1>2, KeptHolds

\* A lease that lapses.
LEMMA LeaseLapsesKeeps ==
    ASSUME IInv, NEW r \in Runs, LeaseLapses(r)
    PROVE  IInv'
<1> USE DEF LeaseLapses, IInv
<1>1. Shapes'
  BY ZenonT(40) DEF Shapes, WorkerShapes, RunShapes, WorkerFields, RunFields
<1>2. TokensKept /\ WorkKept /\ WaitsKept
  BY DEF Shapes, WorkerShapes, RunShapes, Tokens, IsAt, TokensKept, WorkKept, WaitsKept, WorkerFields, RunFields
<1> QED BY <1>1, <1>2, KeptHolds

\* A job that is delivered again.
LEMMA JobReappearsKeeps ==
    ASSUME IInv, NEW r \in Runs, JobReappears(r)
    PROVE  IInv'
<1> USE DEF JobReappears, IInv
<1>1. Shapes'
  BY DEF Shapes, WorkerShapes, RunShapes, WorkerFields, RunFields
<1>2. TokensKept /\ WorkKept /\ WaitsKept
  BY DEF Shapes, WorkerShapes, RunShapes, Tokens, IsAt, TokensKept, WorkKept, WaitsKept, WorkerFields, RunFields
<1> QED BY <1>1, <1>2, KeptHolds

\* The sweeper finds an orphan.
LEMMA SweepKeeps ==
    ASSUME IInv, NEW r \in Runs, Sweep(r)
    PROVE  IInv'
<1> USE DEF Sweep, IInv
<1>1. Shapes'
  BY DEF Shapes, WorkerShapes, RunShapes, WorkerFields, RunFields
<1>2. TokensKept /\ WorkKept /\ WaitsKept
  BY DEF Shapes, WorkerShapes, RunShapes, Tokens, IsAt, TokensKept, WorkKept, WaitsKept, WorkerFields, RunFields
<1> QED BY <1>1, <1>2, KeptHolds

\* The sweeper enqueues the job of an orphan.
LEMMA RequeueKeeps ==
    ASSUME IInv, NEW r \in Runs, Requeue(r)
    PROVE  IInv'
<1> USE DEF Requeue, IInv
<1>1. Shapes'
  BY DEF Shapes, WorkerShapes, RunShapes, WorkerFields, RunFields
<1>2. TokensKept /\ WorkKept /\ WaitsKept
  BY DEF Shapes, WorkerShapes, RunShapes, Tokens, IsAt, TokensKept, WorkKept, WaitsKept, WorkerFields, RunFields
<1> QED BY <1>1, <1>2, KeptHolds

\* A worker takes a job.
LEMMA TakeJobKeeps ==
    ASSUME IInv, NEW w \in Workers, NEW r \in Runs, TakeJob(w, r)
    PROVE  IInv'
<1> USE DEF TakeJob, IInv, Idle
<1>1. Shapes'
  BY ZenonT(40) DEF Shapes, WorkerShapes, RunShapes, WorkerFields, RunFields
<1>2. TokensKept /\ WorkKept /\ WaitsKept
  BY DEF Shapes, WorkerShapes, RunShapes, Tokens, IsAt, TokensKept, WorkKept, WaitsKept, WorkerFields, RunFields
<1> QED BY <1>1, <1>2, KeptHolds

\* A run gets its turn.
LEMMA TakeTurnKeeps ==
    ASSUME IInv, NEW w \in Workers, TakeTurn(w)
    PROVE  IInv'
<1> USE DEF TakeTurn, IInv, Goto
<1>1. Shapes'
  BY ZenonT(40) DEF Shapes, WorkerShapes, RunShapes, WorkerFields, RunFields
<1>2. TokensKept /\ WorkKept /\ WaitsKept
  BY DEF Shapes, WorkerShapes, RunShapes, Tokens, IsAt, TokensKept, WorkKept, WaitsKept, WorkerFields, RunFields
<1> QED BY <1>1, <1>2, KeptHolds

\* A run waits for its turn.
LEMMA WaitTurnKeeps ==
    ASSUME IInv, NEW w \in Workers, WaitTurn(w)
    PROVE  IInv'
<1> USE DEF WaitTurn, IInv, Idle
<1>1. Shapes'
  BY DEF Shapes, WorkerShapes, RunShapes, WorkerFields, RunFields
<1>2. TokensKept /\ WorkKept /\ WaitsKept
  BY DEF Shapes, WorkerShapes, RunShapes, Tokens, IsAt, TokensKept, WorkKept, WaitsKept, WorkerFields, RunFields
<1> QED BY <1>1, <1>2, KeptHolds

\* A claim that finds nothing.
LEMMA ClaimNothingKeeps ==
    ASSUME IInv, NEW w \in Workers, ClaimNothing(w)
    PROVE  IInv'
<1> USE DEF ClaimNothing, IInv, Goto
<1>1. Shapes'
  BY ZenonT(40) DEF Shapes, WorkerShapes, RunShapes, WorkerFields, RunFields
<1>2. TokensKept /\ WorkKept /\ WaitsKept
  BY DEF Shapes, WorkerShapes, RunShapes, Tokens, IsAt, TokensKept, WorkKept, WaitsKept, WorkerFields, RunFields
<1> QED BY <1>1, <1>2, KeptHolds

\* The job is acknowledged.
LEMMA AckKeeps ==
    ASSUME IInv, NEW w \in Workers, Ack(w)
    PROVE  IInv'
<1> USE DEF Ack, IInv, Idle
<1>1. Shapes'
  BY DEF Shapes, WorkerShapes, RunShapes, WorkerFields, RunFields
<1>2. TokensKept /\ WorkKept /\ WaitsKept
  BY DEF Shapes, WorkerShapes, RunShapes, Tokens, IsAt, TokensKept, WorkKept, WaitsKept, WorkerFields, RunFields
<1> QED BY <1>1, <1>2, KeptHolds

\* The job is given back.
LEMMA NackKeeps ==
    ASSUME IInv, NEW w \in Workers, Nack(w)
    PROVE  IInv'
<1> USE DEF Nack, IInv, Idle
<1>1. Shapes'
  BY DEF Shapes, WorkerShapes, RunShapes, WorkerFields, RunFields
<1>2. TokensKept /\ WorkKept /\ WaitsKept
  BY DEF Shapes, WorkerShapes, RunShapes, Tokens, IsAt, TokensKept, WorkKept, WaitsKept, WorkerFields, RunFields
<1> QED BY <1>1, <1>2, KeptHolds

\* A crash.
LEMMA CrashKeeps ==
    ASSUME IInv, NEW w \in Workers, Crash(w)
    PROVE  IInv'
<1> USE DEF Crash, IInv, Idle
<1>1. Shapes'
  BY DEF Shapes, WorkerShapes, RunShapes, WorkerFields, RunFields
<1>2. TokensKept /\ WorkKept /\ WaitsKept
  BY DEF Shapes, WorkerShapes, RunShapes, Tokens, IsAt, TokensKept, WorkKept, WaitsKept, WorkerFields, RunFields
<1> QED BY <1>1, <1>2, KeptHolds

-----------------------------------------------------------------------------
(* Steps of a worker that keeps its token *)

WorkerMoved(w, pc) ==
    /\ WorkerShapes'
    /\ \A v \in Workers \ {w} : wk'[v] = wk[v]
    /\ wk'[w].pc = pc /\ wk'[w].r = wk[w].r /\ wk'[w].tok = wk[w].tok

\* A run is changed, but neither its token nor a wait for an approval begins.
RunMoved(r) ==
    /\ RunShapes'
    /\ \A q \in Runs \ {r} : run'[q] = run[q]
    /\ run'[r].fence = run[r].fence
    /\ run'[r].status = "waiting" => run[r].status = "waiting" /\ run'[r].pending = run[r].pending

\* Runs that are not written.
LEMMA RunUnchanged ==
    ASSUME Shapes, NEW r \in Runs, run' = run
    PROVE  RunMoved(r)
BY DEF Shapes, RunShapes, RunMoved

\* A worker goes on.
LEMMA MovePc ==
    ASSUME Shapes, NEW w \in Workers, NEW pc,
           wk' = [wk EXCEPT ![w].pc = pc]
    PROVE  WorkerMoved(w, pc)
BY DEF Shapes, WorkerShapes, WorkerMoved, WorkerFields

\* A worker goes on and may stop.
LEMMA MoveStop ==
    ASSUME Shapes, NEW w \in Workers, NEW pc, NEW b,
           wk' = [wk EXCEPT ![w].pc = pc, ![w].stop = b]
    PROVE  WorkerMoved(w, pc)
BY DEF Shapes, WorkerShapes, WorkerMoved, WorkerFields

\* A worker gives up.
LEMMA MoveLast ==
    ASSUME Shapes, NEW w \in Workers, NEW pc, NEW b,
           wk' = [wk EXCEPT ![w].pc = pc, ![w].last = b]
    PROVE  WorkerMoved(w, pc)
BY DEF Shapes, WorkerShapes, WorkerMoved, WorkerFields

\* A worker begins where the checkpoint is.
LEMMA MoveStep ==
    ASSUME Shapes, NEW w \in Workers, NEW pc, NEW s, NEW a, NEW c,
           wk' = [wk EXCEPT ![w].pc = pc, ![w].step = s, ![w].at = a, ![w].content = c]
    PROVE  WorkerMoved(w, pc)
BY DEF Shapes, WorkerShapes, WorkerMoved, WorkerFields

\* A worker has made the text of a step.
LEMMA MoveText ==
    ASSUME Shapes, NEW w \in Workers, NEW pc, NEW s, NEW a, NEW c,
           wk' = [wk EXCEPT ![w].pc = pc, ![w].step = s, ![w].content = c, ![w].at = a]
    PROVE  WorkerMoved(w, pc)
BY DEF Shapes, WorkerShapes, WorkerMoved, WorkerFields

\* A run is finalised.
LEMMA RunEnds ==
    ASSUME Shapes, NEW r \in Runs, NEW s, s # "waiting", NEW l, NEW c,
           run' = [run EXCEPT ![r].status = s, ![r].lease = l, ![r].ckpt = c]
    PROVE  RunMoved(r)
BY DEF Shapes, RunShapes, RunMoved, RunFields

\* A run resumes.
LEMMA RunResumes ==
    ASSUME Shapes, NEW r \in Runs, NEW c,
           run' = [run EXCEPT ![r].pending = c, ![r].status = "running"]
    PROVE  RunMoved(r)
BY DEF Shapes, RunShapes, RunMoved, RunFields

\* A run has a checkpoint.
LEMMA RunSaves ==
    ASSUME Shapes, NEW r \in Runs, NEW c,
           run' = [run EXCEPT ![r].ckpt = c]
    PROVE  RunMoved(r)
BY DEF Shapes, RunShapes, RunMoved, RunFields

\* A run's lease is extended.
LEMMA RunBeats ==
    ASSUME Shapes, NEW r \in Runs, NEW l,
           run' = [run EXCEPT ![r].lease = l]
    PROVE  RunMoved(r)
BY DEF Shapes, RunShapes, RunMoved, RunFields

\* A run is failed.
LEMMA RunFails ==
    ASSUME Shapes, NEW r \in Runs,
           MarkFailed(r)
    PROVE  RunMoved(r)
BY DEF Shapes, RunShapes, RunMoved, RunFields, MarkFailed

\* A worker that goes on and does not wait keeps the invariant.
LEMMA MovedKeeps ==
    ASSUME IInv, NEW w \in Workers, NEW pc, WorkerMoved(w, pc), pc # "wait", ~IsAt(w, "idle"),
           pc \in {"prune", "cancel", "step", "ask", "save"} => wk[w].tok # 0,
           RunMoved(wk[w].r)
    PROVE  IInv'
<1>1. Shapes'
  BY DEF WorkerMoved, RunMoved, Shapes
<1>2. TokensKept
  BY DEF WorkerMoved, RunMoved, TokensKept, IInv, Tokens
<1>3. WorkKept
  BY DEF WorkerMoved, WorkKept, IInv, Tokens, IsAt
<1>4. WaitsKept
  BY DEF WorkerMoved, RunMoved, WaitsKept, IInv, Tokens
<1> QED BY <1>1, <1>2, <1>3, <1>4, KeptHolds

\* The log is cut back to the checkpoint.
LEMMA PruneKeeps ==
    ASSUME IInv, NEW w \in Workers, Prune(w)
    PROVE  IInv'
<1>1. wk[w].pc = "prune" /\ wk[w].r \in Runs /\ wk[w].tok # 0 /\ ~IsAt(w, "idle")
  BY DEF Prune, IInv, Tokens, IsAt
<1>2. WorkerMoved(w, "step")
  BY MoveStep DEF Prune, IInv
<1>3. RunMoved(wk[w].r)
  BY <1>1, RunUnchanged DEF Prune, IInv
<1> QED BY <1>1, <1>2, <1>3, MovedKeeps

\* The text of a step.
LEMMA EmitKeeps ==
    ASSUME IInv, NEW w \in Workers, Emit(w)
    PROVE  IInv'
<1>1. wk[w].pc = "step" /\ wk[w].r \in Runs /\ wk[w].tok # 0 /\ ~IsAt(w, "idle")
  BY DEF Emit, IInv, Tokens, IsAt
<1>2. \E pc \in {"ask", "save", "ack"} : WorkerMoved(w, pc)
  <2>1. CASE Owns(w)
    <3> DEFINE next == IF wk[w].step + 1 \in Gated THEN "ask" ELSE "save"
               s == wk[w].step + 1
               c == Append(wk[w].content, s)
               a == Len(log[wk[w].r]) + 1
    <3>1. wk' = [wk EXCEPT ![w].pc = next, ![w].step = s, ![w].content = c, ![w].at = a]
      BY <2>1 DEF Emit, IInv, Shapes, WorkerShapes, WorkerFields
    <3>2. next \in {"ask", "save"}
      OBVIOUS
    <3> HIDE DEF next, s, c, a
    <3>3. WorkerMoved(w, next)
      BY <3>1, MoveText DEF IInv
    <3> QED BY <3>2, <3>3
  <2>2. CASE ~Owns(w)
    BY <2>2, MovePc DEF Emit, Goto, IInv
  <2> QED BY <2>1, <2>2
<1>3. RunMoved(wk[w].r)
  BY <1>1, RunUnchanged DEF Emit, IInv
<1> QED BY <1>1, <1>2, <1>3, MovedKeeps

\* The end of a wait for an approval.
LEMMA DecideKeeps ==
    ASSUME IInv, NEW w \in Workers, Decide(w)
    PROVE  IInv'
<1>1. wk[w].pc = "wait" /\ wk[w].r \in Runs /\ wk[w].tok # 0 /\ ~IsAt(w, "idle")
  BY DEF Decide, IInv, Tokens, IsAt
<1>2. WorkerMoved(w, "save")
  <2>1. PICK b : wk' = [wk EXCEPT ![w].pc = "save", ![w].stop = b]
    BY DEF Decide, IInv, Shapes, WorkerShapes, WorkerFields
  <2> QED BY <2>1, MoveStop DEF IInv
<1>3. RunMoved(wk[w].r)
  BY <1>1, RunUnchanged, RunResumes DEF Decide, IInv
<1> QED BY <1>1, <1>2, <1>3, MovedKeeps

\* A checkpoint.
LEMMA SaveKeeps ==
    ASSUME IInv, NEW w \in Workers, Save(w)
    PROVE  IInv'
<1>1. wk[w].pc = "save" /\ wk[w].r \in Runs /\ wk[w].tok # 0 /\ ~IsAt(w, "idle")
  BY DEF Save, IInv, Tokens, IsAt
<1>2. \E pc \in {"step", "ack"} : WorkerMoved(w, pc)
  BY MovePc DEF Save, Goto, IInv
<1>3. RunMoved(wk[w].r)
  BY <1>1, RunUnchanged, RunSaves DEF Save, IInv
<1> QED BY <1>1, <1>2, <1>3, MovedKeeps

\* A run is finalised.
LEMMA FinalizeKeeps ==
    ASSUME IInv, NEW w \in Workers, ~IsAt(w, "idle"), NEW status, status # "waiting", NEW content,
           Finalize(w, status, content)
    PROVE  IInv'
<1>1. wk[w].r \in Runs
  BY DEF IInv, Tokens
<1>2. WorkerMoved(w, "ack")
  BY MovePc DEF Finalize, Goto, IInv
<1>3. RunMoved(wk[w].r)
  BY <1>1, RunUnchanged, RunEnds DEF Finalize, IInv
<1> QED BY <1>1, <1>2, <1>3, MovedKeeps

\* The end of an answer, and of a run cancelled before it began.
LEMMA FinishKeeps ==
    ASSUME IInv, NEW w \in Workers, FinishAnswer(w) \/ FinishEmpty(w)
    PROVE  IInv'
<1>1. ~IsAt(w, "idle")
  BY DEF FinishAnswer, FinishEmpty, IsAt
<1>2. CASE FinishAnswer(w)
  <2>1. PICK status \in {"cancelled", "done"} : Finalize(w, status, wk[w].content)
    BY <1>2 DEF FinishAnswer
  <2> QED BY <2>1, <1>1, FinalizeKeeps
<1>3. CASE FinishEmpty(w)
  BY <1>1, <1>3, FinalizeKeeps DEF FinishEmpty
<1> QED BY <1>2, <1>3

\* A failed generation.
LEMMA GenerationErrorKeeps ==
    ASSUME IInv, NEW w \in Workers, GenerationError(w)
    PROVE  IInv'
<1>1. wk[w].r \in Runs /\ ~IsAt(w, "idle")
  BY DEF GenerationError, IInv, Tokens, IsAt
<1>2. \E pc \in {"fail", "nack"} : WorkerMoved(w, pc)
  <2>1. PICK final \in BOOLEAN :
          wk' = [wk EXCEPT ![w].pc = IF final THEN "fail" ELSE "nack", ![w].last = final]
    BY DEF GenerationError
  <2>2. PICK pc \in {"fail", "nack"} : wk' = [wk EXCEPT ![w].pc = pc, ![w].last = final]
    BY <2>1
  <2> QED BY <2>2, MoveLast DEF IInv
<1>3. RunMoved(wk[w].r)
  BY <1>1, RunUnchanged DEF GenerationError, IInv
<1> QED BY <1>1, <1>2, <1>3, MovedKeeps

\* A run is given up.
LEMMA GiveUpKeeps ==
    ASSUME IInv, NEW w \in Workers, GiveUp(w)
    PROVE  IInv'
<1>1. wk[w].r \in Runs /\ ~IsAt(w, "idle")
  BY DEF GiveUp, IInv, Tokens, IsAt
<1>2. \E pc \in {"mark", "nack"} : WorkerMoved(w, pc)
  BY MovePc DEF GiveUp, Goto, IInv
<1>3. RunMoved(wk[w].r)
  BY <1>1, RunUnchanged, RunFails DEF GiveUp, IInv
<1> QED BY <1>1, <1>2, <1>3, MovedKeeps

\* A heartbeat, which may stop a worker that waits, but changes neither its call nor its token.
LEMMA HeartbeatKeeps ==
    ASSUME IInv, NEW w \in Workers, Heartbeat(w)
    PROVE  IInv'
<1>1. wk[w].pc \in {"step", "ask", "wait", "save"} /\ wk[w].r \in Runs /\ wk[w].tok # 0
  BY DEF Heartbeat, IInv, Tokens, IsAt
<1>2. PICK b, c : wk' = [wk EXCEPT ![w].stop = b, ![w].beat = c]
  BY DEF Heartbeat, IInv, Shapes, WorkerShapes, WorkerFields
<1>3. WorkerMoved(w, wk[w].pc) /\ wk'[w].step = wk[w].step
  BY <1>2, ZenonT(40) DEF WorkerMoved, IInv, Shapes, WorkerShapes, WorkerFields
<1>4. RunMoved(wk[w].r)
  BY <1>1, RunUnchanged, RunBeats DEF Heartbeat, IInv
<1>5. Shapes'
  BY <1>3, <1>4 DEF WorkerMoved, RunMoved, Shapes
<1>6. TokensKept /\ WorkKept
  BY <1>1, <1>3, <1>4 DEF WorkerMoved, RunMoved, TokensKept, WorkKept, IInv, Tokens, IsAt
<1>7. WaitsKept
  BY <1>3, <1>4 DEF WorkerMoved, RunMoved, WaitsKept
<1> QED BY <1>5, <1>6, <1>7, KeptHolds

\* The sweeper fails an orphan.
LEMMA SweepFailsKeeps ==
    ASSUME IInv, SweepFails
    PROVE  IInv'
<1>1. wk' = wk /\ (run' = run \/ MarkFailed(sweep.r))
  BY DEF SweepFails
<1>2. RunShapes' /\ \A r \in Runs : RunMoved(r) \/ run'[r] = run[r]
  <2>1. CASE sweep.r \in Runs
    BY <1>1, <2>1, RunFails, RunUnchanged DEF RunMoved, IInv
  <2>2. CASE sweep.r \notin Runs
    <3>1. run' = run
      BY <1>1, <2>2 DEF MarkFailed, IInv, Shapes, RunShapes
    <3> QED BY <3>1 DEF IInv, Shapes, RunShapes
  <2> QED BY <2>1, <2>2
<1>3. Shapes' /\ TokensKept /\ WorkKept
  BY <1>1, <1>2 DEF IInv, Shapes, WorkerShapes, TokensKept, WorkKept, Tokens, IsAt, RunMoved
<1>4. WaitsKept
  BY <1>1, <1>2 DEF WaitsKept, RunMoved
<1> QED BY <1>3, <1>4, KeptHolds

\* A worker asks for an approval: the call recorded is its own, since nobody else has its token.
LEMMA AskKeeps ==
    ASSUME IInv, NEW w \in Workers, Ask(w)
    PROVE  IInv'
<1> DEFINE r == wk[w].r
<1>1. wk[w].pc = "ask" /\ r \in Runs /\ wk[w].tok # 0 /\ ~IsAt(w, "idle")
  BY DEF Ask, IInv, Tokens, IsAt
<1>2. CASE ~Owns(w)
  <2>1. WorkerMoved(w, "ack")
    BY <1>2, MovePc DEF Ask, Goto, IInv
  <2>2. RunMoved(r)
    BY <1>1, <1>2, RunUnchanged DEF Ask, IInv
  <2> QED BY <1>1, <2>1, <2>2, MovedKeeps
<1>3. CASE Owns(w)
  <2>1. WorkerMoved(w, "wait") /\ wk'[w].step = wk[w].step
    BY <1>3 DEF Ask, Goto, WorkerMoved, IInv, Shapes, WorkerShapes, WorkerFields
  <2>2. run' = [run EXCEPT ![r].pending = <<wk[w].tok, wk[w].step>>, ![r].status = "waiting"]
    BY <1>3 DEF Ask
  <2> DEFINE call == <<wk[w].tok, wk[w].step>>
  <2>3. /\ RunShapes' /\ \A q \in Runs \ {r} : run'[q] = run[q]
        /\ run'[r].fence = run[r].fence /\ run'[r].pending = call
    <3> HIDE DEF r, call
    <3> QED BY <1>1, <2>2 DEF IInv, Shapes, RunShapes, RunFields, call
  <2>4. Shapes'
    BY <2>1, <2>3 DEF WorkerMoved, Shapes
  <2>5. TokensKept /\ WorkKept
    BY <1>1, <2>1, <2>3 DEF WorkerMoved, TokensKept, WorkKept, IInv, Tokens, IsAt
  <2>6. Tokens' /\ OneOwner'
    BY <2>4, <2>5 DEF IInv, Tokens, OneOwner, TokensKept, WorkKept, IsAt
  <2>7. WaitAnswerable'
    <3> SUFFICES ASSUME NEW v \in Workers, wk'[v].pc = "wait", wk'[v].tok = run'[wk'[v].r].fence,
                        run'[wk'[v].r].status = "waiting"
                 PROVE  run'[wk'[v].r].pending = <<wk'[v].tok, wk'[v].step>>
      BY DEF WaitAnswerable, IsAt, Owns
    <3>1. CASE v = w
      BY <3>1, <2>1, <2>3 DEF WorkerMoved
    <3>2. CASE v # w
      <4>1. wk'[v] = wk[v] /\ wk[v].r \in Runs /\ wk[v].tok # 0
        BY <3>2, <2>1 DEF WorkerMoved, IInv, Tokens, IsAt
      <4>2. wk[v].r # r
        BY <1>1, <1>3, <3>2, <4>1, <2>3 DEF Owns, IInv, OneOwner
      <4> QED BY <4>1, <4>2, <2>3 DEF IInv, WaitAnswerable, IsAt, Owns
    <3> QED BY <3>1, <3>2
  <2> QED BY <2>4, <2>6, <2>7 DEF IInv
<1> QED BY <1>2, <1>3

\* A worker gets a token.
LEMMA MoveClaim ==
    ASSUME Shapes, NEW w \in Workers, NEW t \in Nat, NEW pc,
           wk' = [wk EXCEPT ![w].tok = t, ![w].pc = pc]
    PROVE  /\ WorkerShapes' /\ \A v \in Workers \ {w} : wk'[v] = wk[v]
           /\ wk'[w].pc = pc /\ wk'[w].r = wk[w].r /\ wk'[w].tok = t
BY DEF Shapes, WorkerShapes, WorkerFields

\* A run is claimed.
LEMMA RunClaimed ==
    ASSUME Shapes, NEW r \in Runs, NEW t \in Nat,
           run' = [run EXCEPT ![r].status = "running", ![r].lease = "live", ![r].fence = t]
    PROVE  /\ RunShapes' /\ \A q \in Runs \ {r} : run'[q] = run[q]
           /\ run'[r].fence = t /\ run'[r].status = "running"
BY DEF Shapes, RunShapes, RunFields

\* A claim: the token it takes is beyond every token given out before.
LEMMA ClaimKeeps ==
    ASSUME IInv, NEW w \in Workers, Claim(w)
    PROVE  IInv'
<1> DEFINE r == wk[w].r
<1>1. wk[w].pc = "claim" /\ r \in Runs /\ run[r].fence \in Nat
  BY DEF Claim, IInv, Tokens, IsAt, Shapes, RunShapes
<1>2. /\ WorkerShapes' /\ \A v \in Workers \ {w} : wk'[v] = wk[v]
      /\ wk'[w].pc \in {"cancel", "prune"} /\ wk'[w].r = r /\ wk'[w].tok = run[r].fence + 1
  <2>1. PICK pc \in {"cancel", "prune"} :
          wk' = [wk EXCEPT ![w].tok = run[r].fence + 1, ![w].pc = pc]
    BY DEF Claim
  <2>2. run[r].fence + 1 \in Nat
    BY <1>1
  <2> DEFINE t == run[r].fence + 1
  <2>3. wk' = [wk EXCEPT ![w].tok = t, ![w].pc = pc] /\ t \in Nat /\ Shapes
    BY <2>1, <2>2 DEF IInv
  <2> HIDE DEF t
  <2>4. /\ WorkerShapes' /\ \A v \in Workers \ {w} : wk'[v] = wk[v]
        /\ wk'[w].pc = pc /\ wk'[w].r = wk[w].r /\ wk'[w].tok = t
    BY <2>3, MoveClaim
  <2> QED BY <2>4 DEF t
<1>3. run' = [run EXCEPT ![r].status = "running", ![r].lease = "live", ![r].fence = run[r].fence + 1]
  BY <1>1 DEF Claim, IInv, Shapes, RunShapes, RunFields
<1>4. /\ RunShapes' /\ \A q \in Runs \ {r} : run'[q] = run[q]
      /\ run'[r].fence = run[r].fence + 1 /\ run'[r].status = "running"
  <2> DEFINE t == run[r].fence + 1
  <2>1. /\ run' = [run EXCEPT ![r].status = "running", ![r].lease = "live", ![r].fence = t]
        /\ t \in Nat /\ r \in Runs /\ Shapes
    BY <1>1, <1>3 DEF IInv
  <2> HIDE DEF t, r
  <2>2. /\ RunShapes' /\ \A q \in Runs \ {r} : run'[q] = run[q]
        /\ run'[r].fence = t /\ run'[r].status = "running"
    BY <2>1, RunClaimed
  <2> QED BY <2>2 DEF t
<1>5. Shapes'
  BY <1>2, <1>4 DEF Shapes
<1> HIDE DEF r
<1>6. Tokens'
  <2> SUFFICES ASSUME NEW v \in Workers
               PROVE  /\ wk'[v].tok # 0 => wk'[v].r \in Runs /\ wk'[v].tok <= run'[wk'[v].r].fence
                      /\ wk'[v].pc # "idle" => wk'[v].r \in Runs
                      /\ wk'[v].pc \in {"prune", "cancel", "step", "ask", "wait", "save"} => wk'[v].tok # 0
    BY DEF Tokens, IsAt
  <2>1. CASE v = w
    BY <2>1, <1>1, <1>2, <1>4
  <2>2. CASE v # w
    <3>1. wk'[v] = wk[v] /\ wk[v].tok \in Nat
      BY <2>2, <1>2 DEF IInv, Shapes, WorkerShapes
    <3>2. wk[v].tok # 0 => wk[v].r \in Runs /\ wk[v].tok <= run'[wk[v].r].fence
      <4>1. wk[v].tok # 0 => wk[v].r \in Runs /\ wk[v].tok <= run[wk[v].r].fence
        BY DEF IInv, Tokens
      <4>2. CASE wk[v].r = r
        BY <3>1, <4>1, <4>2, <1>1, <1>4
      <4>3. CASE wk[v].r # r
        BY <4>1, <4>3, <1>4
      <4> QED BY <4>2, <4>3
    <3> QED BY <3>1, <3>2 DEF IInv, Tokens, IsAt
  <2> QED BY <2>1, <2>2
<1>7. OneOwner'
  <2> SUFFICES ASSUME NEW u \in Workers, NEW v \in Workers, u # v, wk'[u].tok # 0, wk'[v].tok # 0,
                      wk'[u].r = wk'[v].r, wk'[u].tok = wk'[v].tok
               PROVE  FALSE
    BY DEF OneOwner
  <2>1. \A x \in Workers \ {w} : wk'[x].tok # 0 /\ wk'[x].r = r => wk'[x].tok < run[r].fence + 1
    BY <1>1, <1>2 DEF IInv, Tokens, Shapes, WorkerShapes
  <2>2. CASE u = w \/ v = w
    BY <2>1, <2>2, <1>1, <1>2
  <2>3. CASE u # w /\ v # w
    BY <2>3, <1>2 DEF IInv, OneOwner
  <2> QED BY <2>2, <2>3
<1>8. WaitAnswerable'
  <2> SUFFICES ASSUME NEW v \in Workers, wk'[v].pc = "wait", wk'[v].tok = run'[wk'[v].r].fence,
                      run'[wk'[v].r].status = "waiting"
               PROVE  run'[wk'[v].r].pending = <<wk'[v].tok, wk'[v].step>>
    BY DEF WaitAnswerable, IsAt, Owns
  <2>1. v # w /\ wk'[v] = wk[v] /\ wk[v].r \in Runs
    BY <1>2 DEF IInv, Tokens, IsAt
  <2>2. run'[wk[v].r] = run[wk[v].r]
    BY <2>1, <1>4
  <2> QED BY <2>1, <2>2 DEF IInv, WaitAnswerable, IsAt, Owns
<1> QED BY <1>5, <1>6, <1>7, <1>8 DEF IInv

-----------------------------------------------------------------------------
\* Every step keeps the invariant.
LEMMA NextKeeps ==
    ASSUME IInv, [Next]_vars
    PROVE  IInv'
<1>1. CASE UNCHANGED vars
  BY <1>1 DEF vars, IInv, Shapes, WorkerShapes, RunShapes, Tokens, OneOwner, WaitAnswerable, IsAt, Owns
<1>2. ASSUME NEW r \in Runs,
             Post(r) \/ RequestCancel(r) \/ LeaseLapses(r) \/ JobReappears(r) \/ Sweep(r) \/ Requeue(r)
      PROVE  IInv'
  BY <1>2, PostKeeps, RequestCancelKeeps, LeaseLapsesKeeps, JobReappearsKeeps, SweepKeeps, RequeueKeeps
<1>3. ASSUME NEW w \in Workers, NEW r \in Runs, TakeJob(w, r)
      PROVE  IInv'
  BY <1>3, TakeJobKeeps
<1>4. ASSUME NEW w \in Workers, WorkerStep(w)
      PROVE  IInv'
  BY <1>4, TakeTurnKeeps, WaitTurnKeeps, ClaimKeeps, ClaimNothingKeeps, PruneKeeps, EmitKeeps,
     AskKeeps, DecideKeeps, SaveKeeps, FinishKeeps, AckKeeps, GiveUpKeeps, NackKeeps DEF WorkerStep
<1>5. ASSUME NEW w \in Workers, GenerationError(w) \/ Heartbeat(w) \/ Crash(w)
      PROVE  IInv'
  BY <1>5, GenerationErrorKeeps, HeartbeatKeeps, CrashKeeps
<1> QED BY <1>1, <1>2, <1>3, <1>4, <1>5, SweepFailsKeeps DEF Next

(* Two workers never hold the token of a run, however many workers there are *)
(* and however often leases lapse, jobs come back and workers crash          *)
(* (durable::claim).                                                         *)
THEOREM TokenHasOneOwner == Spec => []OneOwner
<1>1. IInv => OneOwner
  BY DEF IInv
<1> QED BY <1>1, InitHolds, NextKeeps, PTL DEF Spec

(* A worker that waits for an approval under its token finds its own call    *)
(* recorded in the run, whatever workers it took over from and the sweeper   *)
(* still do (set_pending_approval, clear_pending_approval, force_fail_run).  *)
THEOREM WaitsCanBeAnswered == Spec => []WaitAnswerable
<1>1. IInv => WaitAnswerable
  BY DEF IInv
<1> QED BY <1>1, InitHolds, NextKeeps, PTL DEF Spec

-----------------------------------------------------------------------------
(* The text of an answer *)

\* The texts among events are those of the first k steps, each once and in order.
Exact(events, k) ==
    /\ \A i \in 1..Len(events) : events[i] <= k
    /\ \A n \in 1..k : \E i \in 1..Len(events) : events[i] = n
    /\ \A i, j \in 1..Len(events) : i < j /\ events[i] > 0 /\ events[j] > 0 => events[i] < events[j]

\* A worker that has part of an answer, or is about to.
Making(w) == wk[w].pc \in {"step", "ask", "wait", "save"}
Busy(w) == Making(w) \/ wk[w].pc \in {"prune", "cancel"}

Upto(k) == [i \in 1..k |-> i]

LogShapes ==
    /\ log \in [Runs -> Seq(Int)] /\ DOMAIN msg = Runs /\ clean \subseteq Runs
    /\ \A r \in Runs : /\ run[r].ckpt \in [at : Nat, step : 0..Steps]
                       /\ run[r].ckpt.at <= Len(log[r])
                       /\ r \notin Autonomous => run[r].ckpt = NoCheckpoint

\* In a clean run the log, and what it has up to the checkpoint, are exact.
LogsExact ==
    \A r \in clean :
        /\ \E k \in 0..Steps : Exact(log[r], k)
        /\ Exact(SubSeq(log[r], 1, run[r].ckpt.at), run[r].ckpt.step)

\* The owner has the text of its steps, and so has the log of a clean run.
OwnersExact ==
    \A w \in Workers :
        Making(w) /\ Owns(w) =>
            /\ wk[w].step \in 0..Steps /\ wk[w].at \in Nat /\ wk[w].at <= Len(log[wk[w].r])
            /\ wk[w].r \in clean \/ wk[w].r \notin Autonomous => wk[w].content = Upto(wk[w].step)
            /\ wk[w].r \in clean =>
                  /\ Exact(log[wk[w].r], wk[w].step)
                  /\ Exact(SubSeq(log[wk[w].r], 1, wk[w].at), wk[w].step)

\* Who has ended a run has nothing more to write.
DoneLeft ==
    \A w \in Workers : Busy(w) /\ Owns(w) => run[wk[w].r].status # "done"

AnswerInv == LogShapes /\ LogsExact /\ OwnersExact /\ DoneLeft /\ ContentSound

LEMMA ExactEmpty == Exact(<<>>, 0)
BY DEF Exact

\* The entries of a log that has one more.
LEMMA Appended ==
    ASSUME NEW s \in Seq(Int), NEW e \in Int
    PROVE  /\ Append(s, e) \in Seq(Int) /\ Len(s) \in Nat /\ Len(Append(s, e)) = Len(s) + 1
           /\ Append(s, e)[Len(s) + 1] = e
           /\ \A i \in 1..Len(s) : Append(s, e)[i] = s[i] /\ s[i] \in Int
OBVIOUS

\* The event that ends an answer is no text.
LEMMA ExactEnd ==
    ASSUME NEW s \in Seq(Int), NEW k \in Nat, Exact(s, k), NEW e \in Int, e <= 0
    PROVE  Append(s, e) \in Seq(Int) /\ Exact(Append(s, e), k)
<1> DEFINE t == Append(s, e)
<1>1. /\ t \in Seq(Int) /\ Len(s) \in Nat /\ Len(t) = Len(s) + 1 /\ t[Len(s) + 1] = e
      /\ \A i \in 1..Len(s) : t[i] = s[i] /\ s[i] \in Int
  BY Appended
<1> HIDE DEF t
<1>2. \A i \in 1..Len(t) : i \in 1..Len(s) \/ i = Len(s) + 1
  BY <1>1
<1>3. \A i \in 1..Len(t) : t[i] <= k
  <2> SUFFICES ASSUME NEW i \in 1..Len(t) PROVE t[i] <= k
    OBVIOUS
  <2>1. CASE i = Len(s) + 1
    BY <1>1, <2>1
  <2>2. CASE i \in 1..Len(s)
    <3>1. s[i] <= k /\ s[i] \in Int /\ t[i] = s[i]
      BY <1>1, <2>2 DEF Exact
    <3> QED BY <3>1
  <2> QED BY <1>2, <2>1, <2>2
<1>4. \A n \in 1..k : \E i \in 1..Len(t) : t[i] = n
  <2> SUFFICES ASSUME NEW n \in 1..k PROVE \E i \in 1..Len(t) : t[i] = n
    OBVIOUS
  <2>1. PICK i \in 1..Len(s) : s[i] = n
    BY DEF Exact
  <2>2. i \in 1..Len(t)
    BY <1>1
  <2> QED BY <1>1, <2>1, <2>2
<1>5. \A i, j \in 1..Len(t) : i < j /\ t[i] > 0 /\ t[j] > 0 => t[i] < t[j]
  <2> SUFFICES ASSUME NEW i \in 1..Len(t), NEW j \in 1..Len(t), i < j, t[i] > 0, t[j] > 0 PROVE t[i] < t[j]
    OBVIOUS
  <2>1. i # Len(s) + 1 /\ j # Len(s) + 1
    BY <1>1
  <2>2. i \in 1..Len(s) /\ j \in 1..Len(s)
    BY <1>2, <2>1
  <2>3. t[i] = s[i] /\ t[j] = s[j]
    BY <1>1, <2>2
  <2> QED BY <2>2, <2>3 DEF Exact
<1>6. Exact(t, k)
  BY <1>3, <1>4, <1>5 DEF Exact
<1> QED BY <1>1, <1>6 DEF t

\* Nor does the text of the next step disturb those before it.
LEMMA ExactNext ==
    ASSUME NEW s \in Seq(Int), NEW k \in Nat, Exact(s, k)
    PROVE  Append(s, k + 1) \in Seq(Int) /\ Exact(Append(s, k + 1), k + 1)
<1> DEFINE e == k + 1
           t == Append(s, e)
<1>1. /\ t \in Seq(Int) /\ Len(s) \in Nat /\ Len(t) = Len(s) + 1 /\ t[Len(s) + 1] = e
      /\ \A i \in 1..Len(s) : t[i] = s[i] /\ s[i] \in Int
  <2>1. e \in Int
    OBVIOUS
  <2> HIDE DEF e
  <2> QED BY <2>1, Appended
<1> HIDE DEF t
<1>2. \A i \in 1..Len(t) : i \in 1..Len(s) \/ i = Len(s) + 1
  BY <1>1
<1>3. \A i \in 1..Len(t) : t[i] <= k + 1
  <2> SUFFICES ASSUME NEW i \in 1..Len(t) PROVE t[i] <= k + 1
    OBVIOUS
  <2>1. CASE i = Len(s) + 1
    BY <1>1, <2>1
  <2>2. CASE i \in 1..Len(s)
    <3>1. s[i] <= k /\ s[i] \in Int /\ t[i] = s[i]
      BY <1>1, <2>2 DEF Exact
    <3> QED BY <3>1
  <2> QED BY <1>2, <2>1, <2>2
<1>4. \A n \in 1..(k + 1) : \E i \in 1..Len(t) : t[i] = n
  <2> SUFFICES ASSUME NEW n \in 1..(k + 1) PROVE \E i \in 1..Len(t) : t[i] = n
    OBVIOUS
  <2>1. CASE n = k + 1
    <3>1. Len(s) + 1 \in 1..Len(t)
      BY <1>1
    <3> QED BY <1>1, <2>1, <3>1
  <2>2. CASE n \in 1..k
    <3>1. PICK i \in 1..Len(s) : s[i] = n
      BY <2>2 DEF Exact
    <3>2. i \in 1..Len(t)
      BY <1>1
    <3> QED BY <1>1, <3>1, <3>2
  <2> QED BY <2>1, <2>2
<1>5. \A i, j \in 1..Len(t) : i < j /\ t[i] > 0 /\ t[j] > 0 => t[i] < t[j]
  <2> SUFFICES ASSUME NEW i \in 1..Len(t), NEW j \in 1..Len(t), i < j, t[i] > 0, t[j] > 0 PROVE t[i] < t[j]
    OBVIOUS
  <2>1. i \in 1..Len(s)
    BY <1>1
  <2>2. t[i] = s[i] /\ s[i] <= k /\ s[i] \in Int
    BY <1>1, <2>1 DEF Exact
  <2>3. CASE j = Len(s) + 1
    BY <1>1, <2>2, <2>3
  <2>4. CASE j \in 1..Len(s)
    <3>1. t[j] = s[j]
      BY <1>1, <2>4
    <3> QED BY <2>1, <2>2, <2>4, <3>1 DEF Exact
  <2> QED BY <1>2, <2>3, <2>4
<1>6. Exact(t, k + 1)
  BY <1>3, <1>4, <1>5 DEF Exact
<1> QED BY <1>1, <1>6 DEF t

\* What comes later does not change what the log has up to a checkpoint.
LEMMA PrefixKept ==
    ASSUME NEW s \in Seq(Int), NEW a \in Nat, a <= Len(s), NEW e \in Int
    PROVE  /\ SubSeq(s, 1, a) \in Seq(Int) /\ Len(SubSeq(s, 1, a)) = a
           /\ SubSeq(Append(s, e), 1, a) = SubSeq(s, 1, a)
           /\ SubSeq(SubSeq(s, 1, a), 1, a) = SubSeq(s, 1, a)
           /\ SubSeq(s, 1, Len(s)) = s /\ SubSeq(s, 1, 0) = <<>>
OBVIOUS

\* How many texts there are up to that of step n.
LEMMA TextsCounted ==
    ASSUME NEW s \in Seq(Int), NEW k \in Nat, Exact(s, k), NEW n \in 0..k
    PROVE  Cardinality({i \in DOMAIN s : s[i] > 0 /\ s[i] <= n}) = n
<1> DEFINE T == {i \in DOMAIN s : s[i] > 0 /\ s[i] <= n}
           f == [m \in 1..n |-> CHOOSE i \in 1..Len(s) : s[i] = m]
<1>1. DOMAIN s = 1..Len(s) /\ Len(s) \in Nat /\ \A i \in 1..Len(s) : s[i] \in Int
  OBVIOUS
<1>2. \A m \in 1..n : \E i \in 1..Len(s) : s[i] = m
  BY DEF Exact
<1>3. \A m \in 1..n : f[m] \in 1..Len(s) /\ s[f[m]] = m
  BY <1>2
<1> HIDE DEF f
<1>4. \A i \in T : i \in 1..Len(s) /\ s[i] \in 1..n
  BY <1>1
<1>5. \A m \in 1..n : f[m] \in T
  BY <1>1, <1>3
<1>6. \A i, j \in 1..Len(s) : s[i] > 0 /\ s[i] = s[j] => i = j
  <2> SUFFICES ASSUME NEW i \in 1..Len(s), NEW j \in 1..Len(s), s[i] > 0, s[i] = s[j], i # j PROVE FALSE
    OBVIOUS
  <2>1. s[i] \in Int /\ ~(s[i] < s[j])  /\ ~(s[j] < s[i])
    BY <1>1
  <2>2. i < j \/ j < i
    OBVIOUS
  <2> QED BY <2>1, <2>2 DEF Exact
<1> HIDE DEF T
<1>7. \A i \in T : f[s[i]] = i
  <2> SUFFICES ASSUME NEW i \in T PROVE f[s[i]] = i
    OBVIOUS
  <2>1. i \in 1..Len(s) /\ s[i] \in 1..n
    BY <1>4
  <2>2. f[s[i]] \in 1..Len(s) /\ s[f[s[i]]] = s[i]
    BY <1>3, <2>1
  <2>3. s[i] > 0
    BY <2>1
  <2> QED BY <1>6, <2>1, <2>2, <2>3
<1>8. f \in [1..n -> T]
  BY <1>5 DEF f
<1>9. \A p, q \in 1..n : f[p] = f[q] => p = q
  BY <1>3
<1>10. \A i \in T : \E m \in 1..n : f[m] = i
  BY <1>4, <1>7
<1>11. f \in Bijection(1..n, T)
  BY <1>8, <1>9, <1>10 DEF Bijection, Injection, Surjection, IsInjective
<1>12. ExistsBijection(1..n, T)
  BY <1>11 DEF ExistsBijection
<1>13. IsFiniteSet(1..n) /\ Cardinality(1..n) = n
  BY FS_Interval
<1>14. Cardinality(T) = n
  BY <1>12, <1>13, FS_Bijection
<1> QED BY <1>14 DEF T

\* The text of an exact log.
LEMMA ExactText ==
    ASSUME NEW s \in Seq(Int), NEW k \in Nat, Exact(s, k)
    PROVE  Text(s) = Upto(k)
<1> DEFINE texts == {i \in DOMAIN s : s[i] > 0}
           upTo(i) == Cardinality({j \in texts : j <= i})
<1>1. DOMAIN s = 1..Len(s) /\ Len(s) \in Nat /\ \A i \in 1..Len(s) : s[i] \in Int
  OBVIOUS
<1>2. \A i \in texts : i \in 1..Len(s) /\ s[i] \in 1..k
  BY <1>1 DEF Exact
<1>3. Cardinality(texts) = k
  <2>1. texts = {i \in DOMAIN s : s[i] > 0 /\ s[i] <= k}
    BY <1>1 DEF Exact
  <2>2. k \in 0..k
    OBVIOUS
  <2>3. Cardinality({i \in DOMAIN s : s[i] > 0 /\ s[i] <= k}) = k
    BY <2>2, TextsCounted
  <2> QED BY <2>1, <2>3
<1>4. ASSUME NEW i \in texts
      PROVE  upTo(i) = s[i]
  <2>1. s[i] \in 0..k /\ i \in 1..Len(s) /\ s[i] > 0
    BY <1>2
  <2>2. Cardinality({j \in DOMAIN s : s[j] > 0 /\ s[j] <= s[i]}) = s[i]
    BY <2>1, TextsCounted
  <2>3. ASSUME NEW j \in 1..Len(s), s[j] > 0
        PROVE  j <= i <=> s[j] <= s[i]
    <3>1. s[i] \in Int /\ s[j] \in Int
      BY <1>1, <2>1
    <3>2. i < j => s[i] < s[j]
      BY <2>1, <2>3 DEF Exact
    <3>3. j < i => s[j] < s[i]
      BY <2>1, <2>3 DEF Exact
    <3> QED BY <2>1, <3>1, <3>2, <3>3
  <2>4. {j \in texts : j <= i} = {j \in DOMAIN s : s[j] > 0 /\ s[j] <= s[i]}
    BY <1>1, <2>3
  <2> QED BY <2>2, <2>4
<1>5. ASSUME NEW m \in 1..k
      PROVE  s[CHOOSE i \in texts : upTo(i) = m] = m
  <2>1. PICK i \in 1..Len(s) : s[i] = m
    BY DEF Exact
  <2>2. i \in texts
    BY <1>1, <2>1
  <2>3. upTo(i) = m
    BY <1>4, <2>1, <2>2
  <2> HIDE DEF texts, upTo
  <2> DEFINE c == CHOOSE j \in texts : upTo(j) = m
  <2>4. c \in texts /\ upTo(c) = m
    BY <2>2, <2>3
  <2>5. s[c] = m
    BY <1>4, <2>4
  <2> QED BY <2>5
<1>6. Text(s) = [m \in 1..Cardinality(texts) |-> s[CHOOSE i \in texts : upTo(i) = m]]
  BY DEF Text
<1> HIDE DEF texts, upTo
<1> QED BY <1>3, <1>5, <1>6 DEF Upto

-----------------------------------------------------------------------------
(* What keeps answers exact *)

LEMMA BusyAtRun ==
    ASSUME IInv, NEW w \in Workers, Busy(w)
    PROVE  wk[w].r \in Runs
BY DEF IInv, Tokens, IsAt, Busy, Making

\* At most an event that ends an answer is appended.
EventsKept ==
    /\ clean' = clean /\ log' \in [Runs -> Seq(Int)]
    /\ \A r \in Runs : log'[r] = log[r] \/ \E e \in Int : e <= 0 /\ log'[r] = Append(log[r], e)

\* A checkpoint stays or is dropped.
CheckpointsKept == \A r \in Runs : run'[r].ckpt = run[r].ckpt \/ run'[r].ckpt = NoCheckpoint

\* Who has part of an answer under the token of a run had it before.
OwnersKept ==
    \A w \in Workers :
        (Making(w) /\ Owns(w))' =>
            /\ Making(w) /\ Owns(w) /\ wk'[w].r = wk[w].r
            /\ wk'[w].step = wk[w].step /\ wk'[w].at = wk[w].at /\ wk'[w].content = wk[w].content

\* A run that is done was done before, with the same answer.
AnswersKept ==
    \A r \in Runs : run'[r].status = "done" =>
        run[r].status = "done" /\ msg'[r] = msg[r] /\ log'[r] = log[r]

\* An exact log stays exact.
LEMMA EventsExact ==
    ASSUME LogShapes, EventsKept, NEW r \in Runs, NEW k \in Nat, NEW a \in Nat
    PROVE  /\ Exact(log[r], k) => Exact(log'[r], k)
           /\ a <= Len(log[r]) => a <= Len(log'[r]) /\ SubSeq(log'[r], 1, a) = SubSeq(log[r], 1, a)
<1> DEFINE s == log[r]
           t == log'[r]
<1>1. s \in Seq(Int) /\ (t = s \/ \E e \in Int : e <= 0 /\ t = Append(s, e))
  BY DEF LogShapes, EventsKept
<1> SUFFICES (Exact(s, k) => Exact(t, k)) /\ (a <= Len(s) => a <= Len(t) /\ SubSeq(t, 1, a) = SubSeq(s, 1, a))
  OBVIOUS
<1> HIDE DEF s, t
<1>2. CASE t = s
  BY <1>2
<1>3. ASSUME NEW e \in Int, e <= 0, t = Append(s, e)
      PROVE  (Exact(s, k) => Exact(t, k)) /\ (a <= Len(s) => a <= Len(t) /\ SubSeq(t, 1, a) = SubSeq(s, 1, a))
  <2>1. Exact(s, k) => Exact(t, k)
    BY <1>1, <1>3, ExactEnd
  <2>2. Len(s) \in Nat /\ Len(t) = Len(s) + 1
    BY <1>1, <1>3, Appended
  <2>3. a <= Len(s) => SubSeq(t, 1, a) = SubSeq(s, 1, a)
    BY <1>1, <1>3, PrefixKept
  <2> QED BY <2>1, <2>2, <2>3
<1> QED BY <1>1, <1>2, <1>3

\* Nothing before a missing checkpoint.
LEMMA NothingBefore ==
    ASSUME NEW s \in Seq(Int), NEW c, c = NoCheckpoint
    PROVE  c.at = 0 /\ c.step = 0 /\ c.at <= Len(s) /\ Exact(SubSeq(s, 1, c.at), c.step)
<1>1. c.at = 0 /\ c.step = 0 /\ Len(s) \in Nat /\ SubSeq(s, 1, 0) = <<>>
  BY DEF NoCheckpoint
<1>2. Exact(SubSeq(s, 1, 0), 0)
  BY <1>1, ExactEmpty
<1> QED BY <1>1, <1>2

\* A step that keeps events, checkpoints and owners keeps logs and owners exact.
LEMMA ExactKept ==
    ASSUME IInv, Shapes', LogShapes, LogsExact, OwnersExact,
           EventsKept, CheckpointsKept, OwnersKept, DOMAIN msg' = Runs
    PROVE  LogShapes' /\ LogsExact' /\ OwnersExact'
<1>0. Steps \in Nat
  BY GenerationAssumption
<1>1. LogShapes'
  <2>1. NoCheckpoint \in [at : Nat, step : 0..Steps]
    BY <1>0 DEF NoCheckpoint
  <2>2. ASSUME NEW r \in Runs
        PROVE  /\ run'[r].ckpt \in [at : Nat, step : 0..Steps] /\ run'[r].ckpt.at <= Len(log'[r])
               /\ r \notin Autonomous => run'[r].ckpt = NoCheckpoint
    <3> DEFINE c == run[r].ckpt
               d == run'[r].ckpt
    <3>1. /\ c \in [at : Nat, step : 0..Steps] /\ c.at \in Nat /\ c.at <= Len(log[r])
          /\ r \notin Autonomous => c = NoCheckpoint
      BY DEF LogShapes
    <3>2. (d = c \/ d = NoCheckpoint) /\ log'[r] \in Seq(Int) /\ 0 \in Nat
      BY DEF CheckpointsKept, EventsKept
    <3> HIDE DEF c, d
    <3>3. d.at <= Len(log'[r])
      BY <3>1, <3>2, EventsExact, NothingBefore
    <3>4. d \in [at : Nat, step : 0..Steps] /\ (r \notin Autonomous => d = NoCheckpoint)
      BY <2>1, <3>1, <3>2
    <3> QED BY <3>3, <3>4 DEF d
  <2> QED BY <2>2 DEF LogShapes, EventsKept
<1>2. LogsExact'
  <2> SUFFICES ASSUME NEW r \in clean
               PROVE  /\ \E k \in 0..Steps : Exact(log'[r], k)
                      /\ Exact(SubSeq(log'[r], 1, run'[r].ckpt.at), run'[r].ckpt.step)
    BY DEF LogsExact, EventsKept
  <2>1. r \in Runs
    BY DEF LogShapes
  <2>2. PICK k \in 0..Steps : Exact(log[r], k)
    BY DEF LogsExact
  <2>3. k \in Nat /\ 0 \in Nat
    BY <1>0, <2>2
  <2>4. Exact(log'[r], k)
    BY <2>1, <2>2, <2>3, EventsExact
  <2> DEFINE c == run[r].ckpt
             d == run'[r].ckpt
  <2>5. c.at \in Nat /\ c.at <= Len(log[r]) /\ Exact(SubSeq(log[r], 1, c.at), c.step)
    BY <2>1 DEF LogShapes, LogsExact
  <2>6. d = c \/ d = NoCheckpoint
    BY <2>1 DEF CheckpointsKept
  <2>7. log'[r] \in Seq(Int)
    BY <2>1 DEF EventsKept
  <2>8. d.at <= Len(log'[r]) /\ Exact(SubSeq(log'[r], 1, d.at), d.step)
    <3> HIDE DEF c, d
    <3>1. CASE d = c
      <4>1. c.at <= Len(log'[r]) /\ SubSeq(log'[r], 1, c.at) = SubSeq(log[r], 1, c.at)
        BY <2>1, <2>3, <2>5, EventsExact
      <4> QED BY <2>5, <3>1, <4>1
    <3>2. CASE d = NoCheckpoint
      BY <2>7, <3>2, NothingBefore
    <3> QED BY <2>6, <3>1, <3>2
  <2> QED BY <2>4, <2>8
<1>3. OwnersExact'
  <2> SUFFICES ASSUME NEW w \in Workers, (Making(w) /\ Owns(w))'
               PROVE  (/\ wk[w].step \in 0..Steps /\ wk[w].at \in Nat /\ wk[w].at <= Len(log[wk[w].r])
                       /\ wk[w].r \in clean \/ wk[w].r \notin Autonomous => wk[w].content = Upto(wk[w].step)
                       /\ wk[w].r \in clean =>
                             /\ Exact(log[wk[w].r], wk[w].step)
                             /\ Exact(SubSeq(log[wk[w].r], 1, wk[w].at), wk[w].step))'
    BY DEF OwnersExact
  <2>1. /\ Making(w) /\ Owns(w) /\ wk'[w].r = wk[w].r
        /\ wk'[w].step = wk[w].step /\ wk'[w].at = wk[w].at /\ wk'[w].content = wk[w].content
    BY DEF OwnersKept
  <2>2. /\ wk[w].step \in 0..Steps /\ wk[w].at \in Nat /\ wk[w].at <= Len(log[wk[w].r])
        /\ wk[w].r \in clean \/ wk[w].r \notin Autonomous => wk[w].content = Upto(wk[w].step)
        /\ wk[w].r \in clean =>
              /\ Exact(log[wk[w].r], wk[w].step)
              /\ Exact(SubSeq(log[wk[w].r], 1, wk[w].at), wk[w].step)
    BY <2>1 DEF OwnersExact
  <2>3. wk'[w].content = Upto(wk'[w].step) <=> wk[w].content = Upto(wk[w].step)
    BY <2>1
  <2>6. wk[w].at <= Len(log'[wk[w].r])
    <3>1. wk[w].r \in Runs /\ 0 \in Nat
      BY <2>1, BusyAtRun DEF Busy
    <3> QED BY <2>2, <3>1, EventsExact
  <2>4. ASSUME wk[w].r \in clean
        PROVE  /\ Exact(log'[wk[w].r], wk[w].step)
               /\ Exact(SubSeq(log'[wk[w].r], 1, wk[w].at), wk[w].step)
    <3>1. wk[w].r \in Runs /\ wk[w].step \in Nat
      BY <1>0, <2>2, <2>4 DEF LogShapes
    <3> DEFINE r == wk[w].r
               k == wk[w].step
               a == wk[w].at
    <3>2. r \in Runs /\ k \in Nat /\ a \in Nat /\ Exact(log[r], k) /\ a <= Len(log[r]) /\ Exact(SubSeq(log[r], 1, a), k)
      BY <2>2, <2>4, <3>1
    <3> HIDE DEF r, k, a
    <3>3. Exact(log'[r], k) /\ a <= Len(log'[r]) /\ SubSeq(log'[r], 1, a) = SubSeq(log[r], 1, a)
      BY <3>2, EventsExact
    <3>4. Exact(log'[r], k) /\ a <= Len(log'[r]) /\ Exact(SubSeq(log'[r], 1, a), k)
      BY <3>2, <3>3
    <3> QED BY <3>4 DEF r, k, a
  <2>5. clean' = clean
    BY DEF EventsKept
  <2> QED BY <2>1, <2>2, <2>3, <2>4, <2>5, <2>6
<1> QED BY <1>1, <1>2, <1>3

\* A step that, besides, ends no run by an answer.
LEMMA AnswerKept ==
    ASSUME IInv, Shapes', AnswerInv, EventsKept, CheckpointsKept, OwnersKept, AnswersKept,
           DOMAIN msg' = Runs, DoneLeft'
    PROVE  AnswerInv'
<1>1. LogShapes' /\ LogsExact' /\ OwnersExact'
  BY ExactKept DEF AnswerInv
<1>2. ContentSound'
  <2> SUFFICES ASSUME NEW r \in Runs, run'[r].status = "done"
               PROVE  /\ (r \in clean' \/ r \notin Autonomous) => msg'[r] = Answer
                      /\ r \in clean' => Text(log'[r]) = Answer
    BY DEF ContentSound, Answer
  <2>1. run[r].status = "done" /\ msg'[r] = msg[r] /\ log'[r] = log[r] /\ clean' = clean
    BY DEF AnswersKept, EventsKept
  <2>2. /\ (r \in clean \/ r \notin Autonomous) => msg[r] = Answer
        /\ r \in clean => Text(log[r]) = Answer
    BY <2>1 DEF AnswerInv, ContentSound
  <2>3. Text(log'[r]) = Text(log[r])
    BY <2>1
  <2> QED BY <2>1, <2>2, <2>3
<1> QED BY <1>1, <1>2 DEF AnswerInv

\* Most steps write no text, save no checkpoint and finish no answer.
QuietRuns ==
    \A r \in Runs :
        /\ run'[r].ckpt = run[r].ckpt /\ run'[r].fence = run[r].fence
        /\ run'[r].status = "done" => run[r].status = "done"

QuietWork ==
    \A w \in Workers :
        /\ Busy(w)' => Busy(w) /\ wk'[w].r = wk[w].r /\ wk'[w].tok = wk[w].tok
        /\ Making(w)' => /\ Making(w) /\ wk'[w].step = wk[w].step /\ wk'[w].at = wk[w].at
                         /\ wk'[w].content = wk[w].content

\* The log of a run that is not done may get the event of its failure.
QuietLog ==
    /\ clean' = clean /\ msg' = msg
    /\ log' = log \/ \E r \in Runs : run[r].status # "done" /\ run' = run /\ AppendError(r)

LEMMA QuietKept ==
    ASSUME IInv, Shapes', AnswerInv, QuietRuns, QuietWork, QuietLog
    PROVE  AnswerInv'
<1>1. /\ log' \in [Runs -> Seq(Int)]
      /\ \A r \in Runs : /\ log'[r] = log[r] \/ log'[r] = Append(log[r], -1)
                         /\ run'[r].status = "done" => log'[r] = log[r]
  <2>1. CASE log' = log
    BY <2>1 DEF AnswerInv, LogShapes
  <2>2. ASSUME NEW q \in Runs, run[q].status # "done", run' = run, AppendError(q)
        PROVE  <1>1
    <3>1. log' = [log EXCEPT ![q] = Append(@, -1)]
      BY <2>2 DEF AppendError, EndEvent
    <3>2. log \in [Runs -> Seq(Int)] /\ Append(log[q], -1) \in Seq(Int)
      BY DEF AnswerInv, LogShapes
    <3> QED BY <2>2, <3>1, <3>2
  <2> QED BY <2>1, <2>2 DEF QuietLog
<1>2. EventsKept
  BY <1>1 DEF EventsKept, QuietLog
<1>3. CheckpointsKept
  BY DEF CheckpointsKept, QuietRuns
<1>4. \A w \in Workers : Busy(w) => wk[w].r \in Runs
  BY DEF IInv, Tokens, IsAt, Busy, Making
<1>5. \A w \in Workers : Making(w)' => Busy(w)'
  BY DEF Busy
<1>6. \A w \in Workers : (Busy(w) /\ Owns(w))' => Busy(w) /\ Owns(w) /\ wk'[w].r = wk[w].r /\ wk[w].r \in Runs
  <2> SUFFICES ASSUME NEW w \in Workers, Busy(w)', Owns(w)'
               PROVE  Busy(w) /\ Owns(w) /\ wk'[w].r = wk[w].r /\ wk[w].r \in Runs
    OBVIOUS
  <2>1. Busy(w) /\ wk'[w].r = wk[w].r /\ wk'[w].tok = wk[w].tok /\ wk[w].r \in Runs
    BY <1>4 DEF QuietWork
  <2>2. run'[wk[w].r].fence = run[wk[w].r].fence
    BY <2>1 DEF QuietRuns
  <2> QED BY <2>1, <2>2 DEF Owns
<1>7. OwnersKept
  BY <1>5, <1>6 DEF OwnersKept, QuietWork
<1>8. AnswersKept
  BY <1>1 DEF AnswersKept, QuietRuns, QuietLog
<1>9. DoneLeft'
  <2> SUFFICES ASSUME NEW w \in Workers, (Busy(w) /\ Owns(w))', run'[wk'[w].r].status = "done"
               PROVE  FALSE
    BY DEF DoneLeft
  <2>1. Busy(w) /\ Owns(w) /\ wk'[w].r = wk[w].r /\ wk[w].r \in Runs
    BY <1>6
  <2>2. run[wk[w].r].status = "done"
    BY <2>1 DEF QuietRuns
  <2> QED BY <2>1, <2>2 DEF AnswerInv, DoneLeft
<1>10. DOMAIN msg' = Runs
  BY DEF QuietLog, AnswerInv, LogShapes
<1> QED BY <1>2, <1>3, <1>7, <1>8, <1>9, <1>10, AnswerKept

\* What a worker has of an answer, and what the others do.
WorkKeptBy(w) ==
    /\ \A v \in Workers \ {w} : wk'[v] = wk[v]
    /\ wk'[w].r = wk[w].r /\ wk'[w].tok = wk[w].tok /\ wk'[w].step = wk[w].step
    /\ wk'[w].at = wk[w].at /\ wk'[w].content = wk[w].content

\* A worker of the run moves on without writing.
LEMMA QuietMove ==
    ASSUME IInv, NEW w \in Workers, NEW pc, wk' = [wk EXCEPT ![w].pc = pc],
           pc \in {"step", "ask", "wait", "save"} => Making(w), pc \notin {"prune", "cancel"}
    PROVE  QuietWork
<1>1. \A v \in Workers \ {w} : wk'[v] = wk[v]
  BY DEF IInv, Shapes, WorkerShapes
<1>2. /\ wk'[w].pc = pc /\ wk'[w].r = wk[w].r /\ wk'[w].tok = wk[w].tok /\ wk'[w].step = wk[w].step
      /\ wk'[w].at = wk[w].at /\ wk'[w].content = wk[w].content
  BY DEF IInv, Shapes, WorkerShapes, WorkerFields
<1> QED BY <1>1, <1>2 DEF QuietWork, Making, Busy

\* It leaves its work.
LEMMA QuietLeave ==
    ASSUME IInv, NEW w \in Workers, wk' = [wk EXCEPT ![w].pc = "ack"]
    PROVE  QuietWork
<1>1. \A v \in Workers \ {w} : wk'[v] = wk[v]
  BY DEF IInv, Shapes, WorkerShapes
<1>2. wk'[w].pc = "ack"
  BY DEF IInv, Shapes, WorkerShapes, WorkerFields
<1> QED BY <1>1, <1>2 DEF QuietWork, Making, Busy

LEMMA QuietReset ==
    ASSUME IInv, NEW w \in Workers, NEW x, wk' = [wk EXCEPT ![w] = x],
           x.pc \in {"idle", "turn"}
    PROVE  QuietWork
<1>1. \A v \in Workers \ {w} : wk'[v] = wk[v]
  BY DEF IInv, Shapes, WorkerShapes
<1>2. wk'[w] = x
  BY DEF IInv, Shapes, WorkerShapes
<1> QED BY <1>1, <1>2 DEF QuietWork, Making, Busy

LEMMA QuietSame ==
    ASSUME wk' = wk PROVE QuietWork
BY DEF QuietWork, Making, Busy

LEMMA QuietRows ==
    ASSUME run' = run PROVE QuietRuns
BY DEF QuietRuns

\* Requests, time and the sweeper.
LEMMA RequestsQuiet ==
    ASSUME IInv, AnswerInv, NEW r \in Runs,
           Post(r) \/ RequestCancel(r) \/ LeaseLapses(r) \/ JobReappears(r) \/ Sweep(r) \/ Requeue(r)
    PROVE  AnswerInv'
<1>1. Shapes'
  BY PostKeeps, RequestCancelKeeps, LeaseLapsesKeeps, JobReappearsKeeps, SweepKeeps, RequeueKeeps DEF IInv
<1>2. QuietWork
  BY QuietSame DEF Post, RequestCancel, LeaseLapses, JobReappears, Sweep, Requeue
<1>3. QuietLog
  BY DEF Post, RequestCancel, LeaseLapses, JobReappears, Sweep, Requeue, QuietLog
<1>4. QuietRuns
  <2> USE DEF QuietRuns, IInv, Shapes, RunShapes, RunFields
  <2>1. CASE Post(r)
    BY <2>1 DEF Post
  <2>2. CASE RequestCancel(r)
    BY <2>2 DEF RequestCancel
  <2>3. CASE LeaseLapses(r)
    BY <2>3 DEF LeaseLapses
  <2>4. CASE JobReappears(r) \/ Sweep(r) \/ Requeue(r)
    BY <2>4, QuietRows DEF JobReappears, Sweep, Requeue
  <2> QED BY <2>1, <2>2, <2>3, <2>4
<1> QED BY <1>1, <1>2, <1>3, <1>4, QuietKept

\* A run is marked as failed.
LEMMA MarkQuiet ==
    ASSUME IInv, NEW r, MarkFailed(r)
    PROVE  QuietRuns
BY DEF MarkFailed, QuietRuns, IInv, Shapes, RunShapes, RunFields

LEMMA SweepFailsQuiet ==
    ASSUME IInv, AnswerInv, SweepFails
    PROVE  AnswerInv'
<1>1. Shapes'
  BY SweepFailsKeeps DEF IInv
<1>2. QuietWork
  BY QuietSame DEF SweepFails
<1>3. QuietRuns
  BY QuietRows, MarkQuiet DEF SweepFails
<1>4. QuietLog
  <2>1. CASE log' = log
    BY <2>1 DEF SweepFails, QuietLog
  <2>2. CASE AppendError(sweep.r) /\ run[sweep.r].status \in Unended /\ run' = run
    <3>1. CASE sweep.r \in Runs
      BY <2>2, <3>1 DEF SweepFails, QuietLog, Unended
    <3>2. CASE sweep.r \notin Runs
      <4>1. log' = log
        BY <2>2, <3>2 DEF AppendError, AnswerInv, LogShapes
      <4> QED BY <2>1, <4>1
    <3> QED BY <3>1, <3>2
  <2> QED BY <2>1, <2>2 DEF SweepFails
<1> QED BY <1>1, <1>2, <1>3, <1>4, QuietKept

\* Jobs that are taken, deferred, acknowledged or failed, and crashes.
LEMMA JobsQuiet ==
    ASSUME IInv, AnswerInv, NEW w \in Workers,
           \/ \E r \in Runs : TakeJob(w, r)
           \/ TakeTurn(w) \/ WaitTurn(w) \/ ClaimNothing(w) \/ Ack(w) \/ Nack(w) \/ Crash(w)
    PROVE  AnswerInv'
<1>1. Shapes'
  BY TakeJobKeeps, TakeTurnKeeps, WaitTurnKeeps, ClaimNothingKeeps, AckKeeps, NackKeeps, CrashKeeps DEF IInv
<1>0. run' = run /\ log' = log /\ msg' = msg /\ clean' = clean
  <2>1. CASE \E r \in Runs : TakeJob(w, r)
    BY <2>1 DEF TakeJob
  <2>2. CASE TakeTurn(w) \/ WaitTurn(w) \/ ClaimNothing(w)
    BY <2>2 DEF TakeTurn, WaitTurn, ClaimNothing
  <2>3. CASE Ack(w) \/ Nack(w) \/ Crash(w)
    BY <2>3 DEF Ack, Nack, Crash
  <2> QED BY <2>1, <2>2, <2>3
<1>2. QuietRuns
  BY <1>0, QuietRows
<1>3. QuietLog
  BY <1>0 DEF QuietLog
<1>4. QuietWork
  <2>1. CASE TakeTurn(w) \/ ClaimNothing(w)
    BY <2>1, QuietMove DEF Goto, TakeTurn, ClaimNothing
  <2>2. CASE WaitTurn(w) \/ Ack(w) \/ Nack(w) \/ Crash(w)
    <3>1. Idle.pc = "idle" /\ wk' = [wk EXCEPT ![w] = Idle]
      BY <2>2 DEF Idle, WaitTurn, Ack, Nack, Crash
    <3> QED BY <3>1, QuietReset
  <2>3. ASSUME NEW r \in Runs, TakeJob(w, r)
        PROVE  QuietWork
    <3> DEFINE l == job[r].att + 1 >= MaxAttempts
               x == [Idle EXCEPT !.pc = "turn", !.r = r, !.job = job[r].id, !.last = l]
    <3>1. wk' = [wk EXCEPT ![w] = x]
      BY <2>3 DEF TakeJob
    <3>2. x.pc = "turn"
      <4> HIDE DEF l
      <4> QED BY DEF Idle
    <3> HIDE DEF x
    <3> QED BY <3>1, <3>2, QuietReset
  <2> QED BY <2>1, <2>2, <2>3
<1> QED BY <1>1, <1>2, <1>3, <1>4, QuietKept

\* The wait for an approval, failures and heartbeats.
LEMMA WorkQuiet ==
    ASSUME IInv, AnswerInv, NEW w \in Workers,
           Ask(w) \/ Decide(w) \/ GiveUp(w) \/ GenerationError(w) \/ Heartbeat(w)
    PROVE  AnswerInv'
<1>1. Shapes'
  BY AskKeeps, DecideKeeps, GiveUpKeeps, GenerationErrorKeeps, HeartbeatKeeps DEF IInv
<1>2. QuietRuns
  <2>1. CASE Ask(w)
    <3> DEFINE call == <<wk[w].tok, wk[w].step>>
               r == wk[w].r
    <3>1. run' = run \/ run' = [run EXCEPT ![r].pending = call, ![r].status = "waiting"]
      BY <2>1 DEF Ask
    <3> HIDE DEF call, r
    <3>2. CASE run' = [run EXCEPT ![r].pending = call, ![r].status = "waiting"]
      BY <3>2 DEF QuietRuns, IInv, Shapes, RunShapes, RunFields
    <3> QED BY <3>1, <3>2, QuietRows
  <2>2. CASE Decide(w)
    BY <2>2 DEF Decide, QuietRuns, IInv, Shapes, RunShapes, RunFields
  <2>3. CASE GiveUp(w)
    BY <2>3, QuietRows, MarkQuiet DEF GiveUp
  <2>4. CASE GenerationError(w)
    BY <2>4, QuietRows DEF GenerationError
  <2>5. CASE Heartbeat(w)
    BY <2>5 DEF Heartbeat, QuietRuns, IInv, Shapes, RunShapes, RunFields
  <2> QED BY <2>1, <2>2, <2>3, <2>4, <2>5
<1>3. QuietLog
  <2>1. CASE GiveUp(w)
    <3>1. wk[w].r \in Runs
      BY <2>1 DEF GiveUp, IInv, Tokens, IsAt
    <3> QED BY <2>1, <3>1 DEF GiveUp, QuietLog, Unended
  <2>2. CASE Ask(w) \/ Decide(w) \/ GenerationError(w) \/ Heartbeat(w)
    BY <2>2 DEF Ask, Decide, GenerationError, Heartbeat, QuietLog
  <2> QED BY <2>1, <2>2
<1>4. QuietWork
  <2>1. CASE Ask(w)
    BY <2>1, QuietMove DEF Ask, Goto, IsAt, Making
  <2>2. CASE Decide(w)
    <3>1. wk[w].pc = "wait" /\ \E b : wk' = [wk EXCEPT ![w].pc = "save", ![w].stop = b]
      <4> DEFINE b == wk[w].stop \/ run[wk[w].r].cancel
      <4>1. wk[w].pc = "wait" /\ wk' = [wk EXCEPT ![w].pc = "save", ![w].stop = b]
        BY <2>2 DEF Decide, IsAt, IInv, Shapes, WorkerShapes, WorkerFields
      <4> HIDE DEF b
      <4> QED BY <4>1
    <3>2. PICK b : wk' = [wk EXCEPT ![w].pc = "save", ![w].stop = b]
      BY <3>1
    <3>3. WorkKeptBy(w) /\ wk'[w].pc = "save"
      BY <3>2 DEF WorkKeptBy, IInv, Shapes, WorkerShapes, WorkerFields
    <3> QED BY <3>1, <3>3 DEF WorkKeptBy, QuietWork, Making, Busy
  <2>3. CASE GiveUp(w)
    BY <2>3, QuietMove DEF GiveUp, Goto
  <2>4. CASE GenerationError(w)
    <3>1. PICK pc \in {"fail", "nack"} : \E b : wk' = [wk EXCEPT ![w].pc = pc, ![w].last = b]
      BY <2>4 DEF GenerationError
    <3>2. WorkKeptBy(w) /\ wk'[w].pc = pc
      <4>1. PICK b : wk' = [wk EXCEPT ![w].pc = pc, ![w].last = b]
        BY <3>1
      <4> QED BY <4>1 DEF WorkKeptBy, IInv, Shapes, WorkerShapes, WorkerFields
    <3> QED BY <3>1, <3>2 DEF WorkKeptBy, QuietWork, Making, Busy
  <2>5. CASE Heartbeat(w)
    <3>2. PICK b, c : wk' = [wk EXCEPT ![w].stop = b, ![w].beat = c]
      BY <2>5 DEF Heartbeat, IInv, Shapes, WorkerShapes, WorkerFields
    <3>3. WorkKeptBy(w) /\ wk'[w].pc = wk[w].pc
      BY <3>2 DEF WorkKeptBy, IInv, Shapes, WorkerShapes, WorkerFields
    <3> QED BY <3>3 DEF WorkKeptBy, QuietWork, Making, Busy
  <2> QED BY <2>1, <2>2, <2>3, <2>4, <2>5
<1> QED BY <1>1, <1>2, <1>3, <1>4, QuietKept

\* A run has one owner at work.
LEMMA SoleOwner ==
    ASSUME IInv, NEW w \in Workers, NEW v \in Workers, Busy(w), Owns(w), Busy(v), Owns(v),
           wk[v].r = wk[w].r
    PROVE  v = w
<1>1. wk[w].tok # 0 /\ wk[v].tok # 0
  BY DEF IInv, Tokens, Busy, Making
<1> QED BY <1>1 DEF IInv, OneOwner, Owns

\* A claim takes the token from the owner before it.
LEMMA ClaimExact ==
    ASSUME IInv, AnswerInv, NEW w \in Workers, Claim(w)
    PROVE  AnswerInv'
<1> DEFINE r == wk[w].r
           t == run[r].fence + 1
<1>1. wk[w].pc = "claim" /\ r \in Runs /\ run[r].fence \in Nat /\ run[r].status # "done"
  BY DEF Claim, Claimable, IInv, Tokens, IsAt, Shapes, RunShapes
<1>2. Shapes'
  BY ClaimKeeps DEF IInv
<1>3. /\ \A v \in Workers \ {w} : wk'[v] = wk[v]
      /\ wk'[w].pc \in {"cancel", "prune"} /\ wk'[w].r = r
  <2>1. PICK pc \in {"cancel", "prune"} : wk' = [wk EXCEPT ![w].tok = t, ![w].pc = pc]
    BY DEF Claim
  <2> HIDE DEF t
  <2> QED BY <2>1 DEF IInv, Shapes, WorkerShapes, WorkerFields
<1>4. /\ \A q \in Runs \ {r} : run'[q] = run[q]
      /\ run'[r].fence = t /\ run'[r].status = "running" /\ run'[r].ckpt = run[r].ckpt
  <2>1. run' = [run EXCEPT ![r].status = "running", ![r].lease = "live", ![r].fence = t]
    BY <1>1 DEF Claim, IInv, Shapes, RunShapes, RunFields
  <2> HIDE DEF t, r
  <2> QED BY <1>1, <2>1 DEF IInv, Shapes, RunShapes, RunFields
<1>5. log' = log /\ msg' = msg /\ clean' = clean
  BY DEF Claim
<1>6. EventsKept /\ DOMAIN msg' = Runs
  BY <1>5 DEF EventsKept, AnswerInv, LogShapes
<1>7. CheckpointsKept
  BY <1>4 DEF CheckpointsKept
<1>8. AnswersKept
  BY <1>4, <1>5 DEF AnswersKept
<1>9. ASSUME NEW v \in Workers, v # w, Busy(v)', Owns(v)'
      PROVE  Busy(v) /\ Owns(v) /\ wk'[v] = wk[v] /\ wk[v].r \in Runs \ {r}
  <2>1. wk'[v] = wk[v]
    BY <1>3, <1>9
  <2>2. Busy(v) /\ wk[v].r \in Runs /\ wk[v].tok \in Nat /\ wk[v].tok # 0
    BY <1>9, <2>1, BusyAtRun DEF Busy, Making, IInv, Tokens, Shapes, WorkerShapes
  <2>3. wk[v].r # r
    <3>1. wk[v].tok <= run[wk[v].r].fence
      BY <2>2 DEF IInv, Tokens
    <3>2. wk[v].tok = run'[wk[v].r].fence
      BY <1>9, <2>1 DEF Owns
    <3> HIDE DEF r
    <3> QED BY <1>1, <1>4, <2>2, <3>1, <3>2
  <2>4. run'[wk[v].r] = run[wk[v].r]
    BY <1>4, <2>2, <2>3
  <2>5. Owns(v)
    BY <1>9, <2>1, <2>4 DEF Owns
  <2> QED BY <2>1, <2>2, <2>3, <2>5
<1>10. ~Making(w)'
  BY <1>3 DEF Making
<1>11. OwnersKept
  <2> SUFFICES ASSUME NEW v \in Workers, (Making(v) /\ Owns(v))'
               PROVE  /\ Making(v) /\ Owns(v) /\ wk'[v].r = wk[v].r
                      /\ wk'[v].step = wk[v].step /\ wk'[v].at = wk[v].at /\ wk'[v].content = wk[v].content
    BY DEF OwnersKept
  <2>1. v # w /\ Busy(v)'
    BY <1>10 DEF Busy
  <2>2. Owns(v) /\ wk'[v] = wk[v]
    BY <1>9, <2>1
  <2> QED BY <2>2 DEF Making
<1>12. DoneLeft'
  <2> SUFFICES ASSUME NEW v \in Workers, (Busy(v) /\ Owns(v))', run'[wk'[v].r].status = "done"
               PROVE  FALSE
    BY DEF DoneLeft
  <2>1. v # w
    BY <1>3, <1>4
  <2>2. Busy(v) /\ Owns(v) /\ wk'[v] = wk[v] /\ wk[v].r \in Runs \ {r}
    BY <1>9, <2>1
  <2>3. run[wk[v].r].status = "done"
    BY <1>4, <2>2
  <2> QED BY <2>2, <2>3 DEF AnswerInv, DoneLeft
<1> QED BY <1>2, <1>6, <1>7, <1>8, <1>11, <1>12, AnswerKept

\* A checkpoint is saved by the owner, whose text is exact.
LEMMA SaveExact ==
    ASSUME IInv, AnswerInv, NEW w \in Workers, Save(w)
    PROVE  AnswerInv'
<1>1. Shapes'
  BY SaveKeeps DEF IInv
<1>2. QuietWork
  BY QuietMove DEF Save, Goto, IsAt, Making
<1>3. QuietLog
  BY DEF Save, QuietLog
<1>4. CASE run' = run
  BY <1>1, <1>2, <1>3, <1>4, QuietRows, QuietKept
<1>5. CASE run' # run
  <2> DEFINE r == wk[w].r
             c == [at |-> wk[w].at, step |-> wk[w].step]
  <2>1. Making(w) /\ Owns(w) /\ r \in Autonomous /\ run' = [run EXCEPT ![r].ckpt = c] /\ r \in Runs
    BY <1>5, BusyAtRun DEF Save, IsAt, Making, Busy
  <2>2. /\ wk[w].step \in 0..Steps /\ wk[w].at \in Nat /\ wk[w].at <= Len(log[wk[w].r])
        /\ r \in clean => Exact(SubSeq(log[r], 1, wk[w].at), wk[w].step)
    BY <2>1 DEF AnswerInv, OwnersExact
  <2>3. /\ c \in [at : Nat, step : 0..Steps] /\ c.at <= Len(log[r])
        /\ r \in clean => Exact(SubSeq(log[r], 1, c.at), c.step)
    BY <2>2
  <2> HIDE DEF c
  <2>4. /\ \A q \in Runs \ {r} : run'[q] = run[q]
        /\ run'[r].ckpt = c /\ run'[r].fence = run[r].fence /\ run'[r].status = run[r].status
    <3> HIDE DEF r
    <3> QED BY <2>1 DEF IInv, Shapes, RunShapes, RunFields
  <2>5. log' = log /\ msg' = msg /\ clean' = clean
    BY DEF Save
  <2>6. LogShapes'
    BY <2>1, <2>3, <2>4, <2>5 DEF AnswerInv, LogShapes
  <2>7. LogsExact'
    <3> SUFFICES ASSUME NEW q \in clean
                 PROVE  /\ \E k \in 0..Steps : Exact(log[q], k)
                        /\ Exact(SubSeq(log[q], 1, run'[q].ckpt.at), run'[q].ckpt.step)
      BY <2>5 DEF LogsExact
    <3>1. q \in Runs
      BY DEF AnswerInv, LogShapes
    <3>2. \E k \in 0..Steps : Exact(log[q], k)
      BY DEF AnswerInv, LogsExact
    <3>3. CASE q = r
      BY <2>3, <2>4, <3>2, <3>3
    <3>4. CASE q # r
      <4>1. run'[q] = run[q]
        BY <2>4, <3>1, <3>4
      <4> QED BY <3>2, <4>1 DEF AnswerInv, LogsExact
    <3> QED BY <3>3, <3>4
  <2>8. \A q \in Runs : run'[q].fence = run[q].fence /\ run'[q].status = run[q].status
    BY <2>4
  <2>9. \A v \in Workers : /\ Busy(v)' => Busy(v) /\ wk[v].r \in Runs
                           /\ Making(v)' => Making(v) /\ Busy(v)
                           /\ (Busy(v) /\ Owns(v))' => Owns(v) /\ wk'[v].r = wk[v].r
    <3> SUFFICES ASSUME NEW v \in Workers
                 PROVE  /\ Busy(v)' => Busy(v) /\ wk[v].r \in Runs
                        /\ Making(v)' => Making(v) /\ Busy(v)
                        /\ (Busy(v) /\ Owns(v))' => Owns(v) /\ wk'[v].r = wk[v].r
      OBVIOUS
    <3>1. Busy(v)' => Busy(v) /\ wk[v].r \in Runs
      BY <1>2, BusyAtRun DEF QuietWork
    <3>2. Making(v)' => Making(v) /\ Busy(v)
      BY <1>2 DEF QuietWork, Busy
    <3>3. (Busy(v) /\ Owns(v))' => Owns(v) /\ wk'[v].r = wk[v].r
      BY <1>2, <2>8, <3>1 DEF QuietWork, Owns
    <3> QED BY <3>1, <3>2, <3>3
  <2>10. OwnersExact'
    <3> SUFFICES ASSUME NEW v \in Workers, (Making(v) /\ Owns(v))'
                 PROVE  (/\ wk[v].step \in 0..Steps /\ wk[v].at \in Nat /\ wk[v].at <= Len(log[wk[v].r])
                         /\ wk[v].r \in clean \/ wk[v].r \notin Autonomous => wk[v].content = Upto(wk[v].step)
                         /\ wk[v].r \in clean =>
                               /\ Exact(log[wk[v].r], wk[v].step)
                               /\ Exact(SubSeq(log[wk[v].r], 1, wk[v].at), wk[v].step))'
      BY DEF OwnersExact
    <3>0. Busy(v)'
      BY DEF Busy
    <3>1. /\ Making(v) /\ Owns(v) /\ wk'[v].r = wk[v].r
          /\ wk'[v].step = wk[v].step /\ wk'[v].at = wk[v].at /\ wk'[v].content = wk[v].content
      BY <1>2, <2>9, <3>0 DEF QuietWork
    <3>2. wk'[v].content = Upto(wk'[v].step) <=> wk[v].content = Upto(wk[v].step)
      BY <3>1
    <3> QED BY <2>5, <3>1, <3>2 DEF AnswerInv, OwnersExact
  <2>11. DoneLeft'
    BY <2>8, <2>9 DEF AnswerInv, DoneLeft
  <2>12. ContentSound'
    BY <2>5, <2>8 DEF AnswerInv, ContentSound, Answer
  <2> QED BY <2>6, <2>7, <2>10, <2>11, <2>12 DEF AnswerInv
<1> QED BY <1>4, <1>5

\* A run is finalised, as done only with the whole answer of its owner.
LEMMA FinalizeExact ==
    ASSUME IInv, AnswerInv, NEW w \in Workers, Busy(w), NEW status \in {"cancelled", "done"}, NEW content,
           Finalize(w, status, content),
           status = "done" => Making(w) /\ wk[w].step = Steps /\ content = wk[w].content
    PROVE  AnswerInv'
<1> DEFINE r == wk[w].r
           e == EndEvent(status)
<1>1. Shapes'
  BY FinalizeKeeps DEF IInv, IsAt, Busy, Making
<1>2. QuietWork
  <2>1. wk' = [wk EXCEPT ![w].pc = "ack"]
    BY DEF Finalize, Goto
  <2> QED BY <2>1, QuietLeave
<1>3. r \in Runs
  BY BusyAtRun
<1>4. CASE ~Owns(w)
  <2>1. run' = run /\ msg' = msg /\ log' = log /\ clean' = clean
    BY <1>4 DEF Finalize
  <2> QED BY <1>1, <1>2, <2>1, QuietRows, QuietKept DEF QuietLog
<1>5. CASE Owns(w)
  <2>1. e \in Int /\ e <= 0
    BY DEF EndEvent
  <2>2. /\ run' = [run EXCEPT ![r].status = status, ![r].lease = "null", ![r].ckpt = NoCheckpoint]
        /\ msg' = [msg EXCEPT ![r] = content] /\ log' = [log EXCEPT ![r] = Append(@, e)]
        /\ clean' = clean
    BY <1>5 DEF Finalize
  <2> HIDE DEF r, e
  <2>3. /\ \A q \in Runs \ {r} : run'[q] = run[q]
        /\ run'[r].ckpt = NoCheckpoint /\ run'[r].fence = run[r].fence /\ run'[r].status = status
    BY <1>3, <2>2 DEF IInv, Shapes, RunShapes, RunFields, NoCheckpoint
  <2>4. log \in [Runs -> Seq(Int)] /\ DOMAIN msg = Runs
    BY DEF AnswerInv, LogShapes
  <2>5. Append(log[r], e) \in Seq(Int)
    BY <1>3, <2>1, <2>4
  <2>6. /\ log' \in [Runs -> Seq(Int)] /\ log'[r] = Append(log[r], e)
        /\ \A q \in Runs \ {r} : log'[q] = log[q] /\ msg'[q] = msg[q]
        /\ DOMAIN msg' = Runs /\ msg'[r] = content
    BY <1>3, <2>2, <2>4, <2>5
  <2>7. EventsKept
    BY <2>1, <2>2, <2>6 DEF EventsKept
  <2>8. CheckpointsKept
    BY <2>3 DEF CheckpointsKept
  <2>9. ~Busy(w)'
    <3>1. wk'[w].pc = "ack"
      BY DEF Finalize, Goto, IInv, Shapes, WorkerShapes, WorkerFields
    <3> QED BY <3>1 DEF Busy, Making
  <2>10. ASSUME NEW v \in Workers, (Busy(v) /\ Owns(v))'
         PROVE  Busy(v) /\ Owns(v) /\ wk'[v].r = wk[v].r /\ wk[v].r \in Runs \ {r}
    <3>1. Busy(v) /\ wk'[v].r = wk[v].r /\ wk'[v].tok = wk[v].tok /\ wk[v].r \in Runs
      BY <1>2, <2>10, BusyAtRun DEF QuietWork
    <3>2. run'[wk[v].r].fence = run[wk[v].r].fence
      BY <2>3, <3>1
    <3>3. Owns(v)
      BY <2>10, <3>1, <3>2 DEF Owns
    <3>4. v # w
      BY <2>9, <2>10
    <3>5. wk[v].r # r
      BY <1>5, <3>1, <3>3, <3>4, SoleOwner DEF r
    <3> QED BY <3>1, <3>3, <3>5
  <2>11. OwnersKept
    <3>1. \A v \in Workers : Making(v)' => Busy(v)'
      BY DEF Busy
    <3> QED BY <1>2, <2>10, <3>1 DEF OwnersKept, QuietWork
  <2>12. LogShapes' /\ LogsExact' /\ OwnersExact'
    BY <1>1, <2>6, <2>7, <2>8, <2>11, ExactKept DEF AnswerInv
  <2>13. DoneLeft'
    <3> SUFFICES ASSUME NEW v \in Workers, (Busy(v) /\ Owns(v))', run'[wk'[v].r].status = "done"
                 PROVE  FALSE
      BY DEF DoneLeft
    <3>1. Busy(v) /\ Owns(v) /\ wk'[v].r = wk[v].r /\ wk[v].r \in Runs \ {r}
      BY <2>10
    <3>2. run[wk[v].r].status = "done"
      BY <2>3, <3>1
    <3> QED BY <3>1, <3>2 DEF AnswerInv, DoneLeft
  <2>14. ContentSound'
    <3> SUFFICES ASSUME NEW q \in Runs, run'[q].status = "done"
                 PROVE  /\ (q \in clean \/ q \notin Autonomous) => msg'[q] = Answer
                        /\ q \in clean => Text(log'[q]) = Answer
      BY <2>2 DEF ContentSound, Answer
    <3>1. CASE q = r
      <4>1. Making(w) /\ wk[w].step = Steps /\ content = wk[w].content
        BY <2>3, <3>1
      <4>2. Upto(Steps) = Answer
        BY DEF Upto, Answer
      <4>3. /\ r \in clean \/ r \notin Autonomous => content = Answer
            /\ r \in clean => Exact(log[r], Steps)
        BY <1>5, <4>1, <4>2 DEF AnswerInv, OwnersExact, r
      <4>4. Steps \in Nat /\ log[r] \in Seq(Int)
        BY <1>3, <2>4, GenerationAssumption
      <4>5. r \in clean => Exact(log'[r], Steps)
        BY <2>1, <2>6, <4>3, <4>4, ExactEnd
      <4>6. r \in clean => Text(log'[r]) = Answer
        BY <1>3, <2>6, <4>2, <4>4, <4>5, ExactText
      <4> QED BY <2>6, <3>1, <4>3, <4>6
    <3>2. CASE q # r
      <4>1. run'[q] = run[q] /\ msg'[q] = msg[q] /\ log'[q] = log[q]
        BY <2>3, <2>6, <3>2
      <4>2. Text(log'[q]) = Text(log[q])
        BY <4>1
      <4> QED BY <4>1, <4>2 DEF AnswerInv, ContentSound
    <3> QED BY <3>1, <3>2
  <2> QED BY <2>12, <2>13, <2>14 DEF AnswerInv
<1> QED BY <1>4, <1>5

LEMMA FinishExact ==
    ASSUME IInv, AnswerInv, NEW w \in Workers, FinishAnswer(w) \/ FinishEmpty(w)
    PROVE  AnswerInv'
<1>1. CASE FinishAnswer(w)
  <2>1. Busy(w) /\ Making(w)
    BY <1>1 DEF FinishAnswer, IsAt, Busy, Making
  <2>2. CASE wk[w].stop
    <3>1. Finalize(w, "cancelled", wk[w].content)
      BY <1>1, <2>2 DEF FinishAnswer
    <3> QED BY <2>1, <3>1, FinalizeExact
  <2>3. CASE ~wk[w].stop
    <3>1. Finalize(w, "done", wk[w].content) /\ wk[w].step = Steps
      BY <1>1, <2>3 DEF FinishAnswer
    <3> QED BY <2>1, <3>1, FinalizeExact
  <2> QED BY <2>2, <2>3
<1>2. CASE FinishEmpty(w)
  <2>1. Busy(w) /\ Finalize(w, "cancelled", <<>>)
    BY <1>2 DEF FinishEmpty, IsAt, Busy, Making
  <2> QED BY <2>1, FinalizeExact
<1> QED BY <1>1, <1>2

\* One more text of an answer.
LEMMA UptoNext ==
    ASSUME NEW k \in Nat
    PROVE  Append(Upto(k), k + 1) = Upto(k + 1)
<1> DEFINE s == Upto(k)
<1>1. s \in Seq(Nat) /\ Len(s) = k /\ \A i \in 1..k : s[i] = i
  BY DEF Upto
<1>2. k + 1 \in Nat
  OBVIOUS
<1> HIDE DEF s
<1>3. /\ Append(s, k + 1) \in Seq(Nat) /\ Len(Append(s, k + 1)) = k + 1
      /\ \A i \in 1..(k + 1) : Append(s, k + 1)[i] = i
  BY <1>1
<1>4. /\ Upto(k + 1) \in Seq(Nat) /\ Len(Upto(k + 1)) = k + 1
      /\ \A i \in 1..(k + 1) : Upto(k + 1)[i] = i
  BY <1>2 DEF Upto
<1>5. Append(s, k + 1) = Upto(k + 1)
  BY <1>3, <1>4, SeqEqual
<1> QED BY <1>5 DEF s

\* What a step of an owner has to keep: nobody else has its run.
OnlyAt(w) ==
    \A v \in Workers \ {w} :
        (Busy(v) /\ Owns(v))' =>
            /\ Busy(v) /\ Owns(v) /\ wk'[v] = wk[v]
            /\ wk[v].r \in Runs \ {wk[w].r}

\* The owner of a run writes to its log: the other runs and workers keep what they have.
LEMMA OwnerWrites ==
    ASSUME IInv, Shapes', AnswerInv, NEW w \in Workers, Busy(w), Owns(w), OnlyAt(w),
           run' = run, msg' = msg, clean' \subseteq clean, wk'[w].r = wk[w].r,
           log' \in [Runs -> Seq(Int)],
           \A q \in Runs \ {wk[w].r} : log'[q] = log[q] /\ (q \in clean' <=> q \in clean),
           NEW k \in 0..Steps, NEW a \in Nat, wk'[w].step = k, wk'[w].at = a, a <= Len(log'[wk[w].r]),
           run[wk[w].r].ckpt.at <= Len(log'[wk[w].r]),
           wk[w].r \in clean' \/ wk[w].r \notin Autonomous => wk'[w].content = Upto(k),
           wk[w].r \in clean' => /\ Exact(log'[wk[w].r], k)
                                 /\ Exact(SubSeq(log'[wk[w].r], 1, a), k)
                                 /\ Exact(SubSeq(log'[wk[w].r], 1, run[wk[w].r].ckpt.at), run[wk[w].r].ckpt.step)
    PROVE  AnswerInv'
<1> DEFINE r == wk[w].r
<1>1. r \in Runs /\ run[r].status # "done"
  BY BusyAtRun DEF AnswerInv, DoneLeft
<1> HIDE DEF r
<1>2. LogShapes'
  <2>1. \A q \in Runs : run[q].ckpt.at <= Len(log'[q])
    BY DEF AnswerInv, LogShapes, r
  <2> QED BY <2>1 DEF AnswerInv, LogShapes
<1>3. LogsExact'
  <2> SUFFICES ASSUME NEW q \in clean'
               PROVE  /\ \E n \in 0..Steps : Exact(log'[q], n)
                      /\ Exact(SubSeq(log'[q], 1, run[q].ckpt.at), run[q].ckpt.step)
    BY DEF LogsExact
  <2>1. CASE q = r
    BY <2>1 DEF r
  <2>2. CASE q # r
    <3>1. q \in Runs /\ log'[q] = log[q] /\ q \in clean
      BY <2>2 DEF r, AnswerInv, LogShapes
    <3> QED BY <3>1 DEF AnswerInv, LogsExact
  <2> QED BY <2>1, <2>2
<1>4. OwnersExact'
  <2> SUFFICES ASSUME NEW v \in Workers, (Making(v) /\ Owns(v))'
               PROVE  (/\ wk[v].step \in 0..Steps /\ wk[v].at \in Nat /\ wk[v].at <= Len(log[wk[v].r])
                       /\ wk[v].r \in clean \/ wk[v].r \notin Autonomous => wk[v].content = Upto(wk[v].step)
                       /\ wk[v].r \in clean =>
                             /\ Exact(log[wk[v].r], wk[v].step)
                             /\ Exact(SubSeq(log[wk[v].r], 1, wk[v].at), wk[v].step))'
    BY DEF OwnersExact
  <2>1. CASE v = w
    BY <2>1
  <2>2. CASE v # w
    <3>1. Busy(v)'
      BY DEF Busy
    <3>2. Owns(v) /\ wk'[v] = wk[v] /\ wk[v].r \in Runs \ {r}
      BY <2>2, <3>1 DEF OnlyAt, r
    <3>3. Making(v) /\ log'[wk[v].r] = log[wk[v].r] /\ (wk[v].r \in clean' <=> wk[v].r \in clean)
      BY <3>2 DEF Making, r
    <3>4. wk'[v].content = Upto(wk'[v].step) <=> wk[v].content = Upto(wk[v].step)
      BY <3>2
    <3> QED BY <3>2, <3>3, <3>4 DEF AnswerInv, OwnersExact
  <2> QED BY <2>1, <2>2
<1>5. DoneLeft'
  <2> SUFFICES ASSUME NEW v \in Workers, (Busy(v) /\ Owns(v))', run'[wk'[v].r].status = "done"
               PROVE  FALSE
    BY DEF DoneLeft
  <2>1. v # w
    BY <1>1 DEF r
  <2>2. Busy(v) /\ Owns(v) /\ wk'[v] = wk[v]
    BY <2>1 DEF OnlyAt
  <2> QED BY <2>2 DEF AnswerInv, DoneLeft
<1>6. ContentSound'
  <2> SUFFICES ASSUME NEW q \in Runs, run[q].status = "done"
               PROVE  /\ (q \in clean' \/ q \notin Autonomous) => msg[q] = Answer
                      /\ q \in clean' => Text(log'[q]) = Answer
    BY DEF ContentSound, Answer
  <2>1. q # r
    BY <1>1
  <2>2. log'[q] = log[q] /\ (q \in clean' <=> q \in clean)
    BY <2>1 DEF r
  <2>3. Text(log'[q]) = Text(log[q])
    BY <2>2
  <2> QED BY <2>2, <2>3 DEF AnswerInv, ContentSound
<1> QED BY <1>2, <1>3, <1>4, <1>5, <1>6 DEF AnswerInv

\* The owner of a run is alone at it, whatever it does but give its token away.
LEMMA AloneAt ==
    ASSUME IInv, NEW w \in Workers, Busy(w), Owns(w), run' = run,
           \A v \in Workers \ {w} : wk'[v] = wk[v]
    PROVE  OnlyAt(w)
<1> SUFFICES ASSUME NEW v \in Workers \ {w}, (Busy(v) /\ Owns(v))'
             PROVE  Busy(v) /\ Owns(v) /\ wk'[v] = wk[v] /\ wk[v].r \in Runs \ {wk[w].r}
  BY DEF OnlyAt
<1>1. wk'[v] = wk[v] /\ Busy(v) /\ Owns(v)
  BY DEF Busy, Making, Owns
<1>2. wk[v].r \in Runs
  BY <1>1, BusyAtRun
<1>3. wk[v].r # wk[w].r
  BY <1>1, SoleOwner
<1> QED BY <1>1, <1>2, <1>3

\* The text of a step.
LEMMA EmitExact ==
    ASSUME IInv, AnswerInv, NEW w \in Workers, Emit(w)
    PROVE  AnswerInv'
<1>1. Shapes'
  BY EmitKeeps DEF IInv
<1>2. Making(w) /\ Busy(w)
  BY DEF Emit, IsAt, Making, Busy
<1>3. CASE ~Owns(w)
  <2>1. wk' = [wk EXCEPT ![w].pc = "ack"] /\ log' = log /\ run' = run /\ msg' = msg /\ clean' = clean
    BY <1>3 DEF Emit, Goto
  <2>2. QuietWork
    BY <2>1, QuietLeave
  <2> QED BY <1>1, <2>1, <2>2, QuietRows, QuietKept DEF QuietLog
<1>4. CASE Owns(w)
  <2> DEFINE r == wk[w].r
             s == log[r]
             k == wk[w].step
             t == Append(s, k + 1)
  <2>1. r \in Runs /\ log \in [Runs -> Seq(Int)] /\ Steps \in Nat
    BY <1>2, BusyAtRun, GenerationAssumption DEF AnswerInv, LogShapes
  <2>2. /\ k \in 0..Steps /\ k < Steps
        /\ r \in clean \/ r \notin Autonomous => wk[w].content = Upto(k)
        /\ r \in clean => Exact(s, k)
    BY <1>2, <1>4 DEF AnswerInv, OwnersExact, Emit
  <2>3. k \in Nat /\ k + 1 \in 0..Steps /\ k + 1 \in Int /\ s \in Seq(Int)
    BY <2>1, <2>2
  <2>4. t \in Seq(Int) /\ Len(s) \in Nat /\ Len(t) = Len(s) + 1
    BY <2>3, Appended
  <2>5. r \in clean => Exact(t, k + 1)
    BY <2>2, <2>3, ExactNext
  <2> HIDE DEF t
  <2>6. SubSeq(t, 1, Len(t)) = t
    BY <2>4
  <2>7. /\ run[r].ckpt.at <= Len(t)
        /\ r \in clean => Exact(SubSeq(t, 1, run[r].ckpt.at), run[r].ckpt.step)
    <3> DEFINE c == run[r].ckpt
    <3>1. c.at \in Nat /\ c.at <= Len(s) /\ (r \in clean => Exact(SubSeq(s, 1, c.at), c.step))
      BY <2>1 DEF AnswerInv, LogShapes, LogsExact
    <3> HIDE DEF c
    <3>2. SubSeq(t, 1, c.at) = SubSeq(s, 1, c.at)
      BY <2>3, <3>1, PrefixKept DEF t
    <3>3. c.at <= Len(t)
      <4> HIDE DEF s
      <4> QED BY <2>4, <3>1
    <3>4. r \in clean => Exact(SubSeq(t, 1, c.at), c.step)
      BY <3>1, <3>2
    <3> QED BY <3>3, <3>4 DEF c
  <2>8. /\ log' = [log EXCEPT ![r] = t] /\ run' = run /\ msg' = msg /\ clean' = clean
    BY <1>4 DEF Emit, t
  <2>9. log' \in [Runs -> Seq(Int)] /\ log'[r] = t /\ \A q \in Runs \ {r} : log'[q] = log[q]
    <3> HIDE DEF r
    <3> QED BY <2>1, <2>4, <2>8
  <2>10. /\ \A v \in Workers \ {w} : wk'[v] = wk[v]
         /\ wk'[w].r = r /\ wk'[w].step = k + 1 /\ wk'[w].at = Len(s) + 1
         /\ wk'[w].content = Append(wk[w].content, k + 1)
    <3> DEFINE pc == IF wk[w].step + 1 \in Gated THEN "ask" ELSE "save"
               n == wk[w].step + 1
               c == Append(wk[w].content, n)
               a == Len(log[wk[w].r]) + 1
    <3>1. wk' = [wk EXCEPT ![w].pc = pc, ![w].step = n, ![w].content = c, ![w].at = a]
      BY <1>4 DEF Emit, IInv, Shapes, WorkerShapes, WorkerFields
    <3> HIDE DEF pc, n, c, a
    <3>2. /\ \A v \in Workers \ {w} : wk'[v] = wk[v]
          /\ wk'[w].r = wk[w].r /\ wk'[w].step = n /\ wk'[w].at = a /\ wk'[w].content = c
      BY <3>1 DEF IInv, Shapes, WorkerShapes, WorkerFields
    <3> QED BY <3>2 DEF n, c, a
  <2>11. r \in clean \/ r \notin Autonomous => wk'[w].content = Upto(k + 1)
    BY <2>2, <2>3, <2>10, UptoNext
  <2>12. OnlyAt(w)
    BY <1>2, <1>4, <2>8, <2>10, AloneAt
  <2> DEFINE n == k + 1
             a == Len(s) + 1
  <2>13. /\ n \in 0..Steps /\ a \in Nat /\ wk'[w].step = n /\ wk'[w].at = a
         /\ r \in clean' \/ r \notin Autonomous => wk'[w].content = Upto(n)
         /\ a <= Len(log'[r]) /\ run[r].ckpt.at <= Len(log'[r])
         /\ r \in clean' => /\ Exact(log'[r], n) /\ Exact(SubSeq(log'[r], 1, a), n)
                            /\ Exact(SubSeq(log'[r], 1, run[r].ckpt.at), run[r].ckpt.step)
    <3>1. n \in 0..Steps /\ a \in Nat /\ wk'[w].step = n /\ wk'[w].at = a
      BY <2>3, <2>4, <2>10
    <3>2. r \in clean' \/ r \notin Autonomous => wk'[w].content = Upto(n)
      BY <2>8, <2>11
    <3> HIDE DEF n, s, r, k
    <3>3. Len(log'[r]) = a /\ a <= a /\ SubSeq(log'[r], 1, a) = log'[r]
      BY <2>4, <2>6, <2>9, <3>1
    <3>4. r \in clean' => Exact(log'[r], n) /\ Exact(SubSeq(log'[r], 1, a), n)
      BY <2>5, <2>8, <2>9, <3>3 DEF n
    <3>5. /\ run[r].ckpt.at <= Len(log'[r])
          /\ r \in clean' => Exact(SubSeq(log'[r], 1, run[r].ckpt.at), run[r].ckpt.step)
      BY <2>7, <2>8, <2>9
    <3> QED BY <3>1, <3>2, <3>3, <3>4, <3>5
  <2> HIDE DEF n, a, k, s
  <2> QED BY <1>1, <1>2, <1>4, <2>8, <2>9, <2>10, <2>12, <2>13, OwnerWrites
<1> QED BY <1>3, <1>4

\* An attempt begins: the text it starts with is that of the checkpoint, and so is the log's.
LEMMA PruneExact ==
    ASSUME IInv, AnswerInv, NEW w \in Workers, Prune(w)
    PROVE  AnswerInv'
<1> DEFINE r == wk[w].r
           c == run[r].ckpt
           text == Text(SubSeq(log[r], 1, c.at))
<1>1. Shapes'
  BY PruneKeeps DEF IInv
<1>2. Busy(w) /\ ~Making(w)
  BY DEF Prune, IsAt, Making, Busy
<1>3. r \in Runs /\ log \in [Runs -> Seq(Int)] /\ Steps \in Nat /\ clean \subseteq Runs
  BY <1>2, BusyAtRun, GenerationAssumption DEF AnswerInv, LogShapes
<1>4. c \in [at : Nat, step : 0..Steps] /\ (r \notin Autonomous => c = NoCheckpoint)
  BY <1>3 DEF AnswerInv, LogShapes
<1>5. run' = run /\ msg' = msg
  BY DEF Prune
<1>6. /\ \A v \in Workers \ {w} : wk'[v] = wk[v]
      /\ wk'[w].r = r /\ wk'[w].tok = wk[w].tok /\ wk'[w].step = c.step /\ wk'[w].at = c.at
      /\ wk'[w].content = text
  <2> DEFINE a == c.at
             k == c.step
  <2>1. wk' = [wk EXCEPT ![w].pc = "step", ![w].step = k, ![w].at = a, ![w].content = text]
    BY DEF Prune
  <2> HIDE DEF a, k, text
  <2>2. /\ \A v \in Workers \ {w} : wk'[v] = wk[v]
        /\ wk'[w].r = wk[w].r /\ wk'[w].tok = wk[w].tok /\ wk'[w].step = k /\ wk'[w].at = a
        /\ wk'[w].content = text
    BY <2>1 DEF IInv, Shapes, WorkerShapes, WorkerFields
  <2> QED BY <2>2 DEF a, k
<1>7. CASE ~Owns(w)
  <2>1. log' = log /\ clean' = clean
    BY <1>7 DEF Prune
  <2>2. ~Owns(w)'
    BY <1>5, <1>6, <1>7 DEF Owns
  <2>3. \A v \in Workers : (Busy(v) /\ Owns(v))' => v # w /\ wk'[v] = wk[v] /\ Busy(v) /\ Owns(v)
    BY <1>5, <1>6, <2>2 DEF Busy, Making, Owns
  <2>4. EventsKept /\ DOMAIN msg' = Runs
    BY <1>3, <1>5, <2>1 DEF EventsKept, AnswerInv, LogShapes
  <2>5. CheckpointsKept /\ AnswersKept
    BY <1>5, <2>1 DEF CheckpointsKept, AnswersKept
  <2>6. OwnersKept
    <3>1. \A v \in Workers : Making(v)' => Busy(v)'
      BY DEF Busy
    <3>2. \A v \in Workers : wk'[v] = wk[v] => (Making(v)' <=> Making(v))
      BY DEF Making
    <3> QED BY <2>3, <3>1, <3>2 DEF OwnersKept
  <2>7. DoneLeft'
    BY <1>5, <2>3 DEF AnswerInv, DoneLeft
  <2> QED BY <1>1, <2>4, <2>5, <2>6, <2>7, AnswerKept
<1>8. CASE Owns(w)
  <2> DEFINE s == log[r]
             p == SubSeq(s, 1, c.at)
  <2>1. s \in Seq(Int) /\ Len(s) \in Nat /\ c.at \in Nat /\ c.step \in 0..Steps /\ c.step \in Nat
    BY <1>3, <1>4
  <2>2. c = NoCheckpoint => c.at = 0 /\ c.step = 0
    BY <1>4 DEF NoCheckpoint
  <2>3. c.at <= Len(s) /\ (r \in clean => Exact(p, c.step))
    BY <1>3 DEF AnswerInv, LogShapes, LogsExact
  <2>4. c = NoCheckpoint => Exact(p, c.step)
    <3> HIDE DEF c, s
    <3> QED BY <2>1, NothingBefore
  <2>5. p \in Seq(Int) /\ Len(p) = c.at /\ SubSeq(p, 1, c.at) = p
    <3> HIDE DEF c, s
    <3> QED BY <2>1, <2>3, PrefixKept
  <2> HIDE DEF s, p, c
  <2>6. r \in clean \/ r \notin Autonomous => text = Upto(c.step)
    <3>1. Exact(p, c.step) => text = Upto(c.step)
      BY <2>1, <2>5, ExactText DEF p, s
    <3> QED BY <1>4, <2>3, <2>4, <3>1
  <2>7. OnlyAt(w)
    BY <1>2, <1>5, <1>6, <1>8, AloneAt
  <2>8. CASE c # NoCheckpoint
    <3>1. clean' = clean /\ log' = [log EXCEPT ![r] = p]
      BY <1>8, <2>8 DEF Prune, p, s, c
    <3>3. log' \in [Runs -> Seq(Int)] /\ log'[r] = p /\ \A q \in Runs \ {r} : log'[q] = log[q]
      <4> HIDE DEF r
      <4> QED BY <1>3, <2>5, <3>1
    <3>4. /\ c.at <= Len(log'[r])
          /\ r \in clean' => Exact(log'[r], c.step) /\ Exact(SubSeq(log'[r], 1, c.at), c.step)
      <4>1. Len(log'[r]) = c.at /\ c.at <= c.at /\ SubSeq(log'[r], 1, c.at) = p
        BY <2>1, <2>5, <3>3
      <4> HIDE DEF r
      <4> QED BY <2>3, <3>1, <3>3, <4>1
    <3>5. r \in clean' \/ r \notin Autonomous => wk'[w].content = Upto(c.step)
      BY <1>6, <2>6, <3>1 DEF c
    <3> DEFINE k == c.step
               a == c.at
    <3>6. /\ k \in 0..Steps /\ a \in Nat /\ wk'[w].step = k /\ wk'[w].at = a
          /\ r \in clean' \/ r \notin Autonomous => wk'[w].content = Upto(k)
          /\ a <= Len(log'[r]) /\ run[r].ckpt.at <= Len(log'[r])
          /\ r \in clean' => /\ Exact(log'[r], k) /\ Exact(SubSeq(log'[r], 1, a), k)
                             /\ Exact(SubSeq(log'[r], 1, run[r].ckpt.at), run[r].ckpt.step)
      BY <1>6, <2>1, <3>4, <3>5 DEF c
    <3> HIDE DEF k, a
    <3>7. \A q \in Runs \ {r} : log'[q] = log[q] /\ (q \in clean' <=> q \in clean)
      BY <3>1, <3>3
    <3> QED BY <1>1, <1>2, <1>5, <1>6, <1>8, <2>7, <3>1, <3>3, <3>6, <3>7, OwnerWrites
  <2>9. CASE c = NoCheckpoint
    <3>1. log' = log /\ clean' = IF Text(s) # <<>> THEN clean \ {r} ELSE clean
      BY <1>8, <2>9 DEF Prune, s, c
    <3>2. r \in clean' => r \in clean /\ Text(s) = <<>>
      BY <3>1
    <3>3. r \in clean' => Exact(s, c.step)
      <4> SUFFICES ASSUME r \in clean' PROVE Exact(s, c.step)
        OBVIOUS
      <4>1. PICK n \in 0..Steps : Exact(s, n)
        BY <3>2 DEF AnswerInv, LogsExact, s
      <4>2. n \in Nat
        BY <1>3, <4>1
      <4>3. Upto(n) = <<>>
        BY <2>1, <3>2, <4>1, <4>2, ExactText
      <4>4. n = 0
        <5>1. DOMAIN Upto(n) = 1..n /\ DOMAIN Upto(n) = 1..0
          BY <4>3 DEF Upto
        <5> QED BY <4>2, <5>1
      <4> QED BY <2>2, <2>9, <4>1, <4>4
    <3>4. /\ c.at <= Len(log'[r])
          /\ r \in clean' => Exact(log'[r], c.step) /\ Exact(SubSeq(log'[r], 1, c.at), c.step)
      BY <2>3, <2>4, <2>9, <3>1, <3>3 DEF s, p
    <3>5. r \in clean' \/ r \notin Autonomous => wk'[w].content = Upto(c.step)
      BY <1>6, <2>6, <3>2 DEF c
    <3> DEFINE k == c.step
               a == c.at
    <3>6. /\ k \in 0..Steps /\ a \in Nat /\ wk'[w].step = k /\ wk'[w].at = a
          /\ r \in clean' \/ r \notin Autonomous => wk'[w].content = Upto(k)
          /\ a <= Len(log'[r]) /\ run[r].ckpt.at <= Len(log'[r])
          /\ r \in clean' => /\ Exact(log'[r], k) /\ Exact(SubSeq(log'[r], 1, a), k)
                             /\ Exact(SubSeq(log'[r], 1, run[r].ckpt.at), run[r].ckpt.step)
      BY <1>6, <2>1, <3>4, <3>5 DEF c
    <3> HIDE DEF k, a
    <3>7. /\ \A q \in Runs \ {r} : log'[q] = log[q] /\ (q \in clean' <=> q \in clean)
          /\ clean' \subseteq clean /\ log' \in [Runs -> Seq(Int)]
      BY <1>3, <3>1
    <3> QED BY <1>1, <1>2, <1>5, <1>6, <1>8, <2>7, <3>6, <3>7, OwnerWrites
  <2> QED BY <2>8, <2>9
<1> QED BY <1>7, <1>8

-----------------------------------------------------------------------------
\* At the start the logs are empty.
LEMMA InitExact == Init => AnswerInv
<1> SUFFICES ASSUME Init PROVE AnswerInv
  OBVIOUS
<1>0. Steps \in Nat
  BY GenerationAssumption
<1>1. \A r \in Runs : log[r] = <<>> /\ run[r].ckpt = NoCheckpoint /\ run[r].status = "none"
  BY DEF Init, NewRun
<1>2. NoCheckpoint \in [at : Nat, step : 0..Steps]
  BY <1>0 DEF NoCheckpoint
<1>3. LogShapes
  <2>1. log \in [Runs -> Seq(Int)] /\ DOMAIN msg = Runs /\ clean \subseteq Runs
    BY DEF Init
  <2>2. \A r \in Runs : run[r].ckpt.at <= Len(log[r])
    BY <1>1, <2>1, NothingBefore
  <2> QED BY <1>1, <1>2, <2>1, <2>2 DEF LogShapes
<1>4. LogsExact
  <2> SUFFICES ASSUME NEW r \in Runs
               PROVE  /\ \E k \in 0..Steps : Exact(log[r], k)
                      /\ Exact(SubSeq(log[r], 1, run[r].ckpt.at), run[r].ckpt.step)
    BY DEF LogsExact, Init
  <2>1. Exact(log[r], 0) /\ 0 \in 0..Steps
    BY <1>0, <1>1, ExactEmpty
  <2>2. log[r] \in Seq(Int)
    BY <1>3 DEF LogShapes
  <2>3. Exact(SubSeq(log[r], 1, run[r].ckpt.at), run[r].ckpt.step)
    BY <1>1, <2>2, NothingBefore
  <2> QED BY <2>1, <2>3
<1>5. OwnersExact /\ DoneLeft
  BY DEF Init, Idle, OwnersExact, DoneLeft, Busy, Making
<1>6. ContentSound
  BY <1>1 DEF ContentSound
<1> QED BY <1>3, <1>4, <1>5, <1>6 DEF AnswerInv

\* Every step keeps logs and answers exact.
LEMMA NextExact ==
    ASSUME IInv, AnswerInv, [Next]_vars
    PROVE  AnswerInv'
<1>1. CASE UNCHANGED vars
  <2>1. Shapes' /\ QuietWork /\ QuietRuns /\ QuietLog
    BY <1>1, QuietSame, QuietRows, NextKeeps DEF vars, QuietLog, IInv
  <2> QED BY <2>1, QuietKept
<1>2. ASSUME NEW r \in Runs,
             Post(r) \/ RequestCancel(r) \/ LeaseLapses(r) \/ JobReappears(r) \/ Sweep(r) \/ Requeue(r)
      PROVE  AnswerInv'
  BY <1>2, RequestsQuiet
<1>3. ASSUME NEW w \in Workers, NEW r \in Runs, TakeJob(w, r)
      PROVE  AnswerInv'
  BY <1>3, JobsQuiet
<1>4. ASSUME NEW w \in Workers, WorkerStep(w)
      PROVE  AnswerInv'
  BY <1>4, JobsQuiet, WorkQuiet, ClaimExact, PruneExact, EmitExact, SaveExact, FinishExact DEF WorkerStep
<1>5. ASSUME NEW w \in Workers, GenerationError(w) \/ Heartbeat(w) \/ Crash(w)
      PROVE  AnswerInv'
  BY <1>5, JobsQuiet, WorkQuiet
<1> QED BY <1>1, <1>2, <1>3, <1>4, <1>5, SweepFailsQuiet DEF Next

(* However often an answer is taken over, in a run none of whose attempts    *)
(* left text before the first checkpoint the log, the log up to the          *)
(* checkpoint and the owner's text have each step once and in order          *)
(* (WorkerSink::emit, save_checkpoint, prune_events_after, seed_from_log).   *)
THEOREM AnswerInvariant == Spec => [](IInv /\ AnswerInv)
<1> QED BY InitHolds, InitExact, NextKeeps, NextExact, PTL DEF Spec

(* The message of a run that is done has the text of every step once and in  *)
(* order, and its log replays just that text, for any number of steps,       *)
(* workers, takeovers and faults (finalize_run).                             *)
THEOREM AnswersExact == Spec => []ContentSound
<1>1. AnswerInv => ContentSound
  BY DEF AnswerInv
<1> QED BY <1>1, AnswerInvariant, PTL
=============================================================================
