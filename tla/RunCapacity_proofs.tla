------------------------- MODULE RunCapacity_proofs -------------------------
(***************************************************************************)
(* The limits of RunCapacity for any runs, workflows, workers, scopes and  *)
(* bounds: CapacityInv is inductive.  No constant is assumed finite: only  *)
(* finitely many runs have been created, and finitely many workers hold a  *)
(* step, in every state.                                                   *)
(***************************************************************************)
EXTENDS RunCapacity, FiniteSetTheorems, FunctionTheorems, TLAPS

Shapes ==
    /\ run \in [Runs -> {"none", "queued", "running", "failed", "ended", "skipped"}]
    /\ step \in [Runs -> [st : {"none", "pending", "ready", "running", "ended"}, tok : Nat, lapsed : BOOLEAN]]
    /\ admit \in [Flows -> SUBSET [who : {"create", "tick"}, r : Runs, full : BOOLEAN]]
    /\ cur \in [Scopes -> Nat]
    /\ wk \in [Workers -> [pc : {"idle", "reserve", "execute", "release"}, r : Runs \cup {0}, tok : Nat]]
    /\ slack \in BOOLEAN

Created == {r \in Runs : run[r] # "none"}
Busy == {w \in Workers : wk[w].pc # "idle"}
FinitelyMany == IsFiniteSet(Created) /\ IsFiniteSet(Busy)

\* A worker's token is one its step had, and no other worker's.
Tokens ==
    /\ \A w \in Busy : wk[w].r \in Runs /\ wk[w].tok <= step[wk[w].r].tok
    /\ \A v, w \in Busy : Claimed(v) = Claimed(w) => v = w

\* A worker with the token of its step works on a running step, or on a drained one.
Owners ==
    \A w \in Workers :
        wk[w].pc \in {"reserve", "execute"} /\ Owns(w) =>
            step[wk[w].r].st = "running" \/ (run[wk[w].r] = "ended" /\ wk[w].r \in cancel)

Rows ==
    /\ \A r \in Runs : run[r] \in {"none", "skipped"} <=> step[r].st = "none"
    /\ \A r \in Runs : run[r] = "queued" => step[r].st = "pending"
    /\ \A r \in Runs : step[r].st = "running" => run[r] = "running"
    /\ \A r \in Runs : step[r].st = "ready" => run[r] = "running" \/ (run[r] = "ended" /\ r \in cancel)

Uncounted(f) == Of(f, "running") \ resumed

\* One transaction at a time decides about a workflow, its run waits for it, and what it
\* counted is still true of the runs that were not resumed.
Decisions ==
    \A f \in Flows :
        /\ \A t, u \in admit[f] : t = u
        /\ \A t \in admit[f] :
            /\ Flow[t.r] = f
            /\ run[t.r] = (IF t.who = "create" THEN "none" ELSE "queued")
            /\ ~t.full => Cardinality(Uncounted(f)) < MaxParallel

FewRun == \A f \in Flows : Cardinality(Uncounted(f)) <= MaxParallel

\* The claims of a scope that a reconcile has seen are no more than it counted.
SeenIn(s) == {c \in tick.seen : c[1] \in Members[s]}
TickSound ==
    tick # NoTick =>
        /\ tick.scope \in Scopes /\ tick.n \in Nat
        /\ IsFiniteSet(tick.seen) /\ Cardinality(SeenIn(tick.scope)) <= tick.n

\* Reservations are counted, and those that are held are within the limit.
SlotsSound ==
    ~slack => \A s \in Scopes : Cardinality(Holders(s)) <= cur[s] /\ Cardinality(Holders(s)) <= Limit[s]

CapacityInv ==
    Shapes /\ FinitelyMany /\ Tokens /\ Owners /\ Rows /\ Decisions /\ FewRun /\ TickSound /\ SlotsSound

-----------------------------------------------------------------------------
(* Finite sets that a step grows by one element at most *)

LEMMA FiniteGrows ==
    ASSUME NEW S, IsFiniteSet(S), NEW x, NEW T, T \subseteq S \cup {x}
    PROVE  IsFiniteSet(T) /\ Cardinality(T) \in Nat /\ Cardinality(T) <= Cardinality(S) + 1
  <1>1. IsFiniteSet(S \cup {x}) /\ Cardinality(S \cup {x}) <= Cardinality(S) + 1 /\ Cardinality(S) \in Nat
    BY FS_AddElement, FS_CardinalityType
  <1>2. T \in SUBSET (S \cup {x})
    OBVIOUS
  <1>3. IsFiniteSet(T) /\ Cardinality(T) <= Cardinality(S \cup {x})
    BY <1>1, <1>2, FS_Subset
  <1>4. Cardinality(T) \in Nat /\ Cardinality(S \cup {x}) \in Nat
    BY <1>1, <1>3, FS_CardinalityType
  <1> QED
    BY <1>1, <1>3, <1>4

LEMMA FinitelyManyStep ==
    ASSUME FinitelyMany, NEW r, NEW w, Created' \subseteq Created \cup {r}, Busy' \subseteq Busy \cup {w}
    PROVE  FinitelyMany'
  BY FiniteGrows DEF FinitelyMany

LEMMA UncountedFinite ==
    ASSUME FinitelyMany, NEW f
    PROVE  IsFiniteSet(Uncounted(f)) /\ Cardinality(Uncounted(f)) \in Nat
  <1>1. Uncounted(f) \subseteq Created \cup {0}
    BY DEF Uncounted, Of, Created
  <1> QED
    BY <1>1, FiniteGrows DEF FinitelyMany

LEMMA HoldersFinite ==
    ASSUME FinitelyMany, NEW s
    PROVE  IsFiniteSet(Holders(s)) /\ Cardinality(Holders(s)) \in Nat
  <1>1. Holders(s) \subseteq Busy \cup {0}
    BY DEF Holders, Busy
  <1> QED
    BY <1>1, FiniteGrows DEF FinitelyMany

LEMMA CardinalitySubset ==
    ASSUME NEW S, NEW T, IsFiniteSet(S), T \subseteq S
    PROVE  IsFiniteSet(T) /\ Cardinality(T) \in Nat /\ Cardinality(S) \in Nat /\ Cardinality(T) <= Cardinality(S)
  BY FS_Subset, FS_CardinalityType

-----------------------------------------------------------------------------
(* Runs: what a step may do to the rows of workflow_run *)

\* Runs leave "running", or come back through resume_failed; no transaction starts.
LEMMA RunsLeave ==
    ASSUME CapacityInv,
           resumed \subseteq resumed',
           \A r \in Runs : run'[r] = "running" => run[r] = "running" \/ r \in resumed',
           \A f \in Flows : admit'[f] \subseteq admit[f],
           \A f \in Flows : \A t \in admit'[f] : run'[t.r] = run[t.r]
    PROVE  FewRun' /\ Decisions'
  <1>1. \A f : Uncounted(f)' \subseteq Uncounted(f)
    BY DEF Uncounted, Of
  <1>2. \A f : /\ Cardinality(Uncounted(f)') <= Cardinality(Uncounted(f))
               /\ Cardinality(Uncounted(f)') \in Nat /\ Cardinality(Uncounted(f)) \in Nat
    BY <1>1, UncountedFinite, CardinalitySubset DEF CapacityInv
  <1>3. MaxParallel \in Nat
    BY CapacityAssumption
  <1>4. FewRun'
    BY <1>2, <1>3 DEF FewRun, CapacityInv
  <1>5. Decisions'
    BY <1>2, <1>3 DEF Decisions, CapacityInv
  <1> QED
    BY <1>4, <1>5

\* A transaction that counted too few runs starts its own and ends.
LEMMA RunStarts ==
    ASSUME CapacityInv, NEW f \in Flows, NEW t \in admit[f], ~t.full,
           run' = [run EXCEPT ![t.r] = "running"], resumed' = resumed,
           admit' = [admit EXCEPT ![Flow[t.r]] = @ \ {t}]
    PROVE  FewRun' /\ Decisions'
  <1>1. t.r \in Runs /\ Flow[t.r] = f /\ Cardinality(Uncounted(f)) < MaxParallel /\ admit'[f] = {}
    BY DEF CapacityInv, Decisions, Shapes
  <1>2. Uncounted(f)' \subseteq Uncounted(f) \cup {t.r}
    BY DEF CapacityInv, Shapes, Uncounted, Of
  <1>3. Cardinality(Uncounted(f)') <= MaxParallel
    <2>1. IsFiniteSet(Uncounted(f)) /\ Cardinality(Uncounted(f)) \in Nat
      BY UncountedFinite DEF CapacityInv
    <2>2. Cardinality(Uncounted(f)') \in Nat /\ Cardinality(Uncounted(f)') <= Cardinality(Uncounted(f)) + 1
      BY <1>2, <2>1, FiniteGrows
    <2> QED
      BY <1>1, <2>1, <2>2, CapacityAssumption
  <1>4. \A g \in Flows : g # f => Uncounted(g)' = Uncounted(g)
    BY <1>1 DEF CapacityInv, Shapes, Uncounted, Of
  <1>5. FewRun'
    BY <1>3, <1>4 DEF FewRun, CapacityInv
  <1>6. \A g \in Flows : g # f => admit'[g] = admit[g] /\ \A u \in admit[g] : run'[u.r] = run[u.r]
    BY <1>1 DEF CapacityInv, Shapes, Decisions
  <1>7. Decisions'
    BY <1>1, <1>4, <1>6 DEF Decisions, CapacityInv
  <1> QED
    BY <1>5, <1>7

\* A transaction that has the lock counts.
LEMMA CountSound ==
    ASSUME CapacityInv, NEW r \in Runs, Unlocked(Flow[r]),
           NEW who \in {"create", "tick"}, run[r] = (IF who = "create" THEN "none" ELSE "queued"),
           NEW S, Of(Flow[r], "running") \subseteq S, S \subseteq Created,
           Admitting(who, r, Cardinality(S) >= MaxParallel), UNCHANGED <<run, resumed>>
    PROVE  Decisions' /\ FewRun' /\ admit' \in [Flows -> SUBSET [who : {"create", "tick"}, r : Runs, full : BOOLEAN]]
  <1>1. Flow[r] \in Flows
    BY DEF Flows
  <1>2. \A f : Uncounted(f)' = Uncounted(f)
    BY DEF Uncounted, Of
  <1>3. IsFiniteSet(S) /\ Uncounted(Flow[r]) \subseteq S
    BY CardinalitySubset DEF CapacityInv, FinitelyMany, Uncounted
  <1>4. Cardinality(Uncounted(Flow[r])) <= Cardinality(S) /\ Cardinality(S) \in Nat /\ Cardinality(Uncounted(Flow[r])) \in Nat
    BY <1>3, CardinalitySubset
  <1> DEFINE full == Cardinality(S) >= MaxParallel
             t == [who |-> who, r |-> r, full |-> full]
  <1>5. full \in BOOLEAN /\ (~full => Cardinality(Uncounted(Flow[r])) < MaxParallel)
    BY <1>4, CapacityAssumption
  <1> HIDE DEF full
  <1>6. admit' = [admit EXCEPT ![Flow[r]] = {t}]
    BY <1>1 DEF Admitting, Unlocked, CapacityInv, Shapes, full
  <1>7. admit' \in [Flows -> SUBSET [who : {"create", "tick"}, r : Runs, full : BOOLEAN]]
    BY <1>1, <1>5, <1>6 DEF CapacityInv, Shapes
  <1>8. Decisions'
    BY <1>1, <1>2, <1>5, <1>6 DEF Decisions, CapacityInv, Shapes
  <1>9. FewRun'
    BY <1>2 DEF FewRun, CapacityInv
  <1> QED
    BY <1>7, <1>8, <1>9

-----------------------------------------------------------------------------
(* Workers: what a step may do to wk and to the counters *)

LEMMA SlotsKept ==
    ASSUME CapacityInv, UNCHANGED <<slack, cur>>, \A s \in Scopes : Holders(s)' \subseteq Holders(s)
    PROVE  SlotsSound'
  <1>1. \A s \in Scopes : /\ Cardinality(Holders(s)') <= Cardinality(Holders(s))
                          /\ Cardinality(Holders(s)') \in Nat /\ Cardinality(Holders(s)) \in Nat
    BY HoldersFinite, CardinalitySubset DEF CapacityInv
  <1>2. \A s \in Scopes : cur[s] \in Nat /\ Limit[s] \in Nat
    BY CapacityAssumption DEF CapacityInv, Shapes
  <1> QED
    BY <1>1, <1>2 DEF SlotsSound, CapacityInv

\* Worker w ends its work on the step, or goes on to release its slots.
Leaves(w) ==
    \/ wk' = [wk EXCEPT ![w] = Idle]
    \/ wk[w].pc = "execute" /\ Goto(w, "release")

LEMMA LeavesSound ==
    ASSUME CapacityInv, NEW w \in Workers, Leaves(w), \A r \in Runs : step'[r].tok = step[r].tok
    PROVE  /\ wk' \in [Workers -> [pc : {"idle", "reserve", "execute", "release"}, r : Runs \cup {0}, tok : Nat]]
           /\ wk'[w].pc \in {"idle", "release"} /\ \A v \in Workers : v # w => wk'[v] = wk[v]
           /\ Busy' \subseteq Busy
           /\ Tokens'
           /\ \A s \in Scopes : Holders(s)' \subseteq Holders(s)
  <1>1. wk' \in [Workers -> [pc : {"idle", "reserve", "execute", "release"}, r : Runs \cup {0}, tok : Nat]]
    BY DEF CapacityInv, Shapes, Leaves, Goto, Idle
  <1>2. wk'[w].pc \in {"idle", "release"} /\ \A v \in Workers : v # w => wk'[v] = wk[v]
    BY DEF CapacityInv, Shapes, Leaves, Goto, Idle
  <1>3. wk'[w].pc # "idle" => wk[w].pc = "execute" /\ wk'[w].r = wk[w].r /\ wk'[w].tok = wk[w].tok
    BY DEF CapacityInv, Shapes, Leaves, Goto, Idle
  <1>4. Busy' \subseteq Busy /\ \A v \in Busy' : wk'[v].r = wk[v].r /\ wk'[v].tok = wk[v].tok
    BY <1>2, <1>3 DEF Busy
  <1>5. Tokens'
    BY <1>4 DEF Tokens, CapacityInv, Claimed
  <1>6. \A s \in Scopes : Holders(s)' \subseteq Holders(s)
    BY <1>2, <1>3 DEF Holders
  <1> QED
    BY <1>1, <1>2, <1>4, <1>5, <1>6

\* A checkpoint writes the rows of a step whose token the worker still has.
LEMMA SettledSound ==
    ASSUME CapacityInv, NEW w \in Workers, wk[w].pc \in {"reserve", "execute"}, cancel' = cancel,
           NEW st, NEW outcome,
           <<st, outcome>> \in {<<"ended", "ended">>, <<"ended", "failed">>, <<"ready", "running">>},
           Settled(w, st, outcome)
    PROVE  /\ run' \in [Runs -> {"none", "queued", "running", "failed", "ended", "skipped"}]
           /\ step' \in [Runs -> [st : {"none", "pending", "ready", "running", "ended"}, tok : Nat, lapsed : BOOLEAN]]
           /\ Rows'
           /\ \A r \in Runs : /\ step'[r].tok = step[r].tok
                              /\ run'[r] # run[r] => run[r] = "running" /\ run'[r] \in {"ended", "failed"}
           /\ \A v \in Workers : v # w /\ wk[v].pc \in {"reserve", "execute"} /\ Owns(v) =>
                  step'[wk[v].r] = step[wk[v].r] /\ run'[wk[v].r] = run[wk[v].r]
  <1>1. CASE ~Owns(w)
    BY <1>1 DEF Settled, CapacityInv, Shapes, Rows
  <1>2. CASE Owns(w)
    <2> DEFINE r == wk[w].r
    <2>1. r \in Runs /\ w \in Busy
      BY DEF CapacityInv, Tokens, Busy
    <2>2. /\ step' = [step EXCEPT ![r].st = st, ![r].lapsed = FALSE]
          /\ run' = [run EXCEPT ![r] = IF @ = "running" THEN outcome ELSE @]
      BY <1>2 DEF Settled
    <2>3. (step[r].st = "running" /\ run[r] = "running") \/ (run[r] = "ended" /\ r \in cancel)
      BY <1>2, <2>1 DEF CapacityInv, Owners, Rows
    <2>4. st \in {"ready", "ended"} /\ outcome \in {"running", "ended", "failed"} /\ (st = "ready" => outcome = "running")
          /\ (st = "ended" => outcome # "running")
      OBVIOUS
    <2>5. /\ step'[r].st = st /\ step'[r].tok = step[r].tok /\ step'[r].lapsed = FALSE
          /\ step' \in [Runs -> [st : {"none", "pending", "ready", "running", "ended"}, tok : Nat, lapsed : BOOLEAN]]
          /\ \A q \in Runs : q # r => step'[q] = step[q]
      BY <2>1, <2>2, <2>4 DEF CapacityInv, Shapes
    <2>6. /\ run'[r] = IF run[r] = "running" THEN outcome ELSE run[r]
          /\ run' \in [Runs -> {"none", "queued", "running", "failed", "ended", "skipped"}]
          /\ \A q \in Runs : q # r => run'[q] = run[q]
      BY <2>1, <2>2, <2>4 DEF CapacityInv, Shapes
    <2> HIDE DEF r
    <2>7. Rows'
      BY <2>1, <2>3, <2>4, <2>5, <2>6 DEF CapacityInv, Rows
    <2>8. \A v \in Workers : v # w /\ wk[v].pc \in {"reserve", "execute"} /\ Owns(v) => wk[v].r # r /\ wk[v].r \in Runs
      BY <1>2, <2>1 DEF CapacityInv, Tokens, Owns, Busy, Claimed, r
    <2> QED
      BY <2>3, <2>4, <2>5, <2>6, <2>7, <2>8
  <1> QED
    BY <1>1, <1>2

\* What the work of w leaves for the other workers.
LEMMA OwnersAfterSettled ==
    ASSUME CapacityInv, NEW w \in Workers, cancel' = cancel, wk'[w].pc \in {"idle", "release"},
           \A v \in Workers : v # w => wk'[v] = wk[v],
           \A r \in Runs : step'[r].tok = step[r].tok,
           \A v \in Workers : v # w /\ wk[v].pc \in {"reserve", "execute"} /\ Owns(v) =>
                  step'[wk[v].r] = step[wk[v].r] /\ run'[wk[v].r] = run[wk[v].r]
    PROVE  Owners'
  BY DEF CapacityInv, Owners, Owns, Tokens, Busy

-----------------------------------------------------------------------------
(* One lemma per kind of step *)

LEMMA InitInv == Init => CapacityInv
  <1> SUFFICES ASSUME Init PROVE CapacityInv
    OBVIOUS
  <1>1. Shapes
    BY DEF Init, Shapes, Idle
  <1>2. Created = {} /\ Busy = {} /\ (\A f : Uncounted(f) = {}) /\ (\A s : Holders(s) = {})
    BY DEF Init, Created, Busy, Uncounted, Of, Holders, Idle
  <1>3. FinitelyMany /\ Tokens
    BY <1>2, FS_EmptySet DEF FinitelyMany, Tokens
  <1>4. Owners /\ Rows
    BY DEF Init, Owners, Rows, Idle
  <1>a. (\A f : Cardinality(Uncounted(f)) = 0) /\ (\A s : Cardinality(Holders(s)) = 0)
    BY <1>2, FS_EmptySet
  <1>5. Decisions /\ FewRun
    BY <1>a, CapacityAssumption DEF Init, Decisions, FewRun
  <1>6. TickSound
    BY DEF Init, TickSound
  <1>7. SlotsSound
    BY <1>a, CapacityAssumption DEF Init, SlotsSound
  <1> QED
    BY <1>1, <1>3, <1>4, <1>5, <1>6, <1>7 DEF CapacityInv

LEMMA CountInv ==
    ASSUME CapacityInv, NEW r \in Runs, CreateCount(r) \/ PromoteCount(r)
    PROVE  CapacityInv'
  <1>1. UNCHANGED <<run, cancel, step, cur, wk, tick, resumed, slack>>
    BY DEF CreateCount, PromoteCount
  <1>2. Decisions' /\ FewRun' /\ admit' \in [Flows -> SUBSET [who : {"create", "tick"}, r : Runs, full : BOOLEAN]]
    <2>1. CASE CreateCount(r)
      <3> DEFINE S == Of(Flow[r], "queued") \cup Of(Flow[r], "running")
      <3>1. S \subseteq Created /\ Of(Flow[r], "running") \subseteq S
        BY DEF Of, Created
      <3>2. run[r] = "none" /\ Unlocked(Flow[r]) /\ Admitting("create", r, Cardinality(S) >= MaxParallel)
        BY <2>1 DEF CreateCount
      <3> QED
        BY <1>1, <3>1, <3>2, CountSound
    <2>2. CASE PromoteCount(r)
      <3> DEFINE S == Of(Flow[r], "running")
      <3>1. S \subseteq Created /\ Of(Flow[r], "running") \subseteq S
        BY DEF Of, Created
      <3>2. run[r] = "queued" /\ Unlocked(Flow[r]) /\ Admitting("tick", r, Cardinality(S) >= MaxParallel)
        BY <2>2 DEF PromoteCount
      <3> QED
        BY <1>1, <3>1, <3>2, CountSound
    <2> QED
      BY <2>1, <2>2
  <1>3. Shapes'
    BY <1>1, <1>2 DEF Shapes, CapacityInv
  <1>4. FinitelyMany' /\ Tokens' /\ Owners' /\ Rows'
    BY <1>1 DEF CapacityInv, FinitelyMany, Created, Busy, Tokens, Claimed, Owners, Owns, Rows
  <1>5. TickSound' /\ SlotsSound'
    BY <1>1 DEF CapacityInv, TickSound, SeenIn, SlotsSound, Holders
  <1> QED
    BY <1>2, <1>3, <1>4, <1>5 DEF CapacityInv

\* The rows of the run of a transaction that ends: nobody works on its step.
LEMMA AdmitInv ==
    ASSUME CapacityInv, NEW f \in Flows, NEW t \in admit[f], CreateInsert(t) \/ Promote(t) \/ Rollback(t)
    PROVE  CapacityInv'
  <1>1. UNCHANGED <<cancel, cur, wk, tick, resumed, slack>> /\ admit' = [admit EXCEPT ![Flow[t.r]] = @ \ {t}]
    BY DEF CreateInsert, Promote, Rollback
  <1>2. /\ t.r \in Runs /\ Flow[t.r] = f /\ t.who \in {"create", "tick"} /\ t.full \in BOOLEAN
        /\ run[t.r] = (IF t.who = "create" THEN "none" ELSE "queued")
        /\ step[t.r].st = (IF t.who = "create" THEN "none" ELSE "pending")
    BY DEF CapacityInv, Shapes, Decisions, Rows
  <1>3. \A w \in Workers : wk[w].pc \in {"reserve", "execute"} /\ Owns(w) => wk[w].r # t.r
    BY <1>2 DEF CapacityInv, Owners
  <1>4. \/ ~t.full /\ run' = [run EXCEPT ![t.r] = "running"] /\ step' = [step EXCEPT ![t.r].st = "ready"]
        \/ t.who = "create" /\ run' = [run EXCEPT ![t.r] = "queued"] /\ step' = [step EXCEPT ![t.r].st = "pending"]
        \/ t.who = "create" /\ run' = [run EXCEPT ![t.r] = "skipped"] /\ UNCHANGED step
        \/ UNCHANGED <<run, step>>
    BY <1>2 DEF CreateInsert, Promote, Rollback
  <1>a. /\ admit' \in [Flows -> SUBSET [who : {"create", "tick"}, r : Runs, full : BOOLEAN]]
        /\ admit'[f] \subseteq admit[f] \ {t} /\ \A g \in Flows : g # f => admit'[g] = admit[g]
    BY <1>1, <1>2 DEF CapacityInv, Shapes
  <1>b. /\ run' \in [Runs -> {"none", "queued", "running", "failed", "ended", "skipped"}]
        /\ step' \in [Runs -> [st : {"none", "pending", "ready", "running", "ended"}, tok : Nat, lapsed : BOOLEAN]]
        /\ \A q \in Runs : step'[q].tok = step[q].tok /\ (q # t.r => run'[q] = run[q] /\ step'[q] = step[q])
        /\ \/ run'[t.r] = "running" /\ step'[t.r].st = "ready"
           \/ run'[t.r] = "queued" /\ step'[t.r].st = "pending"
           \/ run'[t.r] \in {"none", "skipped"} /\ step'[t.r].st = "none"
    <2>1. CASE ~t.full /\ run' = [run EXCEPT ![t.r] = "running"] /\ step' = [step EXCEPT ![t.r].st = "ready"]
      BY <1>2, <2>1 DEF CapacityInv, Shapes
    <2>2. CASE t.who = "create" /\ run' = [run EXCEPT ![t.r] = "queued"] /\ step' = [step EXCEPT ![t.r].st = "pending"]
      BY <1>2, <2>2 DEF CapacityInv, Shapes
    <2>3. CASE t.who = "create" /\ run' = [run EXCEPT ![t.r] = "skipped"] /\ UNCHANGED step
      BY <1>2, <2>3 DEF CapacityInv, Shapes
    <2>4. CASE UNCHANGED <<run, step>>
      BY <1>2, <2>4 DEF CapacityInv, Shapes
    <2> QED
      BY <1>4, <2>1, <2>2, <2>3, <2>4
  <1>5. /\ run' \in [Runs -> {"none", "queued", "running", "failed", "ended", "skipped"}]
        /\ step' \in [Runs -> [st : {"none", "pending", "ready", "running", "ended"}, tok : Nat, lapsed : BOOLEAN]]
        /\ admit' \in [Flows -> SUBSET [who : {"create", "tick"}, r : Runs, full : BOOLEAN]]
        /\ admit'[f] \subseteq admit[f] \ {t} /\ \A g \in Flows : g # f => admit'[g] = admit[g]
        /\ \A q \in Runs : step'[q].tok = step[q].tok /\ (q # t.r => run'[q] = run[q] /\ step'[q] = step[q])
    BY <1>a, <1>b
  <1>6. Shapes'
    BY <1>1, <1>5 DEF Shapes, CapacityInv
  <1>7. FinitelyMany'
    <2>1. Created' \subseteq Created \cup {t.r} /\ Busy' \subseteq Busy \cup {0}
      BY <1>1, <1>5 DEF Created, Busy
    <2> QED
      BY <2>1, FinitelyManyStep DEF CapacityInv
  <1>8. Tokens'
    BY <1>1, <1>5 DEF CapacityInv, Tokens, Busy, Claimed
  <1>9. Owners'
    BY <1>1, <1>3, <1>5 DEF CapacityInv, Owners, Owns, Tokens, Busy
  <1>10. Rows'
    BY <1>1, <1>2, <1>b DEF CapacityInv, Rows
  <1>11. Decisions' /\ FewRun'
    <2>1. CASE ~t.full /\ run' = [run EXCEPT ![t.r] = "running"]
      BY <2>1, <1>1, RunStarts
    <2>2. CASE run'[t.r] # "running"
      <3>1. \A g \in Flows : admit'[g] \subseteq admit[g]
        BY <1>5
      <3>2. \A g \in Flows : \A u \in admit'[g] : u.r # t.r /\ u.r \in Runs
        BY <1>2, <1>5 DEF CapacityInv, Decisions, Shapes
      <3>3. \A r \in Runs : run'[r] = "running" => run[r] = "running"
        BY <2>2, <1>5
      <3> QED
        BY <1>1, <1>5, <3>1, <3>2, <3>3, RunsLeave
    <2>3. run'[t.r] # "running" \/ (~t.full /\ run' = [run EXCEPT ![t.r] = "running"])
      BY <1>2, <1>4 DEF CapacityInv, Shapes
    <2> QED
      BY <2>1, <2>2, <2>3
  <1>12. TickSound' /\ SlotsSound'
    BY <1>1 DEF CapacityInv, TickSound, SeenIn, SlotsSound, Holders
  <1> QED
    BY <1>6, <1>7, <1>8, <1>9, <1>10, <1>11, <1>12 DEF CapacityInv

LEMMA ClaimInv ==
    ASSUME CapacityInv, NEW w \in Workers, NEW r \in Runs, Claim(w, r)
    PROVE  CapacityInv'
  <1>1. UNCHANGED <<run, cancel, admit, cur, tick, resumed, slack>>
    BY DEF Claim
  <1>2. /\ step' = [step EXCEPT ![r] = [st |-> "running", tok |-> @.tok + 1, lapsed |-> FALSE]]
        /\ wk' = [wk EXCEPT ![w] = [pc |-> "reserve", r |-> r, tok |-> step[r].tok + 1]]
        /\ wk[w].pc = "idle" /\ step[r].st = "ready" /\ r \notin cancel
    BY DEF Claim, IsAt
  <1>3. run[r] = "running" /\ step[r].tok \in Nat
    BY <1>2 DEF CapacityInv, Rows, Shapes
  <1>4. /\ wk'[w] = [pc |-> "reserve", r |-> r, tok |-> step[r].tok + 1]
        /\ \A v \in Workers : v # w => wk'[v] = wk[v]
        /\ step'[r] = [st |-> "running", tok |-> step[r].tok + 1, lapsed |-> FALSE]
        /\ \A q \in Runs : q # r => step'[q] = step[q]
    BY <1>2 DEF CapacityInv, Shapes
  <1>5. Shapes'
    BY <1>1, <1>2, <1>3 DEF CapacityInv, Shapes
  <1>6. FinitelyMany'
    <2>1. Created' \subseteq Created \cup {r} /\ Busy' \subseteq Busy \cup {w}
      BY <1>1, <1>4 DEF Created, Busy
    <2> QED
      BY <2>1, FinitelyManyStep DEF CapacityInv
  <1>7. \A v \in Busy : v # w /\ wk[v].r \in Runs /\ wk[v].tok \in Nat /\ wk[v].tok <= step[wk[v].r].tok /\ step[wk[v].r].tok \in Nat
    BY <1>2 DEF CapacityInv, Tokens, Busy, Shapes
  <1>8. Tokens'
    <2>1. Busy' = Busy \cup {w} /\ \A v \in Busy : wk'[v] = wk[v]
      BY <1>4, <1>7 DEF Busy
    <2>2. \A v \in Busy' : wk'[v].r \in Runs /\ wk'[v].tok <= step'[wk'[v].r].tok
      BY <1>3, <1>4, <1>7, <2>1
    <2>3. \A v \in Busy : wk[v].r = r => wk[v].tok # step[r].tok + 1
      BY <1>3, <1>7
    <2>4. \A v, u \in Busy' : Claimed(v)' = Claimed(u)' => v = u
      BY <1>4, <2>1, <2>3 DEF CapacityInv, Tokens, Claimed
    <2> QED
      BY <2>2, <2>4 DEF Tokens
  <1>9. Owners'
    <2> SUFFICES ASSUME NEW v \in Workers, wk'[v].pc \in {"reserve", "execute"}, Owns(v)', v # w
                 PROVE  step'[wk'[v].r].st = "running" \/ (run'[wk'[v].r] = "ended" /\ wk'[v].r \in cancel')
      BY <1>4 DEF Owners
    <2>1. v \in Busy /\ wk'[v] = wk[v]
      BY <1>4 DEF Busy
    <2>2. wk[v].r # r
      BY <1>3, <1>4, <1>7, <2>1 DEF Owns
    <2> QED
      BY <1>1, <1>4, <1>7, <2>1, <2>2 DEF CapacityInv, Owners, Owns
  <1>10. Rows'
    BY <1>1, <1>3, <1>4 DEF CapacityInv, Rows
  <1>11. Decisions' /\ FewRun' /\ TickSound'
    BY <1>1 DEF CapacityInv, Decisions, FewRun, Uncounted, Of, TickSound, SeenIn
  <1>12. SlotsSound'
    <2>1. \A s \in Scopes : Holders(s)' \subseteq Holders(s)
      BY <1>4 DEF Holders
    <2> QED
      BY <1>1, <2>1, SlotsKept
  <1> QED
    BY <1>5, <1>6, <1>8, <1>9, <1>10, <1>11, <1>12 DEF CapacityInv

LEMMA TryAcquireInv ==
    ASSUME CapacityInv, NEW w \in Workers, TryAcquire(w)
    PROVE  CapacityInv'
  <1> DEFINE r == wk[w].r
  <1>1. UNCHANGED <<run, cancel, step, admit, tick, resumed, slack>>
    BY DEF TryAcquire
  <1>2. /\ wk[w].pc = "reserve" /\ wk' = [wk EXCEPT ![w].pc = "execute"]
        /\ cur' = [s \in Scopes |-> IF s \in ScopesOf(r) THEN cur[s] + 1 ELSE cur[s]]
        /\ \A s \in ScopesOf(r) : cur[s] < Limit[s]
    BY DEF TryAcquire, IsAt, Goto, HasRoom
  <1>3. /\ wk'[w] = [wk[w] EXCEPT !.pc = "execute"] /\ \A v \in Workers : v # w => wk'[v] = wk[v]
        /\ \A v \in Workers : wk'[v].r = wk[v].r /\ wk'[v].tok = wk[v].tok
        /\ Busy' = Busy /\ r \in Runs
    BY <1>2 DEF CapacityInv, Shapes, Busy, Tokens
  <1>4. Shapes'
    BY <1>1, <1>2, <1>3 DEF CapacityInv, Shapes
  <1>5. FinitelyMany' /\ Tokens'
    BY <1>1, <1>3 DEF CapacityInv, FinitelyMany, Created, Tokens, Claimed, Busy
  <1>6. Owners'
    BY <1>1, <1>2, <1>3 DEF CapacityInv, Owners, Owns
  <1>7. Rows' /\ Decisions' /\ FewRun' /\ TickSound'
    BY <1>1 DEF CapacityInv, Rows, Decisions, FewRun, Uncounted, Of, TickSound, SeenIn
  <1>8. SlotsSound'
    <2> SUFFICES ASSUME ~slack, NEW s \in Scopes
                 PROVE  Cardinality(Holders(s)') <= cur'[s] /\ Cardinality(Holders(s)') <= Limit[s]
      BY <1>1 DEF SlotsSound
    <2>1. /\ Cardinality(Holders(s)) <= cur[s] /\ Cardinality(Holders(s)) <= Limit[s]
          /\ cur[s] \in Nat /\ Limit[s] \in Nat
      BY CapacityAssumption DEF CapacityInv, SlotsSound, Shapes
    <2>2. IsFiniteSet(Holders(s)) /\ Cardinality(Holders(s)) \in Nat
      BY HoldersFinite DEF CapacityInv
    <2>3. CASE s \in ScopesOf(r)
      <3>1. Holders(s)' \subseteq Holders(s) \cup {w}
        BY <1>3 DEF Holders
      <3>2. Cardinality(Holders(s)') \in Nat /\ Cardinality(Holders(s)') <= Cardinality(Holders(s)) + 1
        BY <2>2, <3>1, FiniteGrows
      <3>3. cur'[s] = cur[s] + 1 /\ cur[s] < Limit[s]
        BY <1>2, <2>3
      <3> QED
        BY <2>1, <2>2, <3>2, <3>3
    <2>4. CASE s \notin ScopesOf(r)
      <3>1. Holders(s)' = Holders(s) /\ cur'[s] = cur[s]
        BY <1>2, <1>3, <2>4 DEF Holders, ScopesOf
      <3> QED
        BY <2>1, <3>1
    <2> QED
      BY <2>3, <2>4
  <1> QED
    BY <1>4, <1>5, <1>6, <1>7, <1>8 DEF CapacityInv

\* The end of a worker's step: a checkpoint, or nothing, is written, and no slot is given back.
LEMMA EndOfWorkInv ==
    ASSUME CapacityInv, NEW w \in Workers,
           WaitTurn(w) \/ AcquireError(w) \/ Checkpoint(w) \/ CheckpointError(w) \/ Crash(w)
    PROVE  CapacityInv'
  <1>1. UNCHANGED <<cancel, admit, cur, tick, resumed, slack>>
    BY DEF WaitTurn, AcquireError, Checkpoint, CheckpointError, Crash
  <1>2. Leaves(w)
    BY DEF WaitTurn, AcquireError, Checkpoint, CheckpointError, Crash, Leaves, IsAt
  <1>3. \/ UNCHANGED <<run, step>>
        \/ /\ wk[w].pc \in {"reserve", "execute"}
           /\ Settled(w, "ended", "ended") \/ Settled(w, "ended", "failed") \/ Settled(w, "ready", "running")
    BY DEF WaitTurn, AcquireError, Checkpoint, CheckpointError, Crash, IsAt
  <1>4. /\ run' \in [Runs -> {"none", "queued", "running", "failed", "ended", "skipped"}]
        /\ step' \in [Runs -> [st : {"none", "pending", "ready", "running", "ended"}, tok : Nat, lapsed : BOOLEAN]]
        /\ Rows'
        /\ \A r \in Runs : /\ step'[r].tok = step[r].tok
                           /\ run'[r] # run[r] => run[r] = "running" /\ run'[r] \in {"ended", "failed"}
        /\ \A v \in Workers : v # w /\ wk[v].pc \in {"reserve", "execute"} /\ Owns(v) =>
               step'[wk[v].r] = step[wk[v].r] /\ run'[wk[v].r] = run[wk[v].r]
    <2>1. CASE UNCHANGED <<run, step>>
      BY <1>1, <2>1 DEF CapacityInv, Shapes, Rows
    <2>2. CASE wk[w].pc \in {"reserve", "execute"} /\ Settled(w, "ended", "ended")
      BY <1>1, <2>2, SettledSound
    <2>3. CASE wk[w].pc \in {"reserve", "execute"} /\ Settled(w, "ended", "failed")
      BY <1>1, <2>3, SettledSound
    <2>4. CASE wk[w].pc \in {"reserve", "execute"} /\ Settled(w, "ready", "running")
      BY <1>1, <2>4, SettledSound
    <2> QED
      BY <1>3, <2>1, <2>2, <2>3, <2>4
  <1>5. /\ wk' \in [Workers -> [pc : {"idle", "reserve", "execute", "release"}, r : Runs \cup {0}, tok : Nat]]
        /\ wk'[w].pc \in {"idle", "release"} /\ \A v \in Workers : v # w => wk'[v] = wk[v]
        /\ Busy' \subseteq Busy /\ Tokens'
        /\ \A s \in Scopes : Holders(s)' \subseteq Holders(s)
    BY <1>2, <1>4, LeavesSound
  <1>6. Shapes'
    BY <1>1, <1>4, <1>5 DEF Shapes, CapacityInv
  <1>7. FinitelyMany'
    <2>1. Created' \subseteq Created \cup {0} /\ Busy' \subseteq Busy \cup {w}
      BY <1>4, <1>5 DEF Created
    <2> QED
      BY <2>1, FinitelyManyStep DEF CapacityInv
  <1>8. Owners'
    BY <1>1, <1>4, <1>5, OwnersAfterSettled
  <1>9. FewRun' /\ Decisions'
    <2>1. \A r \in Runs : run'[r] = "running" => run[r] = "running"
      BY <1>4
    <2>2. \A f \in Flows : \A t \in admit[f] : t.r \in Runs /\ run[t.r] # "running"
      BY DEF CapacityInv, Decisions, Shapes
    <2>3. \A f \in Flows : \A t \in admit'[f] : run'[t.r] = run[t.r]
      BY <1>1, <1>4, <2>2
    <2> QED
      BY <1>1, <2>1, <2>3, RunsLeave
  <1>10. TickSound'
    BY <1>1 DEF CapacityInv, TickSound, SeenIn
  <1>11. SlotsSound'
    BY <1>1, <1>5, SlotsKept
  <1> QED
    BY <1>4, <1>5, <1>6, <1>7, <1>8, <1>9, <1>10, <1>11 DEF CapacityInv

LEMMA ReleaseInv ==
    ASSUME CapacityInv, NEW w \in Workers, Release(w)
    PROVE  CapacityInv'
  <1>1. UNCHANGED <<run, cancel, step, admit, tick, resumed, slack>>
    BY DEF Release
  <1>2. /\ wk[w].pc = "release" /\ Leaves(w) /\ wk' = [wk EXCEPT ![w] = Idle]
        /\ \/ cur' = [s \in Scopes |-> IF s \in ScopesOf(wk[w].r) /\ cur[s] > 0 THEN cur[s] - 1 ELSE cur[s]]
           \/ UNCHANGED cur
    BY DEF Release, Leaves, IsAt
  <1>3. /\ wk' \in [Workers -> [pc : {"idle", "reserve", "execute", "release"}, r : Runs \cup {0}, tok : Nat]]
        /\ wk'[w].pc = "idle" /\ \A v \in Workers : v # w => wk'[v] = wk[v]
        /\ Busy' \subseteq Busy /\ Tokens'
        /\ \A s \in Scopes : Holders(s)' \subseteq Holders(s)
    <2>1. wk'[w].pc = "idle"
      BY <1>2 DEF CapacityInv, Shapes, Idle
    <2> QED
      BY <1>1, <1>2, <2>1, LeavesSound
  <1>4. cur' \in [Scopes -> Nat]
    BY <1>2 DEF CapacityInv, Shapes
  <1>5. Shapes'
    BY <1>1, <1>3, <1>4 DEF Shapes, CapacityInv
  <1>6. FinitelyMany'
    <2>1. Created' \subseteq Created \cup {0} /\ Busy' \subseteq Busy \cup {w}
      BY <1>1, <1>3 DEF Created
    <2> QED
      BY <2>1, FinitelyManyStep DEF CapacityInv
  <1>7. Owners'
    BY <1>1, <1>3, OwnersAfterSettled
  <1>8. Rows' /\ Decisions' /\ FewRun' /\ TickSound'
    BY <1>1 DEF CapacityInv, Rows, Decisions, FewRun, Uncounted, Of, TickSound, SeenIn
  <1>9. SlotsSound'
    <2>1. CASE UNCHANGED cur
      BY <1>1, <1>3, <2>1, SlotsKept
    <2>2. CASE cur' = [s \in Scopes |-> IF s \in ScopesOf(wk[w].r) /\ cur[s] > 0 THEN cur[s] - 1 ELSE cur[s]]
      <3> SUFFICES ASSUME ~slack, NEW s \in Scopes
                   PROVE  Cardinality(Holders(s)') <= cur'[s] /\ Cardinality(Holders(s)') <= Limit[s]
        BY <1>1 DEF SlotsSound
      <3>1. /\ Cardinality(Holders(s)) <= cur[s] /\ Cardinality(Holders(s)) <= Limit[s]
            /\ cur[s] \in Nat /\ Limit[s] \in Nat
        BY CapacityAssumption DEF CapacityInv, SlotsSound, Shapes
      <3>2. IsFiniteSet(Holders(s)) /\ Cardinality(Holders(s)) \in Nat
        BY HoldersFinite DEF CapacityInv
      <3>3. CASE s \in ScopesOf(wk[w].r)
        <4>1. w \in Holders(s) /\ Holders(s)' \subseteq Holders(s) \ {w}
          BY <1>2, <1>3, <3>3 DEF Holders, ScopesOf
        <4>2. IsFiniteSet(Holders(s) \ {w}) /\ Cardinality(Holders(s) \ {w}) = Cardinality(Holders(s)) - 1
          BY <3>2, <4>1, FS_RemoveElement
        <4>3. /\ Cardinality(Holders(s)') <= Cardinality(Holders(s) \ {w})
              /\ Cardinality(Holders(s)') \in Nat /\ Cardinality(Holders(s) \ {w}) \in Nat
          BY <4>1, <4>2, CardinalitySubset
        <4>4. cur'[s] = IF cur[s] > 0 THEN cur[s] - 1 ELSE cur[s]
          BY <2>2, <3>3
        <4> QED
          BY <3>1, <3>2, <4>2, <4>3, <4>4
      <3>4. CASE s \notin ScopesOf(wk[w].r)
        <4>1. /\ Cardinality(Holders(s)') <= Cardinality(Holders(s))
              /\ Cardinality(Holders(s)') \in Nat
          BY <1>3, <3>2, CardinalitySubset
        <4>2. cur'[s] = cur[s]
          BY <2>2, <3>4
        <4> QED
          BY <3>1, <3>2, <4>1, <4>2
      <3> QED
        BY <3>3, <3>4
    <2> QED
      BY <1>2, <2>1, <2>2
  <1> QED
    BY <1>3, <1>5, <1>6, <1>7, <1>8, <1>9 DEF CapacityInv

-----------------------------------------------------------------------------
(* Leases, cancellation, resumption and reconciliation *)

\* Steps that only move a lease.
LEMMA LeaseInv ==
    ASSUME CapacityInv, NEW r \in Runs, Lapse(r) \/ Extend(r) \/ Reclaim(r)
    PROVE  CapacityInv'
  <1>1. UNCHANGED <<run, cancel, admit, cur, wk, tick, resumed, slack>>
    BY DEF Lapse, Extend, Reclaim
  <1>2. /\ step[r].st = "running"
        /\ \/ step' = [step EXCEPT ![r].lapsed = TRUE] \/ step' = [step EXCEPT ![r].lapsed = FALSE]
           \/ /\ step' = [step EXCEPT ![r] = [st |-> "ready", tok |-> @.tok + 1, lapsed |-> FALSE]]
              /\ run[r] = "running"
    BY DEF Lapse, Extend, Reclaim
  <1>3. /\ step' \in [Runs -> [st : {"none", "pending", "ready", "running", "ended"}, tok : Nat, lapsed : BOOLEAN]]
        /\ \A q \in Runs : q # r => step'[q] = step[q]
        /\ \/ step'[r].st = "running" /\ step'[r].tok = step[r].tok
           \/ step'[r].st = "ready" /\ step'[r].tok = step[r].tok + 1
    <2>1. step[r].tok \in Nat
      BY DEF CapacityInv, Shapes
    <2>2. CASE step' = [step EXCEPT ![r].lapsed = TRUE]
      BY <1>2, <2>2 DEF CapacityInv, Shapes
    <2>3. CASE step' = [step EXCEPT ![r].lapsed = FALSE]
      BY <1>2, <2>3 DEF CapacityInv, Shapes
    <2>4. CASE step' = [step EXCEPT ![r] = [st |-> "ready", tok |-> @.tok + 1, lapsed |-> FALSE]]
      BY <2>1, <2>4 DEF CapacityInv, Shapes
    <2> QED
      BY <1>2, <2>2, <2>3, <2>4
  <1>4. run[r] = "running"
    BY <1>2 DEF CapacityInv, Rows
  <1>5. Shapes'
    BY <1>1, <1>3 DEF Shapes, CapacityInv
  <1>6. FinitelyMany'
    BY <1>1 DEF CapacityInv, FinitelyMany, Created, Busy
  <1>7. \A w \in Busy : wk[w].r \in Runs /\ wk[w].tok \in Nat /\ wk[w].tok <= step[wk[w].r].tok /\ step[wk[w].r].tok \in Nat
    BY DEF CapacityInv, Tokens, Busy, Shapes
  <1>8. Tokens'
    <2>1. \A w \in Busy : wk[w].tok <= step'[wk[w].r].tok
      BY <1>3, <1>7
    <2> QED
      BY <1>1, <2>1 DEF CapacityInv, Tokens, Busy, Claimed
  <1>9. Owners'
    <2> SUFFICES ASSUME NEW w \in Workers, wk[w].pc \in {"reserve", "execute"}, step'[wk[w].r].tok = wk[w].tok
                 PROVE  step'[wk[w].r].st = "running" \/ (run[wk[w].r] = "ended" /\ wk[w].r \in cancel)
      BY <1>1 DEF Owners, Owns
    <2>1. w \in Busy
      BY DEF Busy
    <2>2. CASE wk[w].r = r
      BY <1>3, <1>7, <2>1, <2>2
    <2>3. CASE wk[w].r # r
      BY <1>3, <1>7, <2>1, <2>3 DEF CapacityInv, Owners, Owns
    <2> QED
      BY <2>2, <2>3
  <1>10. Rows'
    BY <1>1, <1>2, <1>3, <1>4 DEF CapacityInv, Rows
  <1>11. Decisions' /\ FewRun' /\ TickSound' /\ SlotsSound'
    BY <1>1 DEF CapacityInv, Decisions, FewRun, Uncounted, Of, TickSound, SeenIn, SlotsSound, Holders
  <1> QED
    BY <1>5, <1>6, <1>8, <1>9, <1>10, <1>11 DEF CapacityInv

\* A run is drained only under the worker whose step has lapsed; that worker may still write it.
LEMMA DrainInv ==
    ASSUME CapacityInv, NEW r \in Runs, RequestCancel(r) \/ DrainCancelRequested(r)
    PROVE  CapacityInv'
  <1>1. UNCHANGED <<admit, cur, wk, tick, resumed, slack>> /\ cancel' = cancel \cup {r} /\ DrainOne(r)
    BY DEF RequestCancel, DrainCancelRequested
  <1>2. /\ run[r] \in {"queued", "running"} /\ \A t \in admit[Flow[r]] : t.r # r
        /\ \/ UNCHANGED <<run, step>>
           \/ run' = [run EXCEPT ![r] = "ended"] /\ step' = [step EXCEPT ![r].st = "ended"]
    BY <1>1 DEF DrainOne
  <1>3. /\ run' \in [Runs -> {"none", "queued", "running", "failed", "ended", "skipped"}]
        /\ step' \in [Runs -> [st : {"none", "pending", "ready", "running", "ended"}, tok : Nat, lapsed : BOOLEAN]]
        /\ \A q \in Runs : step'[q].tok = step[q].tok /\ (q # r => run'[q] = run[q] /\ step'[q] = step[q])
        /\ \/ run'[r] = run[r] /\ step'[r] = step[r]
           \/ run'[r] = "ended" /\ step'[r].st = "ended"
    <2>1. CASE UNCHANGED <<run, step>>
      BY <2>1 DEF CapacityInv, Shapes
    <2>2. CASE run' = [run EXCEPT ![r] = "ended"] /\ step' = [step EXCEPT ![r].st = "ended"]
      BY <2>2 DEF CapacityInv, Shapes
    <2> QED
      BY <1>2, <2>1, <2>2
  <1>4. Shapes'
    BY <1>1, <1>3 DEF Shapes, CapacityInv
  <1>5. FinitelyMany'
    <2>1. Created' \subseteq Created \cup {r} /\ Busy' \subseteq Busy \cup {0}
      BY <1>1, <1>3 DEF Created, Busy
    <2> QED
      BY <2>1, FinitelyManyStep DEF CapacityInv
  <1>6. Tokens'
    BY <1>1, <1>3 DEF CapacityInv, Tokens, Busy, Claimed
  <1>7. Owners'
    <2> SUFFICES ASSUME NEW w \in Workers, wk[w].pc \in {"reserve", "execute"}, step'[wk[w].r].tok = wk[w].tok
                 PROVE  step'[wk[w].r].st = "running" \/ (run'[wk[w].r] = "ended" /\ wk[w].r \in cancel')
      BY <1>1 DEF Owners, Owns
    <2>1. wk[w].r \in Runs
      BY DEF CapacityInv, Tokens, Busy
    <2>2. step[wk[w].r].st = "running" \/ (run[wk[w].r] = "ended" /\ wk[w].r \in cancel)
      BY <1>3, <2>1 DEF CapacityInv, Owners, Owns
    <2> QED
      BY <1>1, <1>3, <2>1, <2>2
  <1>8. Rows'
    BY <1>1, <1>2, <1>3 DEF CapacityInv, Rows
  <1>9. Decisions' /\ FewRun'
    <2>1. \A q \in Runs : run'[q] = "running" => run[q] = "running"
      BY <1>3
    <2>2. \A f \in Flows : \A t \in admit[f] : t.r \in Runs /\ t.r # r
      BY <1>2 DEF CapacityInv, Decisions, Shapes
    <2>3. \A f \in Flows : \A t \in admit'[f] : run'[t.r] = run[t.r]
      BY <1>1, <1>3, <2>2
    <2> QED
      BY <1>1, <2>1, <2>3, RunsLeave
  <1>10. TickSound' /\ SlotsSound'
    BY <1>1 DEF CapacityInv, TickSound, SeenIn, SlotsSound, Holders
  <1> QED
    BY <1>4, <1>5, <1>6, <1>7, <1>8, <1>9, <1>10 DEF CapacityInv

LEMMA ResumeInv ==
    ASSUME CapacityInv, NEW r \in Runs, Resume(r)
    PROVE  CapacityInv'
  <1>1. /\ UNCHANGED <<admit, cur, wk, tick, slack>> /\ cancel' = cancel \ {r} /\ resumed' = resumed \cup {r}
        /\ run[r] = "failed" /\ run' = [run EXCEPT ![r] = "running"] /\ step' = [step EXCEPT ![r].st = "ready"]
    BY DEF Resume
  <1>2. /\ run' \in [Runs -> {"none", "queued", "running", "failed", "ended", "skipped"}]
        /\ step' \in [Runs -> [st : {"none", "pending", "ready", "running", "ended"}, tok : Nat, lapsed : BOOLEAN]]
        /\ \A q \in Runs : step'[q].tok = step[q].tok /\ (q # r => run'[q] = run[q] /\ step'[q] = step[q])
        /\ run'[r] = "running" /\ step'[r].st = "ready"
    BY <1>1 DEF CapacityInv, Shapes
  <1>3. Shapes'
    BY <1>1, <1>2 DEF Shapes, CapacityInv
  <1>4. FinitelyMany'
    <2>1. Created' \subseteq Created \cup {r} /\ Busy' \subseteq Busy \cup {0}
      BY <1>1, <1>2 DEF Created, Busy
    <2> QED
      BY <2>1, FinitelyManyStep DEF CapacityInv
  <1>5. Tokens'
    BY <1>1, <1>2 DEF CapacityInv, Tokens, Busy, Claimed
  <1>6. Owners'
    <2> SUFFICES ASSUME NEW w \in Workers, wk[w].pc \in {"reserve", "execute"}, step'[wk[w].r].tok = wk[w].tok
                 PROVE  step'[wk[w].r].st = "running" \/ (run'[wk[w].r] = "ended" /\ wk[w].r \in cancel')
      BY <1>1 DEF Owners, Owns
    <2>1. wk[w].r \in Runs
      BY DEF CapacityInv, Tokens, Busy
    <2>2. step[wk[w].r].st = "running" \/ (run[wk[w].r] = "ended" /\ wk[w].r \in cancel)
      BY <1>2, <2>1 DEF CapacityInv, Owners, Owns
    <2>3. wk[w].r # r
      BY <1>1, <2>2 DEF CapacityInv, Rows
    <2> QED
      BY <1>1, <1>2, <2>1, <2>2, <2>3
  <1>7. Rows'
    BY <1>1, <1>2 DEF CapacityInv, Rows
  <1>8. Decisions' /\ FewRun'
    <2>1. \A q \in Runs : run'[q] = "running" => run[q] = "running" \/ q \in resumed'
      BY <1>1, <1>2
    <2>2. \A f \in Flows : \A t \in admit[f] : t.r \in Runs /\ t.r # r
      BY <1>1 DEF CapacityInv, Decisions, Shapes
    <2>3. \A f \in Flows : \A t \in admit'[f] : run'[t.r] = run[t.r]
      BY <1>1, <1>2, <2>2
    <2> QED
      BY <1>1, <2>1, <2>3, RunsLeave
  <1>9. TickSound' /\ SlotsSound'
    BY <1>1 DEF CapacityInv, TickSound, SeenIn, SlotsSound, Holders
  <1> QED
    BY <1>3, <1>4, <1>5, <1>6, <1>7, <1>8, <1>9 DEF CapacityInv

LEMMA ReconcileCountInv ==
    ASSUME CapacityInv, NEW s \in Scopes, ReconcileCount(s)
    PROVE  CapacityInv'
  <1>1. UNCHANGED <<run, cancel, step, admit, cur, wk, resumed, slack>>
    BY DEF ReconcileCount
  <1> DEFINE B == {v \in Workers : ~IsAt(v, "idle") /\ Owns(v) /\ step[wk[v].r].st = "running"}
             seen == {Claimed(w) : w \in B}
             S == {c \in seen : c[1] \in Members[s]}
  <1>2. tick' = [scope |-> s, n |-> Cardinality(Counted(s)), seen |-> seen]
    BY DEF ReconcileCount
  <1>3. B \subseteq Busy /\ IsFiniteSet(B)
    <2>1. B \subseteq Busy
      BY DEF Busy, IsAt
    <2> QED
      BY <2>1, CardinalitySubset DEF CapacityInv, FinitelyMany
  <1>4. IsFiniteSet(seen)
    <2> DEFINE g == [w \in B |-> Claimed(w)]
    <2>1. g \in Surjection(B, seen)
      BY DEF Surjection
    <2> QED
      BY <1>3, <2>1, FS_Surjection
  <1>5. IsFiniteSet(Counted(s)) /\ Cardinality(Counted(s)) \in Nat
    <2>1. Counted(s) \subseteq Created
      BY CapacityAssumption DEF Counted, Created, CapacityInv, Rows
    <2> QED
      BY <2>1, CardinalitySubset DEF CapacityInv, FinitelyMany
  <1>6. Cardinality(S) <= Cardinality(Counted(s))
    <2> DEFINE g == [c \in S |-> c[1]]
    <2>1. \A c \in S : c[1] \in Counted(s) /\ c = <<c[1], step[c[1]].tok>>
      BY DEF Claimed, Owns, Counted
    <2>2. g \in Injection(S, Counted(s))
      BY <2>1 DEF Injection, IsInjective
    <2> QED
      BY <1>5, <2>2, FS_Injection
  <1>7. TickSound'
    <2>1. tick'.scope = s /\ tick'.n = Cardinality(Counted(s)) /\ tick'.seen = seen
      BY <1>2
    <2>2. SeenIn(tick.scope)' = S
      BY <2>1 DEF SeenIn
    <2> HIDE DEF seen, S
    <2> QED
      BY <1>4, <1>5, <1>6, <2>1, <2>2 DEF TickSound
  <1>8. Shapes' /\ FinitelyMany' /\ Tokens' /\ Owners' /\ Rows'
    BY <1>1 DEF CapacityInv, Shapes, FinitelyMany, Created, Busy, Tokens, Claimed, Owners, Owns, Rows
  <1>9. Decisions' /\ FewRun' /\ SlotsSound'
    BY <1>1 DEF CapacityInv, Decisions, FewRun, Uncounted, Of, SlotsSound, Holders
  <1> QED
    BY <1>7, <1>8, <1>9 DEF CapacityInv

\* Holders are no more than the count, as long as it has seen their claims.
LEMMA ReconcileSetInv ==
    ASSUME CapacityInv, ReconcileSet
    PROVE  CapacityInv'
  <1> DEFINE s == tick.scope
  <1>1. /\ UNCHANGED <<run, cancel, step, admit, wk, resumed>> /\ tick # NoTick /\ tick' = NoTick
        /\ cur' = [cur EXCEPT ![s] = tick.n]
        /\ slack' = (slack \/ \E w \in Holders(s) : Claimed(w) \notin tick.seen)
    BY DEF ReconcileSet
  <1>2. s \in Scopes /\ tick.n \in Nat /\ IsFiniteSet(tick.seen) /\ Cardinality(SeenIn(s)) <= tick.n
    BY <1>1 DEF CapacityInv, TickSound
  <1>3. Shapes'
    <2>1. cur' \in [Scopes -> Nat] /\ slack' \in BOOLEAN
      BY <1>1, <1>2 DEF CapacityInv, Shapes
    <2> QED
      BY <1>1, <2>1 DEF CapacityInv, Shapes
  <1>4. FinitelyMany' /\ Tokens' /\ Owners' /\ Rows' /\ Decisions' /\ FewRun'
    BY <1>1 DEF CapacityInv, FinitelyMany, Created, Busy, Tokens, Claimed, Owners, Owns, Rows,
                Decisions, FewRun, Uncounted, Of
  <1>5. TickSound'
    BY <1>1 DEF TickSound
  <1>6. \A x : Holders(x)' = Holders(x)
    BY <1>1 DEF Holders
  <1>7. SlotsSound'
    <2> SUFFICES ASSUME ~slack', NEW x \in Scopes
                 PROVE  Cardinality(Holders(x)) <= cur'[x] /\ Cardinality(Holders(x)) <= Limit[x]
      BY <1>6 DEF SlotsSound
    <2>1. ~slack /\ \A w \in Holders(s) : Claimed(w) \in tick.seen
      BY <1>1
    <2>2. Cardinality(Holders(x)) <= cur[x] /\ Cardinality(Holders(x)) <= Limit[x]
      BY <2>1 DEF CapacityInv, SlotsSound
    <2>3. CASE x # s
      BY <1>1, <2>2, <2>3 DEF CapacityInv, Shapes
    <2>4. CASE x = s
      <3> DEFINE g == [w \in Holders(s) |-> Claimed(w)]
      <3>1. \A w \in Holders(s) : w \in Busy /\ Claimed(w) \in SeenIn(s)
        BY <2>1 DEF Holders, Busy, SeenIn, Claimed
      <3>2. g \in Injection(Holders(s), SeenIn(s))
        BY <3>1 DEF Injection, IsInjective, CapacityInv, Tokens
      <3>3. IsFiniteSet(SeenIn(s)) /\ Cardinality(SeenIn(s)) \in Nat
        BY <1>2, CardinalitySubset DEF SeenIn
      <3>4. Cardinality(Holders(s)) <= Cardinality(SeenIn(s)) /\ Cardinality(Holders(s)) \in Nat
        BY <3>2, <3>3, FS_Injection, HoldersFinite DEF CapacityInv
      <3>5. cur'[s] = tick.n
        BY <1>1, <1>2 DEF CapacityInv, Shapes
      <3> QED
        BY <1>2, <2>2, <2>4, <3>3, <3>4, <3>5
    <2> QED
      BY <2>3, <2>4
  <1> QED
    BY <1>3, <1>4, <1>5, <1>7 DEF CapacityInv

LEMMA StutterInv ==
    ASSUME CapacityInv, UNCHANGED vars
    PROVE  CapacityInv'
  <1>1. UNCHANGED <<run, cancel, step, admit, cur, wk, tick, resumed, slack>>
    BY DEF vars
  <1>2. Shapes' /\ FinitelyMany' /\ Tokens' /\ Owners' /\ Rows'
    BY <1>1 DEF CapacityInv, Shapes, FinitelyMany, Created, Busy, Tokens, Claimed, Owners, Owns, Rows
  <1>3. Decisions' /\ FewRun' /\ TickSound' /\ SlotsSound'
    BY <1>1 DEF CapacityInv, Decisions, FewRun, Uncounted, Of, TickSound, SeenIn, SlotsSound, Holders
  <1> QED
    BY <1>2, <1>3 DEF CapacityInv

LEMMA NextInv == CapacityInv /\ [Next]_vars => CapacityInv'
  <1> SUFFICES ASSUME CapacityInv, [Next]_vars PROVE CapacityInv'
    OBVIOUS
  <1>1. ASSUME NEW r \in Runs, CreateCount(r) \/ PromoteCount(r) PROVE CapacityInv'
    BY <1>1, CountInv
  <1>2. ASSUME NEW r \in Runs, DrainCancelRequested(r) \/ RequestCancel(r) PROVE CapacityInv'
    BY <1>2, DrainInv
  <1>3. ASSUME NEW r \in Runs, Resume(r) PROVE CapacityInv'
    BY <1>3, ResumeInv
  <1>4. ASSUME NEW r \in Runs, Lapse(r) \/ Extend(r) \/ Reclaim(r) PROVE CapacityInv'
    BY <1>4, LeaseInv
  <1>5. ASSUME NEW f \in Flows, NEW t \in admit[f], CreateInsert(t) \/ Promote(t) \/ Rollback(t) PROVE CapacityInv'
    BY <1>5, AdmitInv
  <1>6. ASSUME NEW w \in Workers, NEW r \in Runs, Claim(w, r) PROVE CapacityInv'
    BY <1>6, ClaimInv
  <1>7. ASSUME NEW w \in Workers, TryAcquire(w) PROVE CapacityInv'
    BY <1>7, TryAcquireInv
  <1>8. ASSUME NEW w \in Workers,
               WaitTurn(w) \/ AcquireError(w) \/ Checkpoint(w) \/ CheckpointError(w) \/ Crash(w)
        PROVE  CapacityInv'
    BY <1>8, EndOfWorkInv
  <1>9. ASSUME NEW w \in Workers, Release(w) PROVE CapacityInv'
    BY <1>9, ReleaseInv
  <1>10. ASSUME NEW s \in Scopes, ReconcileCount(s) PROVE CapacityInv'
    BY <1>10, ReconcileCountInv
  <1>11. CASE ReconcileSet
    BY <1>11, ReconcileSetInv
  <1>12. CASE UNCHANGED vars
    BY <1>12, StutterInv
  <1> QED
    BY <1>1, <1>2, <1>3, <1>4, <1>5, <1>6, <1>7, <1>8, <1>9, <1>10, <1>11, <1>12 DEF Next

-----------------------------------------------------------------------------
(* The theorems *)

\* Rows of runs and steps, tokens of workers, transactions of admission, counters and the
\* count of a reconcile in progress stay consistent with one another (create_run,
\* promote_for_workflow, execute_and_advance, reconcile).
THEOREM CapacityInvariant == Spec => []CapacityInv
  <1> QED
    BY InitInv, NextInv, PTL DEF Spec

\* However creations, promotions, cancellations and endings of runs interleave, and for any
\* number of workflows, no more than max_parallel_runs runs of a workflow are running that
\* resume_failed did not set running (create_run, promote_for_workflow under
\* pg_advisory_xact_lock).
THEOREM RunsBounded == Spec => []RunBound
  <1>1. CapacityInv => RunBound
    BY DEF CapacityInv, RunBound, TypeOK, Shapes, Rows, FewRun, Uncounted
  <1> QED
    BY <1>1, CapacityInvariant, PTL

\* For any limits, scopes, workers and crashes, the steps that execute stay within the limit of
\* every scope until a reconcile overwrites a reservation that its count has not seen
\* (try_acquire, release, reconcile).
THEOREM SlotsBounded == Spec => []SlotBound
  <1>1. CapacityInv => SlotBound
    <2> SUFFICES ASSUME CapacityInv, ~slack, NEW s \in Scopes
                 PROVE  Cardinality({w \in Holders(s) : IsAt(w, "execute")}) <= Limit[s]
      BY DEF SlotBound
    <2>1. IsFiniteSet(Holders(s)) /\ {w \in Holders(s) : IsAt(w, "execute")} \subseteq Holders(s)
      BY HoldersFinite DEF CapacityInv
    <2>2. /\ Cardinality({w \in Holders(s) : IsAt(w, "execute")}) <= Cardinality(Holders(s))
          /\ Cardinality({w \in Holders(s) : IsAt(w, "execute")}) \in Nat /\ Cardinality(Holders(s)) \in Nat
      BY <2>1, CardinalitySubset
    <2>3. Cardinality(Holders(s)) <= Limit[s] /\ Limit[s] \in Nat
      BY CapacityAssumption DEF CapacityInv, SlotsSound
    <2> QED
      BY <2>2, <2>3
  <1> QED
    BY <1>1, CapacityInvariant, PTL
=============================================================================
