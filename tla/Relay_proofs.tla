---------------------------- MODULE Relay_proofs ----------------------------
(***************************************************************************)
(* Proofs about what reads the outbox: the relay that calls functions of   *)
(* mini apps (MiniappTriggers) and the stream of record changes            *)
(* (RecordStream).                                                         *)
(*                                                                         *)
(* For any transactions, functions, subscriptions, batches, failures and   *)
(* restarts: a function is called at most once for an event, and the floor *)
(* of the claims hides only what OutboxClaims says it may.                 *)
(*                                                                         *)
(* For any records, visible rows, relays, writes, batch sizes and faults:  *)
(* numbers have no holes, a grid misses nothing and an export shows one    *)
(* position (StreamInv).                                                   *)
(***************************************************************************)
EXTENDS MiniappTriggers, RecordStream, FiniteSetTheorems, WellFoundedInduction, TLAPS

Pcs == {"new", "begun", "early", "wrote", "committed", "rolledback"}

\* An id is given out once, and a transaction that has none yet has id 0.
IdsGiven ==
    /\ seq \in Nat /\ nextXid \in Nat
    /\ tx \in [Writers -> [pc : Pcs, xid : Nat, id : Nat]]
    /\ \A w \in Writers : tx[w].id = 0 <=> tx[w].pc \in {"new", "begun"}

\* The ledger and the row locks keep what is claimed apart.
ClaimsApart ==
    /\ DOMAIN relay = {"pc", "probe", "after", "batch"}
    /\ 0 \notin delivered /\ 0 \notin relay.batch /\ 0 \notin other
    /\ relay.batch \cap delivered = {} /\ other \cap delivered = {} /\ relay.batch \cap other = {}

\* Who calls, or has called, has committed the event as delivered before.
MarkedBefore ==
    /\ todo \subseteq Pairs /\ otherTodo \subseteq Pairs /\ calls \in [Pairs -> Nat]
    /\ \A p \in Pairs : (p \in todo \/ p \in otherTodo \/ calls[p] # 0) => tx[p[1]].id \in delivered

CallsInv == IdsGiven /\ ClaimsApart /\ MarkedBefore /\ AtMostOnce

LEMMA InitCalls == MInit => CallsInv
BY DEF MInit, Init, CallsInv, IdsGiven, ClaimsApart, MarkedBefore, AtMostOnce, Pairs, Pcs, Idle, Dispatches

\* Transactions change ids only of writers that have none.
LEMMA WritersKeep ==
    ASSUME CallsInv, NEW w \in Writers, Begin(w) \/ TakeId(w) \/ Insert(w) \/ Finish(w), UNCHANGED memory
    PROVE  CallsInv'
<1> USE DEF CallsInv
<1>1. IdsGiven'
  BY DEF Begin, TakeId, Insert, Finish, IdsGiven, Pcs
<1>2. ClaimsApart' /\ AtMostOnce'
  BY DEF Begin, TakeId, Insert, Finish, ClaimsApart, AtMostOnce, memory
<1>3. \A v \in Writers : tx[v].id # 0 => tx'[v].id = tx[v].id
  BY DEF Begin, TakeId, Insert, Finish, IdsGiven
<1>4. delivered' = delivered /\ UNCHANGED memory
  BY DEF Begin, TakeId, Insert, Finish
<1>5. MarkedBefore'
  <2>1. ASSUME NEW p \in Pairs, p \in todo \/ p \in otherTodo \/ calls[p] # 0
        PROVE  tx'[p[1]].id \in delivered
    BY <2>1, <1>3 DEF MarkedBefore, ClaimsApart, Pairs
  <2> QED BY <2>1, <1>4 DEF MarkedBefore, memory
<1> QED BY <1>1, <1>2, <1>5

\* What a scan finds is committed, not delivered and not locked.
LEMMA FoundRows ==
    ASSUME CallsInv, NEW S \in SUBSET (Committed \ delivered)
    PROVE  0 \notin S /\ S \cap delivered = {}
BY DEF CallsInv, IdsGiven, Committed

\* A new position of the loop, probe and offset leave a batch alone.
LEMMA BatchKept ==
    ASSUME NEW r, "batch" \in DOMAIN r, NEW x, NEW y, NEW z
    PROVE  /\ [r EXCEPT !.pc = x, !.probe = y].batch = r.batch
           /\ [r EXCEPT !.pc = x, !.probe = y, !.after = z].batch = r.batch
OBVIOUS

LEMMA ClaimKeeps ==
    ASSUME CallsInv, Snapshot \/ Plan \/ ClaimRows \/ Abort, UNCHANGED memory
    PROVE  CallsInv'
<1>1. UNCHANGED db
  BY DEF Snapshot, Plan, ClaimRows, Abort
<1>2. IdsGiven' /\ MarkedBefore' /\ AtMostOnce'
  BY <1>1 DEF CallsInv, IdsGiven, MarkedBefore, AtMostOnce, db, memory, Committed
<1>3. DOMAIN relay' = {"pc", "probe", "after", "batch"}
  BY DEF Snapshot, Plan, ClaimRows, Abort, Idle, CallsInv, ClaimsApart
<1>4. relay'.batch \subseteq relay.batch \/ relay'.batch \in SUBSET ((Committed \ delivered) \ other)
  <2>0. Idle.batch = {} /\ "batch" \in DOMAIN Idle
    BY DEF Idle
  <2>1. CASE Snapshot \/ Abort
    <3>1. PICK r : relay' = [Idle EXCEPT !.pc = "snapshot", !.probe = r] \/ relay' = Idle
      BY <2>1 DEF Snapshot, Abort
    <3>2. relay'.batch = {}
      BY <3>1, <2>0, BatchKept
    <3> QED BY <3>2
  <2>2. CASE Plan
    <3>1. PICK a, y : relay' = [relay EXCEPT !.pc = "scan", !.probe = y, !.after = a] \/ relay' = Idle
      BY <2>2 DEF Plan
    <3>2. relay'.batch = relay.batch \/ relay'.batch = {}
      <4>1. "batch" \in DOMAIN relay
        BY DEF CallsInv, ClaimsApart
      <4> QED BY <3>1, <4>1, <2>0, BatchKept
    <3> QED BY <3>2
  <2>3. CASE ClaimRows
    <3> DEFINE open == {i \in Committed \ delivered : relay.after < i}
               rows == FirstRows(open \ other)
    <3>1. rows \in SUBSET ((Committed \ delivered) \ other)
      BY DEF FirstRows
    <3>2. relay' = IF rows = {} THEN Idle ELSE [Idle EXCEPT !.pc = "work", !.batch = rows]
      BY <2>3 DEF ClaimRows
    <3> HIDE DEF rows, open
    <3> QED BY <3>1, <3>2 DEF Idle
  <2> QED BY <2>1, <2>2, <2>3
<1>5. ClaimsApart'
  BY <1>1, <1>3, <1>4, FoundRows DEF CallsInv, ClaimsApart, db
<1> QED BY <1>2, <1>5 DEF CallsInv

\* The commit of a batch: none of its dispatches was made before.
LEMMA NewDispatches ==
    ASSUME CallsInv, NEW B, B \cap delivered = {}, NEW p \in Dispatches(B)
    PROVE  p \in Pairs /\ tx[p[1]].id \in B /\ p \notin todo /\ p \notin otherTodo /\ calls[p] = 0
BY DEF CallsInv, MarkedBefore, Dispatches

LEMMA CommitKeeps ==
    ASSUME CallsInv, Commit
    PROVE  CallsInv'
<1>1. IdsGiven'
  BY DEF CallsInv, IdsGiven, Commit, Deliver
<1>2. ClaimsApart'
  BY DEF CallsInv, ClaimsApart, Commit, Deliver, Idle
<1>3. relay.batch \cap delivered = {}
  BY DEF CallsInv, ClaimsApart
<1>4. todo' = Dispatches(relay.batch) /\ delivered' = delivered \cup relay.batch
      /\ UNCHANGED <<tx, otherTodo, calls>>
  BY DEF Commit, Deliver
<1>5. MarkedBefore'
  BY <1>3, <1>4, NewDispatches DEF CallsInv, MarkedBefore
<1>6. AtMostOnce'
  BY <1>3, <1>4, NewDispatches DEF CallsInv, AtMostOnce, MarkedBefore
<1> QED BY <1>1, <1>2, <1>5, <1>6 DEF CallsInv

LEMMA InvokeKeeps ==
    ASSUME CallsInv, NEW p \in Pairs, Invoke(p) \/ OtherInvoke(p)
    PROVE  CallsInv'
<1>1. IdsGiven' /\ ClaimsApart'
  BY DEF CallsInv, IdsGiven, ClaimsApart, Invoke, OtherInvoke, vars, db
<1>2. calls[p] = 0 /\ calls' = [calls EXCEPT ![p] = 1] /\ UNCHANGED <<tx, delivered>>
  BY DEF CallsInv, AtMostOnce, MarkedBefore, Invoke, OtherInvoke, vars, db
<1>3. MarkedBefore'
  BY <1>2 DEF CallsInv, MarkedBefore, Invoke, OtherInvoke
<1>4. AtMostOnce'
  BY <1>2 DEF CallsInv, MarkedBefore, AtMostOnce, Invoke, OtherInvoke
<1> QED BY <1>1, <1>3, <1>4 DEF CallsInv

LEMMA RestartKeeps ==
    ASSUME CallsInv, Restart \/ OtherRestart
    PROVE  CallsInv'
BY DEF CallsInv, IdsGiven, ClaimsApart, MarkedBefore, AtMostOnce, Restart, OtherRestart, Idle, db

LEMMA OtherTickKeeps ==
    ASSUME CallsInv, OtherTick
    PROVE  CallsInv'
<1>1. CASE OtherClaim /\ UNCHANGED memory
  <2>1. other' \in SUBSET ((Committed \ delivered) \ relay.batch)
        /\ UNCHANGED <<nextXid, seq, tx, delivered, relay>>
    BY <1>1 DEF OtherClaim
  <2>2. ClaimsApart'
    BY <2>1, FoundRows DEF CallsInv, ClaimsApart
  <2> QED BY <1>1, <2>1, <2>2 DEF CallsInv, IdsGiven, MarkedBefore, AtMostOnce, memory
<1>2. CASE /\ OtherEnds
           /\ otherTodo' = IF delivered' = delivered THEN {} ELSE Dispatches(other)
           /\ UNCHANGED <<todo, calls, lost>>
  <2>1. /\ other' = {} /\ UNCHANGED <<nextXid, seq, tx, relay>>
        /\ \/ delivered' = delivered /\ otherTodo' = {}
           \/ delivered' = delivered \cup other /\ otherTodo' = Dispatches(other)
    BY <1>2 DEF OtherEnds
  <2>2. IdsGiven' /\ ClaimsApart'
    BY <2>1 DEF CallsInv, IdsGiven, ClaimsApart
  <2>3. other \cap delivered = {}
    BY DEF CallsInv, ClaimsApart
  <2>4. MarkedBefore'
    BY <1>2, <2>1, <2>3, NewDispatches DEF CallsInv, MarkedBefore
  <2>5. AtMostOnce'
    BY <1>2, <2>1, <2>3, NewDispatches DEF CallsInv, AtMostOnce, MarkedBefore
  <2> QED BY <2>2, <2>4, <2>5 DEF CallsInv
<1> QED BY <1>1, <1>2 DEF OtherTick

LEMMA NextCalls == CallsInv /\ [MNext]_allVars => CallsInv'
<1> SUFFICES ASSUME CallsInv, [MNext]_allVars PROVE CallsInv'
  OBVIOUS
<1>1. CASE Elsewhere
  <2>1. CASE Unrelated \/ SweepTimer \/ FullTimer
    BY <1>1, <2>1 DEF Elsewhere, Unrelated, SweepTimer, FullTimer, CallsInv, IdsGiven, ClaimsApart,
       MarkedBefore, AtMostOnce, memory, db
  <2> QED BY <1>1, <2>1, WritersKeep DEF Elsewhere
<1>2. CASE Claim \/ Fails
  BY <1>2, ClaimKeeps DEF Claim, Fails
<1>3. CASE Commit
  BY <1>3, CommitKeeps
<1>4. CASE \E p \in Pairs : Invoke(p) \/ OtherInvoke(p)
  BY <1>4, InvokeKeeps
<1>5. CASE Restart \/ OtherRestart
  BY <1>5, RestartKeeps
<1>6. CASE OtherTick
  BY <1>6, OtherTickKeeps
<1>7. CASE UNCHANGED allVars
  BY <1>7 DEF allVars, vars, db, memory, CallsInv, IdsGiven, ClaimsApart, MarkedBefore, AtMostOnce
<1> QED BY <1>1, <1>2, <1>3, <1>4, <1>5, <1>6, <1>7 DEF MNext, Loop

(* event_tick calls a function at most once for an event, however many       *)
(* batches roll back, processes restart and replicas claim at the same time. *)
THEOREM CalledAtMostOnce == MSpec => []AtMostOnce
<1>1. CallsInv => AtMostOnce
  BY DEF CallsInv
<1> QED BY InitCalls, NextCalls, <1>1, PTL DEF MSpec
-----------------------------------------------------------------------------
(* The floor of the claims *)

\* Transaction ids and ids of events were given out by their counters.
CountersAhead ==
    /\ completed \in Nat /\ completed < nextXid
    /\ \A w \in Writers : tx[w].xid < nextXid /\ tx[w].id <= seq

\* What the relay remembers and has read is of the past.
Probes == [seq : Int, xmin : Int, xmax : Int]
HintsTyped ==
    /\ relay.probe \in Probes /\ relay.after \in Int /\ first \in Probes
    /\ tail \in Nat /\ floor \in Int /\ floor <= seq
    /\ basis \in [Writers -> Int]

\* Who still runs after the probe is not before its xmin.
HasXid(w) == tx[w].pc \in {"begun", "wrote"}
ProbePast ==
    /\ relay.pc \in {"snapshot", "scan"} =>
          /\ relay.probe.xmin <= nextXid
          /\ \A w \in Writers : HasXid(w) => relay.probe.xmin <= tx[w].xid
    /\ relay.pc = "scan" => relay.probe.seq <= seq

\* What the floor has passed: transactions that may still commit come after its basis.
Hidden(w) ==
    /\ tx[w].pc = "early" => basis[w] <= nextXid
    /\ tx[w].pc = "wrote" => basis[w] <= tx[w].xid
    /\ tx[w].pc = "committed" => basis[w] <= tx[w].xid \/ tx[w].id \in delivered \cup passed
FloorPast == \A w \in Writers : 0 < tx[w].id /\ tx[w].id <= floor => Hidden(w)

FloorInv == CountersAhead /\ HintsTyped /\ ProbePast /\ FloorPast


\* Sets of numbers have a least element, and a greatest one if they are bounded.
LEMMA LeastNat ==
    ASSUME NEW S \in SUBSET Nat, S # {}
    PROVE  \E m \in S : \A n \in S : m <= n
<1> DEFINE Less == {p \in Nat \X Nat : p[1] < p[2]}
<1>1. IsWellFoundedOn(Less, Nat)
  BY NatLessThanWellFounded DEF OpToRel
<1>2. PICK m \in S : \A n \in S : ~ (<<n, m>> \in Less)
  <2> HIDE DEF Less
  <2> QED BY <1>1, WFMin, Zenon
<1>3. ASSUME NEW n \in S PROVE m <= n
  <2>1. m \in Nat /\ n \in Nat /\ (<<n, m>> \in Less <=> n < m)
    OBVIOUS
  <2> QED BY <1>2, <2>1
<1> QED BY <1>3

LEMMA MinNat ==
    ASSUME NEW S \in SUBSET Nat, S # {}
    PROVE  Min(S) \in S /\ \A n \in S : Min(S) <= n
BY LeastNat DEF Min

LEMMA MaxNat ==
    ASSUME NEW S \in SUBSET Nat, S # {}, NEW b \in Nat, \A n \in S : n <= b
    PROVE  Max(S) \in S /\ \A n \in S : Max(S) >= n
<1> DEFINE T == {k \in Nat : b - k \in S}
<1>1. T # {} /\ T \in SUBSET Nat
  <2>1. PICK n \in S : TRUE
    OBVIOUS
  <2>2. b - n \in Nat /\ b - (b - n) = n
    BY <2>1
  <2>3. b - n \in T
    BY <2>2
  <2> QED BY <2>3
<1>2. PICK k \in T : \A j \in T : k <= j
  <2> HIDE DEF T
  <2> QED BY <1>1, LeastNat
<1>3. ASSUME NEW n \in S PROVE n <= b - k
  <2>1. n \in Nat /\ n <= b /\ b - n \in Nat /\ b - (b - n) = n
    OBVIOUS
  <2>2. b - n \in T
    BY <2>1
  <2>3. k \in Nat /\ k <= b - n
    BY <1>2, <2>2
  <2> QED BY <2>1, <2>3
<1>4. b - k \in S
  BY <1>2
<1>5. \E m \in S : \A n \in S : m >= n
  <2>1. \A n \in S : n \in Nat /\ n <= b - k
    BY <1>3
  <2>2. b - k \in Nat
    BY <1>4
  <2>3. \A n \in S : b - k >= n
    BY <2>1, <2>2
  <2> QED BY <1>4, <2>3
<1> QED BY <1>5 DEF Max

\* A batch is empty only if nothing is left (Limit is not 0).
LEMMA NoRows ==
    ASSUME NEW S \in SUBSET Nat, FirstRows(S) = {}
    PROVE  S = {}
<1> SUFFICES ASSUME S # {} PROVE FALSE
  OBVIOUS
<1>1. PICK m \in S : \A n \in S : m <= n
  BY LeastNat
<1>2. \A j \in S : ~(j < m)
  BY <1>1
<1>3. {j \in S : j < m} = {}
  BY <1>2
<1>4. m \in FirstRows(S)
  BY <1>3, FS_EmptySet, ClaimsAssumption DEF FirstRows
<1> QED BY <1>4

LEMMA CommittedIds ==
    ASSUME CallsInv, FloorInv
    PROVE  Committed \in SUBSET Nat /\ \A i \in Committed : 0 < i /\ i <= seq
BY DEF CallsInv, IdsGiven, FloorInv, CountersAhead, Committed

LEMMA InitFloor == MInit => FloorInv
BY DEF MInit, Init, FloorInv, CountersAhead, HintsTyped, ProbePast, FloorPast, Probes, Idle, NoProbe, NoFloor

\* A transaction takes its xid from nextXid and its id from seq, which no floor has passed.
LEMMA WritersFloor ==
    ASSUME CallsInv, FloorInv, NEW w \in Writers, Begin(w) \/ TakeId(w) \/ Insert(w) \/ Finish(w)
    PROVE  FloorInv'
<1> USE DEF CallsInv, IdsGiven, Pcs
<1>1. UNCHANGED <<delivered, relay, hints, basis, passed>> /\ seq <= seq' /\ nextXid <= nextXid'
      /\ seq' \in Nat /\ nextXid' \in Nat
  BY DEF Begin, TakeId, Insert, Finish
<1>2. CountersAhead'
  BY DEF Begin, TakeId, Insert, Finish, FloorInv, CountersAhead
<1>3. HintsTyped'
  BY <1>1 DEF FloorInv, HintsTyped, hints
<1>4. ProbePast'
  <2>1. relay.probe.xmin \in Int /\ relay.probe.seq \in Int
    BY DEF FloorInv, HintsTyped, Probes
  <2>2. \A v \in Writers : HasXid(v)' => (HasXid(v) /\ tx'[v].xid = tx[v].xid) \/ tx'[v].xid = nextXid
    BY DEF Begin, TakeId, Insert, Finish, HasXid
  <2> QED BY <1>1, <2>1, <2>2 DEF FloorInv, ProbePast, HasXid
<1>5. FloorPast'
  <2> SUFFICES ASSUME NEW v \in Writers, 0 < tx'[v].id, tx'[v].id <= floor PROVE Hidden(v)'
    BY <1>1 DEF FloorPast, hints
  <2>1. tx[v].id = tx'[v].id /\ Hidden(v)
    BY DEF Begin, TakeId, Insert, Finish, FloorInv, FloorPast, HintsTyped
  <2>2. basis[v] \in Int
    BY DEF FloorInv, HintsTyped
  <2> QED BY <1>1, <2>1, <2>2 DEF Begin, TakeId, Insert, Finish, Hidden
<1> QED BY <1>2, <1>3, <1>4, <1>5 DEF FloorInv

LEMMA SnapshotFloor ==
    ASSUME CallsInv, FloorInv, Snapshot
    PROVE  FloorInv'
<1> DEFINE S == Running \cup {completed + 1}
           p == [seq |-> -1, xmin |-> Min(S), xmax |-> completed + 1]
<1>1. S \in SUBSET Nat /\ completed + 1 \in S /\ (\A w \in Writers : HasXid(w) => tx[w].xid \in S)
      /\ completed + 1 \in Nat /\ completed + 1 <= nextXid
  BY DEF CallsInv, IdsGiven, FloorInv, CountersAhead, Running, HasXid
<1>2. Min(S) \in Nat /\ \A n \in S : Min(S) <= n
  <2> HIDE DEF S
  <2> QED BY <1>1, MinNat
<1>3. relay' = [pc |-> "snapshot", probe |-> p, after |-> 0, batch |-> {}] /\ UNCHANGED <<db, hints, basis, passed>>
  BY DEF Snapshot, Idle
<1> HIDE DEF S
<1>4. p \in Probes /\ p.xmin = Min(S)
  BY <1>1, <1>2 DEF Probes
<1>5. ProbePast'
  BY <1>1, <1>2, <1>3, <1>4 DEF ProbePast, HasXid, db, FloorInv, CountersAhead, CallsInv, IdsGiven
<1>6. HintsTyped'
  BY <1>3, <1>4 DEF FloorInv, HintsTyped, db, hints
<1> QED BY <1>3, <1>5, <1>6 DEF FloorInv, CountersAhead, FloorPast, Hidden, db, hints

\* Where a relay starts to read.
LEMMA FloorNat ==
    ASSUME FloorInv
    PROVE  Floor \in Int /\ floor <= Floor
BY DEF FloorInv, HintsTyped, Floor, NoFloor

LEMMA PlanFloor ==
    ASSUME CallsInv, FloorInv, Plan
    PROVE  FloorInv'
<1>1. PICK a \in Int : relay' = [relay EXCEPT !.pc = "scan", !.probe.seq = seq, !.after = a] \/ relay' = Idle
  <2>1. \E a \in {0, Floor, tail} :
          relay' = [relay EXCEPT !.pc = "scan", !.probe.seq = seq, !.after = a] \/ relay' = Idle
    BY Zenon DEF Plan
  <2>2. {0, Floor, tail} \subseteq Int
    BY FloorNat DEF FloorInv, HintsTyped
  <2> QED BY <2>1, <2>2, Zenon
<1>2. UNCHANGED <<db, tail, floor, first, basis, passed>> /\ relay.pc = "snapshot"
  BY DEF Plan, hints
<1>3. relay.probe \in Probes /\ DOMAIN relay = {"pc", "probe", "after", "batch"} /\ seq \in Nat
  BY DEF FloorInv, HintsTyped, CallsInv, IdsGiven, ClaimsApart
<1>4. HintsTyped' /\ ProbePast'
  <2>1. CASE relay' = Idle
    BY <1>2, <2>1 DEF Idle, NoProbe, Probes, FloorInv, HintsTyped, ProbePast, db
  <2>2. CASE relay' = [relay EXCEPT !.pc = "scan", !.probe.seq = seq, !.after = a]
    <3>1. /\ relay'.pc = "scan" /\ relay'.after = a
          /\ relay'.probe \in Probes /\ relay'.probe.seq = seq /\ relay'.probe.xmin = relay.probe.xmin
      BY <1>3, <2>2 DEF Probes
    <3>2. HintsTyped'
      BY <1>2, <3>1 DEF FloorInv, HintsTyped, db
    <3>3. ProbePast'
      BY <1>2, <1>3, <3>1 DEF FloorInv, ProbePast, HasXid, db
    <3> QED BY <3>2, <3>3
  <2> QED BY <1>1, <2>1, <2>2
<1> QED BY <1>2, <1>4 DEF FloorInv, CountersAhead, FloorPast, Hidden, db

\* The scan: the floor rises only past events that are delivered, locked by the other replica,
\* or of transactions that the probe's xmin, and so the basis, comes before.
LEMMA ClaimFloor ==
    ASSUME CallsInv, FloorInv, ClaimRows
    PROVE  FloorInv'
<1> DEFINE open   == {i \in Committed \ delivered : relay.after < i}
           rows   == FirstRows(open \ other)
           probe  == relay.probe
           c      == IF first.seq = probe.seq THEN first ELSE probe
           settle == Settles(rows, relay.after, c, probe)
<1>1. /\ relay' = IF rows = {} THEN Idle ELSE [Idle EXCEPT !.pc = "work", !.batch = rows]
      /\ tail' = IF Cardinality(rows) >= Limit THEN Max({tail} \cup rows) ELSE 0
      /\ first' = c /\ floor' = IF settle THEN probe.seq ELSE floor
      /\ basis' = [w \in Writers |-> IF settle /\ Floor < tx[w].id /\ tx[w].id <= probe.seq THEN c.xmax ELSE basis[w]]
      /\ passed' = passed \cup (open \cap other)
      /\ UNCHANGED db /\ relay.pc = "scan"
  BY DEF ClaimRows
<1>2. open \in SUBSET Nat /\ rows \subseteq open /\ \A i \in open : i <= seq
  BY CommittedIds DEF FirstRows
<1>3. c \in Probes /\ probe \in Probes /\ tail \in Nat /\ seq \in Nat /\ probe.seq <= seq
  BY <1>1 DEF FloorInv, HintsTyped, ProbePast, CallsInv, IdsGiven
<1>4. tail' \in Nat
  <2>1. {tail} \cup rows \in SUBSET Nat /\ tail \in {tail} \cup rows /\ tail + seq \in Nat
        /\ \A n \in {tail} \cup rows : n <= tail + seq
    BY <1>2, <1>3
  <2>2. Max({tail} \cup rows) \in {tail} \cup rows
    <3> HIDE DEF rows
    <3> QED BY <2>1, MaxNat
  <2> QED BY <1>1, <2>1, <2>2
<1>5. relay'.probe \in Probes /\ relay'.after \in Int /\ relay'.pc \in {"idle", "work"}
  BY <1>1 DEF Idle, NoProbe, Probes
<1>6. HintsTyped' /\ ProbePast'
  <2> HIDE DEF settle
  <2>1. c.xmax \in Int /\ probe.seq \in Int
    BY <1>3 DEF Probes
  <2> HIDE DEF c, probe
  <2> QED BY <1>1, <1>3, <1>4, <1>5, <2>1 DEF FloorInv, HintsTyped, ProbePast, db
<1>7. FloorPast'
  <2> SUFFICES ASSUME NEW w \in Writers, 0 < tx[w].id, tx[w].id <= floor' PROVE Hidden(w)'
    BY <1>1 DEF FloorPast, db
  <2>0. tx[w].id \in Nat /\ tx[w].xid \in Nat /\ basis[w] \in Int
    BY DEF CallsInv, IdsGiven, FloorInv, HintsTyped
  <2>1. CASE basis'[w] = basis[w] /\ tx[w].id <= floor
    BY <1>1, <2>0, <2>1 DEF FloorInv, FloorPast, Hidden, db
  <2>2. CASE settle /\ Floor < tx[w].id /\ tx[w].id <= probe.seq
    <3>1. basis'[w] = c.xmax /\ rows = {} /\ relay.after <= Floor /\ c.xmax <= probe.xmin
      BY <1>1, <1>3, <2>2 DEF Settles, Probes
    <3>2. open \ other = {}
      <4> HIDE DEF open
      <4> QED BY <1>2, <3>1, NoRows
    <3>3. tx[w].pc = "committed" => tx[w].id \in delivered \cup passed'
      <4>1. relay.after < tx[w].id
        BY <2>0, <2>2, <3>1, FloorNat DEF FloorInv, HintsTyped
      <4> QED BY <1>1, <3>2, <4>1 DEF Committed
    <3>4. probe.xmin \in Int /\ c.xmax \in Int /\ nextXid \in Nat
      BY <1>3 DEF Probes, CallsInv, IdsGiven
    <3>5. probe.xmin <= nextXid /\ (tx[w].pc = "wrote" => probe.xmin <= tx[w].xid)
      BY <1>1 DEF FloorInv, ProbePast, HasXid
    <3> HIDE DEF c, probe
    <3>6. c.xmax <= nextXid /\ (tx[w].pc = "wrote" => c.xmax <= tx[w].xid)
      BY <2>0, <3>1, <3>4, <3>5
    <3> QED BY <1>1, <3>1, <3>3, <3>6 DEF Hidden, db
  <2>3. floor \in Int /\ (floor = NoFloor => Floor = 0) /\ (floor # NoFloor => Floor = floor) /\ probe.seq \in Int
    BY <1>3 DEF FloorInv, HintsTyped, Floor, Probes
  <2>4. CASE ~(settle /\ Floor < tx[w].id /\ tx[w].id <= probe.seq)
    <3>1. basis'[w] = basis[w]
      BY <1>1, <2>4
    <3>2. tx[w].id <= floor
      <4> HIDE DEF settle, probe
      <4> QED BY <1>1, <2>0, <2>3, <2>4
    <3> QED BY <2>1, <3>1, <3>2
  <2> QED BY <2>2, <2>4
<1> QED BY <1>1, <1>6, <1>7 DEF FloorInv, CountersAhead, db

\* The other steps leave the floor, or give it up.
LEMMA OthersFloor ==
    ASSUME CallsInv, FloorInv,
           \/ Unrelated \/ SweepTimer \/ FullTimer
           \/ Deliver \/ Abort \/ Restart \/ OtherClaim \/ OtherEnds
    PROVE  FloorInv'
<1>1. /\ UNCHANGED <<seq, tx, basis, passed>> /\ delivered \subseteq delivered'
      /\ tail' \in {tail, 0} /\ floor' \in {floor, NoFloor} /\ first' \in {first, NoProbe}
      /\ relay' \in {relay, Idle}
      /\ nextXid' \in Nat /\ nextXid <= nextXid' /\ completed' \in Nat /\ completed' < nextXid'
  BY DEF Unrelated, SweepTimer, FullTimer, Deliver, Abort, Restart, OtherClaim, OtherEnds, db, hints,
         FloorInv, CountersAhead, CallsInv, IdsGiven
<1>2. seq \in Nat /\ nextXid \in Nat /\ \A w \in Writers : tx[w].xid \in Nat /\ tx[w].id \in Nat /\ basis[w] \in Int
  BY DEF CallsInv, IdsGiven, FloorInv, HintsTyped
<1>3. CountersAhead'
  BY <1>1, <1>2 DEF FloorInv, CountersAhead
<1>4. HintsTyped'
  BY <1>1, <1>2 DEF FloorInv, HintsTyped, NoFloor, NoProbe, Idle, Probes
<1>5. ProbePast'
  <2>1. CASE relay' = Idle
    BY <2>1 DEF Idle, ProbePast
  <2>2. CASE relay' = relay
    <3>1. relay.probe.xmin \in Int
      BY DEF FloorInv, HintsTyped, Probes
    <3> QED BY <1>1, <1>2, <2>2, <3>1 DEF FloorInv, ProbePast, HasXid
  <2> QED BY <1>1, <2>1, <2>2
<1>6. FloorPast'
  <2>1. CASE floor' = NoFloor
    BY <1>1, <1>2, <2>1 DEF FloorPast, NoFloor
  <2>2. CASE floor' = floor
    <3> SUFFICES ASSUME NEW w \in Writers, 0 < tx[w].id, tx[w].id <= floor PROVE Hidden(w)'
      BY <1>1, <2>2 DEF FloorPast
    <3>1. Hidden(w)
      BY DEF FloorInv, FloorPast
    <3> QED BY <1>1, <1>2, <3>1 DEF Hidden
  <2> QED BY <1>1, <2>1, <2>2
<1> QED BY <1>3, <1>4, <1>5, <1>6 DEF FloorInv

LEMMA NextFloor == CallsInv /\ FloorInv /\ [MNext]_allVars => FloorInv'
<1> SUFFICES ASSUME CallsInv, FloorInv, [MNext]_allVars PROVE FloorInv'
  OBVIOUS
<1>1. CASE UNCHANGED vars
  BY <1>1 DEF vars, db, hints, FloorInv, CountersAhead, HintsTyped, ProbePast, HasXid, FloorPast, Hidden
<1>2. CASE OtherRestart
  BY <1>2 DEF OtherRestart, db, hints, FloorInv, CountersAhead, HintsTyped, ProbePast, HasXid, FloorPast, Hidden
<1>3. CASE Elsewhere
  BY <1>3, WritersFloor, OthersFloor DEF Elsewhere
<1>4. CASE Loop \/ Fails \/ Restart \/ OtherTick
  BY <1>1, <1>4, SnapshotFloor, PlanFloor, ClaimFloor, OthersFloor DEF Loop, Claim, Commit, Fails, OtherTick, Invoke
<1> QED BY <1>1, <1>2, <1>3, <1>4 DEF MNext, allVars, OtherInvoke

(* The floor of the claims passes an event that is not delivered only if its *)
(* transaction was not covered by the probe that raised the floor, or the    *)
(* other replica had it locked (ClaimHints::observe), however transactions   *)
(* overlap, batches roll back, timers fire and processes restart.            *)
THEOREM FloorHidesOnly == MSpec => []FloorHides
<1>1. CallsInv /\ FloorInv => FloorHides
  <2> SUFFICES ASSUME CallsInv, FloorInv, NEW w \in Writers, tx[w].pc = "committed", tx[w].id <= floor,
                      tx[w].id \notin delivered
               PROVE  tx[w].xid >= basis[w] \/ tx[w].id \in passed
    BY DEF FloorHides
  <2>1. tx[w].id \in Nat /\ tx[w].xid \in Nat /\ basis[w] \in Int /\ tx[w].id # 0
    BY DEF CallsInv, IdsGiven, FloorInv, HintsTyped
  <2>2. Hidden(w)
    BY <2>1 DEF FloorInv, FloorPast
  <2> QED BY <2>1, <2>2 DEF Hidden
<1> QED BY InitCalls, NextCalls, InitFloor, NextFloor, <1>1, PTL DEF MSpec

-----------------------------------------------------------------------------
(* The stream of record changes *)

\* Shapes of the state.
Events == [st : {"none", "open", "live", "gone"}, rec : Nat, rev : Nat]
StreamMsgs == [kind : {"up", "rm", "reset"}, id : Nat, rec : Nat, rev : Nat]
Numberings == [pc : {"idle", "hold"}, at : Nat, batch : SUBSET Ids]
Subs == [pc : {"off", "idle", "fetch", "send"}, cursor : Nat, got : SUBSET Nat, out : Seq(StreamMsgs)]
Grids == [pc : {"none", "new", "read", "on"}, pos : Nat, rows : [Records -> Nat]]
Exports == [pc : {"none", "new", "on", "gone"}, seq : Nat, at : Nat, got : [Records -> Int], holed : BOOLEAN]

TableShapes ==
    /\ ev \in [Ids -> Events] /\ body \in [Records -> Nat] /\ num \in [Ids -> Nat]
    /\ next \in Nat \ {0} /\ clock \in Nat
    /\ numbering \in [Relays -> Numberings]
ReaderShapes ==
    /\ sub \in Subs /\ chan \in Seq(StreamMsgs) /\ grid \in Grids
    /\ exp \in Exports /\ ref \in [Records -> Int]

\* The table of records is what the committed events say: their revisions are 1 to the
\* record's, and an open transaction writes the next one under the row's lock.
Done(i) == ev[i].st \in {"live", "gone"}
TablesAgree ==
    /\ \A i \in Ids : ev[i].st # "none" => ev[i].rec \in Records /\ ev[i].rev # 0
    /\ \A i \in Ids : ev[i].st = "open" => ev[i].rev = body[ev[i].rec] + 1
    /\ \A i, j \in Ids : ev[i].st = "open" /\ ev[j].st = "open" /\ ev[i].rec = ev[j].rec => i = j
    /\ \A i \in Ids : Done(i) => ev[i].rev <= body[ev[i].rec]
    /\ \A r \in Records : \A v \in 1..body[r] : \E i \in Ids : Done(i) /\ ev[i].rec = r /\ ev[i].rev = v

\* Numbers are given to committed events, by one relay at a time.
NumbersGiven ==
    /\ \A i \in Ids : num[i] # 0 => Done(i)
    /\ \A i \in Ids : ev[i].st = "gone" => num[i] # 0
    /\ {num[i] : i \in Ids} \ {0} = 1..Top
    /\ \A i, j \in Ids : num[i] = num[j] /\ num[i] # 0 => i = j
    /\ \A p \in Relays : numbering[p].pc = "hold" <=> numbering[p].batch # {}
    /\ \A p \in Relays : numbering[p].batch \subseteq Unnumbered
    /\ \A p, q \in Relays : numbering[p].pc = "hold" /\ numbering[q].pc = "hold" => p = q

\* The change that follows revision v of record r has no number up to s.
Unpassed(r, v, s) ==
    \A i \in Ids : Done(i) /\ ev[i].rec = r /\ ev[i].rev = v + 1 => num[i] = 0 \/ num[i] > s

\* A message is about the event of its number, and has the row of a later moment.
SoundMsg(m) ==
    /\ m.rec \in Records /\ m.id \in 1..Top /\ m.rev <= body[m.rec]
    /\ \A i \in Ids : num[i] = m.id => ev[i].rec = m.rec /\ ev[i].rev <= m.rev
    /\ m.kind = "up" => Visible(m.rec, m.rev) /\ Unpassed(m.rec, m.rev, m.id)
Ordered(q) == \A j, k \in DOMAIN q : j < k /\ q[j].kind # "reset" /\ q[k].kind # "reset" => q[j].id < q[k].id
Said(q, s) == \E k \in DOMAIN q : q[k].kind # "reset" /\ q[k].id = s

\* Numbers whose change the grid must hear of if it shows the revision before it.
Wanted == {num[i] : i \in {j \in Ids : num[j] # 0 /\ Visible(ev[j].rec, ev[j].rev - 1)}}

\* The subscription u, the channel c and the grid g: what is on its way has every wanted number
\* after the grid's position, in order, as far as the hub has come.
Reached(u, c, s) == (u.pc # "off" /\ s <= u.cursor) \/ \E k \in DOMAIN c : c[k].kind # "reset" /\ s <= c[k].id
ChanSound(u, c, g) ==
    /\ Len(c) <= Capacity
    /\ \A k \in DOMAIN c : IF c[k].kind = "reset" THEN k = Len(c) /\ u.pc = "off"
                           ELSE SoundMsg(c[k]) /\ g.pos < c[k].id
    /\ u.pc # "off" => \A k \in DOMAIN c : c[k].id <= u.cursor
    /\ Ordered(c)
    /\ \A s \in Wanted : g.pos < s /\ Reached(u, c, s) => Said(c, s)
SubSound(u, c, g) ==
    /\ g.pos <= Top /\ u.cursor <= Top
    /\ u.pc # "off" => g.pos <= u.cursor
    /\ u.pc \in {"fetch", "send"} => \E n \in 1..Top : u.cursor < n /\ u.got = (u.cursor + 1)..n
    /\ g.pc # "on" => u.pc = "off" /\ c = <<>>
OutSound(u) ==
    u.pc = "send" =>
        /\ \A k \in DOMAIN u.out : u.out[k].kind # "reset" /\ SoundMsg(u.out[k]) /\ u.out[k].id \in u.got
        /\ Ordered(u.out)
        /\ \A s \in Wanted : s \in u.got => Said(u.out, s)

\* A row of the grid was seen, and the change that follows it has not been passed.
RowsSound(g) ==
    \A r \in Records : g.rows[r] # 0 =>
        Visible(r, g.rows[r]) /\ g.rows[r] <= body[r] /\ Unpassed(r, g.rows[r], g.pos)

\* v is the revision of record r at position s.
Since(r, s) == {i \in Ids : Done(i) /\ ev[i].rec = r /\ (num[i] = 0 \/ num[i] > s)}
IsAt(r, s, v) ==
    /\ v <= body[r] /\ \A i \in Since(r, s) : v < ev[i].rev
    /\ v = body[r] \/ \E i \in Since(r, s) : v = ev[i].rev - 1
PagesSound ==
    /\ exp.pc \in {"none", "new"} => exp.at = 0 /\ ~exp.holed
    /\ exp.pc = "on" => exp.seq <= Top /\ \A r \in Records : IsAt(r, exp.seq, ref[r])
    /\ ExportSound

TablesInv == TableShapes /\ TablesAgree /\ NumbersGiven
ReadersInv == ReaderShapes /\ SubSound(sub, chan, grid) /\ ChanSound(sub, chan, grid) /\ OutSound(sub)
              /\ RowsSound(grid) /\ PagesSound
StreamInv == TablesInv /\ ReadersInv

\* The rank of a number in a set of numbers: ranks are 1 to the size of the set, in order.
Rank(S, s) == Cardinality({t \in S : t <= s})

LEMMA RankOrder ==
    ASSUME NEW S \in SUBSET Nat, IsFiniteSet(S), NEW s \in S
    PROVE  /\ Rank(S, s) \in 1..Cardinality(S)
           /\ Cardinality({t \in S : t < s}) = Rank(S, s) - 1
           /\ \A u \in S : s < u => Rank(S, s) < Rank(S, u)
<1> DEFINE L == {t \in S : t <= s}
           M == {t \in S : t < s}
<1>1. L \in SUBSET S /\ M \in SUBSET S /\ M = L \ {s} /\ s \in L
  <2>1. \A t \in S : t \in Nat /\ (t < s <=> t <= s /\ t # s)
    OBVIOUS
  <2>2. s \in Nat /\ s <= s
    OBVIOUS
  <2> QED BY <2>1, <2>2
<1>2. IsFiniteSet(L) /\ IsFiniteSet(M) /\ Cardinality(L) \in Nat /\ Cardinality(S) \in Nat /\ Cardinality(L) <= Cardinality(S)
  BY <1>1, FS_Subset, FS_CardinalityType
<1>3. Cardinality(M) = Cardinality(L) - 1 /\ Cardinality(M) \in Nat
  <2> HIDE DEF L, M
  <2>1. Cardinality(L \ {s}) = Cardinality(L) - 1
    BY <1>1, <1>2, FS_RemoveElement
  <2> QED BY <1>1, <1>2, <2>1, FS_CardinalityType
<1>4. ASSUME NEW u \in S, s < u PROVE Rank(S, s) < Rank(S, u)
  <2> DEFINE U == {t \in S : t <= u}
  <2>1. U \in SUBSET S /\ L \in SUBSET U /\ u \in U /\ u \notin L
    <3>1. \A t \in S : t \in Nat /\ (t <= s => t <= u)
      BY <1>4
    <3>2. u \in Nat /\ s \in Nat /\ u <= u /\ ~(u <= s)
      BY <1>4
    <3> QED BY <3>1, <3>2
  <2>2. IsFiniteSet(U)
    BY <2>1, FS_Subset
  <2>3. Cardinality(L) <= Cardinality(U) /\ Cardinality(L) # Cardinality(U) /\ Cardinality(U) \in Nat
    <3> HIDE DEF L, U
    <3> QED BY <2>1, <2>2, FS_Subset, FS_CardinalityType
  <2> QED BY <1>2, <2>3 DEF Rank
<1> QED BY <1>2, <1>3, <1>4 DEF Rank

LEMMA RankOnto ==
    ASSUME NEW S \in SUBSET Nat, IsFiniteSet(S), NEW k \in 1..Cardinality(S)
    PROVE  \E s \in S : Rank(S, s) = k
<1> DEFINE N == Cardinality(S)
           f == [s \in S |-> Rank(S, s)]
<1>1. N \in Nat
  BY FS_CardinalityType
<1>2. IsFiniteSet(1..N) /\ Cardinality(1..N) = N
  BY <1>1, FS_Interval
<1>3. \A s \in S : Rank(S, s) \in 1..N
  BY RankOrder
<1>4. \A s, t \in S : Rank(S, s) = Rank(S, t) => s = t
  <2> SUFFICES ASSUME NEW s \in S, NEW t \in S, Rank(S, s) = Rank(S, t), s # t PROVE FALSE
    OBVIOUS
  <2>1. s < t \/ t < s
    OBVIOUS
  <2>2. Rank(S, s) \in Nat /\ Rank(S, t) \in Nat
    BY <1>1, <1>3
  <2>3. Rank(S, s) < Rank(S, t) \/ Rank(S, t) < Rank(S, s)
    BY <2>1, RankOrder
  <2> QED BY <2>2, <2>3
<1>5. f \in Injection(S, 1..N)
  BY <1>3, <1>4 DEF Injection, IsInjective
<1>6. f \in Surjection(S, 1..N)
  <2> HIDE DEF f
  <2> QED BY <1>2, <1>5, FS_Injection
<1>7. PICK s \in S : f[s] = k
  <2> HIDE DEF f
  <2> QED BY <1>6 DEF Surjection
<1> QED BY <1>7

LEMMA NthRank ==
    ASSUME NEW S \in SUBSET Nat, IsFiniteSet(S)
    PROVE  /\ \A k \in 1..Cardinality(S) : Nth(S, k) \in S
           /\ \A j, k \in 1..Cardinality(S) : j < k => Nth(S, j) < Nth(S, k)
           /\ \A s \in S : \E k \in 1..Cardinality(S) : Nth(S, k) = s
<1>1. \A k \in 1..Cardinality(S) : Nth(S, k) \in S /\ Rank(S, Nth(S, k)) = k
  BY RankOnto DEF Nth, Rank
<1>2. ASSUME NEW j \in 1..Cardinality(S), NEW k \in 1..Cardinality(S), j < k PROVE Nth(S, j) < Nth(S, k)
  <2> SUFFICES ASSUME ~(Nth(S, j) < Nth(S, k)) PROVE FALSE
    OBVIOUS
  <2> DEFINE a == Nth(S, j)
             b == Nth(S, k)
  <2>1. a \in S /\ b \in S /\ Rank(S, a) = j /\ Rank(S, b) = k
    BY <1>1
  <2> HIDE DEF a, b
  <2>2. b < a \/ a = b
    <3>1. a \in Nat /\ b \in Nat
      BY <2>1
    <3>2. ~(a < b)
      BY DEF a, b
    <3> QED BY <3>1, <3>2
  <2>3. b < a => Rank(S, b) < Rank(S, a)
    BY <2>1, RankOrder
  <2>4. Cardinality(S) \in Nat
    BY FS_CardinalityType
  <2> QED BY <1>2, <2>1, <2>2, <2>3, <2>4
<1>3. ASSUME NEW s \in S PROVE \E k \in 1..Cardinality(S) : Nth(S, k) = s
  <2> DEFINE k == Rank(S, s)
  <2>1. k \in 1..Cardinality(S)
    BY RankOrder
  <2>2. Nth(S, k) \in S /\ Rank(S, Nth(S, k)) = k
    <3> HIDE DEF k
    <3> QED BY <1>1, <2>1
  <2>3. k \in Nat
    BY <2>1, FS_CardinalityType
  <2> DEFINE u == Nth(S, k)
  <2>4. u < s \/ s < u \/ u = s
    <3> HIDE DEF u
    <3>1. u \in Nat /\ s \in Nat
      BY <2>2 DEF u
    <3> QED BY <3>1
  <2>5. u < s => Rank(S, u) < k
    BY <2>2, RankOrder
  <2>6. s < u => k < Rank(S, u)
    BY <2>2, RankOrder
  <2>7. u = s
    <3> HIDE DEF k, u
    <3> QED BY <2>2, <2>3, <2>4, <2>5, <2>6 DEF u
  <2> QED BY <2>1, <2>7
<1> QED BY <1>1, <1>2, <1>3

LEMMA InitStream == StreamInit => StreamInv
<1> SUFFICES ASSUME StreamInit PROVE StreamInv
  OBVIOUS
<1> USE StreamAssumption DEF StreamInit, Ids
<1>1. TableShapes
  BY DEF TableShapes, Events, Numberings, IdleRelay, Empty
<1>2. TablesAgree
  BY DEF TablesAgree, Done, Empty
<1>3. NumbersGiven
  <2>1. {num[i] : i \in Ids} \ {0} = 1..Top
    <3>1. {num[i] : i \in Ids} \ {0} = {}
      OBVIOUS
    <3>2. 1..Top = {}
      BY DEF Top
    <3> QED BY <3>1, <3>2
  <2> QED BY <2>1 DEF NumbersGiven, IdleRelay, Unnumbered
<1>4. ReaderShapes
  BY DEF ReaderShapes, Subs, Grids, Exports, NoSub, Empty
<1>5. chan = <<>> /\ sub.pc = "off" /\ sub.cursor = 0 /\ grid.pos = 0
  BY DEF NoSub
<1>6. SubSound(sub, chan, grid)
  BY <1>5 DEF SubSound, Top, NoSub
<1>7. ChanSound(sub, chan, grid) /\ OutSound(sub)
  BY <1>5 DEF ChanSound, OutSound, Reached, Ordered, Said
<1>8. RowsSound(grid)
  BY DEF RowsSound, Empty
<1>9. PagesSound
  <2>1. exp.at = 0 /\ exp.pc \in {"none", "new"} /\ ~exp.holed
    OBVIOUS
  <2>2. \A r \in Records : ~(r <= 0)
    OBVIOUS
  <2> QED BY <2>1, <2>2 DEF PagesSound, ExportSound
<1> QED BY <1>1, <1>2, <1>3, <1>4, <1>6, <1>7, <1>8, <1>9 DEF StreamInv, TablesInv, ReadersInv

\* How the writers, the relays and the GC change what readers read: numbers are given to
\* committed events after all earlier numbers, and a record gets one revision at a time.
Grows ==
    /\ next <= next'
    /\ \A i \in Ids : num'[i] = num[i] \/ (num[i] = 0 /\ num'[i] >= next /\ Done(i))
    /\ \A i \in Ids : Done(i) => Done(i)' /\ ev'[i].rec = ev[i].rec /\ ev'[i].rev = ev[i].rev
    /\ \A i \in Ids : Done(i)' /\ ~Done(i) => num'[i] = 0 /\ ev'[i].rev = body[ev'[i].rec] + 1
    /\ \A r \in Records : body'[r] = body[r] \/ (body'[r] = body[r] + 1 /\ \E i \in Ids : Done(i)' /\ ~Done(i) /\ ev'[i].rec = r)

LEMMA UnpassedKept ==
    ASSUME TablesInv, TablesInv', Grows, NEW r, NEW v, NEW s \in Nat, s <= Top, Unpassed(r, v, s)
    PROVE  Unpassed(r, v, s)'
<1> SUFFICES ASSUME NEW i \in Ids, Done(i)', ev'[i].rec = r, ev'[i].rev = v + 1
             PROVE  num'[i] = 0 \/ num'[i] > s
  BY DEF Unpassed
<1>1. next \in Nat /\ num[i] \in Nat /\ num'[i] \in Nat /\ s < next
  BY DEF TablesInv, TableShapes, Top
<1>2. CASE ~Done(i)
  BY <1>2 DEF Grows
<1>3. CASE Done(i)
  <2>1. ev[i].rec = r /\ ev[i].rev = v + 1
    BY <1>3 DEF Grows
  <2>2. num[i] = 0 \/ num[i] > s
    BY <1>3, <2>1 DEF Unpassed
  <2>3. num'[i] = num[i] \/ num'[i] >= next
    BY DEF Grows
  <2> QED BY <1>1, <2>2, <2>3
<1> QED BY <1>2, <1>3

LEMMA BodyGrows ==
    ASSUME TablesInv, TablesInv', Grows, NEW r \in Records
    PROVE  body[r] \in Nat /\ body'[r] \in Nat /\ body[r] <= body'[r]
<1>1. body[r] \in Nat /\ body'[r] \in Nat
  BY DEF TablesInv, TableShapes
<1>2. body'[r] = body[r] \/ body'[r] = body[r] + 1
  BY DEF Grows
<1> QED BY <1>1, <1>2

LEMMA MsgKept ==
    ASSUME TablesInv, TablesInv', Grows, NEW m \in StreamMsgs, SoundMsg(m)
    PROVE  SoundMsg(m)'
<1>1. next \in Nat /\ next' \in Nat /\ next <= next' /\ m.id \in Nat /\ m.rec \in Records /\ m.rev \in Nat
  BY DEF TablesInv, TableShapes, Grows, StreamMsgs, SoundMsg
<1>2. m.id \in 1..Top /\ m.id < next /\ (m.id \in 1..Top)'
  BY <1>1 DEF SoundMsg, Top
<1>3. m.rev <= body'[m.rec]
  <2>1. m.rev <= body[m.rec]
    BY DEF SoundMsg
  <2> QED BY <1>1, <2>1, BodyGrows
<1>4. ASSUME NEW i \in Ids, num'[i] = m.id PROVE ev'[i].rec = m.rec /\ ev'[i].rev <= m.rev
  <2>1. num[i] = m.id
    <3>1. num'[i] = num[i] \/ num'[i] >= next
      BY DEF Grows
    <3> QED BY <1>1, <1>2, <1>4, <3>1
  <2>2. Done(i)
    BY <1>2, <2>1 DEF TablesInv, NumbersGiven
  <2>3. ev[i].rec = m.rec /\ ev[i].rev <= m.rev
    BY <2>1 DEF SoundMsg
  <2> QED BY <2>2, <2>3 DEF Grows
<1>5. m.kind = "up" => Visible(m.rec, m.rev) /\ Unpassed(m.rec, m.rev, m.id)'
  <2> HAVE m.kind = "up"
  <2>1. Visible(m.rec, m.rev) /\ Unpassed(m.rec, m.rev, m.id)
    BY DEF SoundMsg
  <2>2. m.id <= Top
    BY <1>2, <1>1 DEF Top
  <2> QED BY <1>1, <2>1, <2>2, UnpassedKept
<1> QED BY <1>1, <1>2, <1>3, <1>4, <1>5 DEF SoundMsg, Visible

LEMMA WantedKept ==
    ASSUME TablesInv, TablesInv', Grows, NEW s \in Wanted', s <= Top
    PROVE  s \in Wanted
<1>1. PICK i \in Ids : num'[i] # 0 /\ Visible(ev'[i].rec, ev'[i].rev - 1) /\ s = num'[i]
  BY DEF Wanted, Visible
<1>2. next \in Nat /\ num[i] \in Nat /\ num'[i] \in Nat /\ s < next
  BY <1>1 DEF TablesInv, TableShapes, Top
<1>3. num[i] = s
  <2>1. num'[i] = num[i] \/ num'[i] >= next
    BY DEF Grows
  <2> QED BY <1>1, <1>2, <2>1
<1>4. Done(i)
  BY <1>1, <1>3 DEF TablesInv, NumbersGiven
<1>5. ev[i].rec = ev'[i].rec /\ ev[i].rev = ev'[i].rev
  BY <1>4 DEF Grows
<1> QED BY <1>1, <1>3, <1>5 DEF Wanted, Visible

LEMMA AtKept ==
    ASSUME TablesInv, TablesInv', Grows, NEW r \in Records, NEW s \in Nat, s <= Top, NEW v \in Int, IsAt(r, s, v)
    PROVE  IsAt(r, s, v)'
<1>1. body[r] \in Nat /\ body'[r] \in Nat /\ body[r] <= body'[r] /\ v <= body[r]
  BY BodyGrows DEF IsAt
<1>2. ASSUME NEW i \in Since(r, s)' PROVE v < ev'[i].rev
  <2>1. i \in Ids /\ Done(i)' /\ ev'[i].rec = r /\ (num'[i] = 0 \/ num'[i] > s)
    BY <1>2 DEF Since
  <2>2. CASE ~Done(i)
    <3>1. ev'[i].rev = body[r] + 1
      BY <2>1, <2>2 DEF Grows
    <3> QED BY <1>1, <3>1
  <2>3. CASE Done(i)
    <3>1. ev[i].rec = r /\ ev[i].rev = ev'[i].rev
      BY <2>1, <2>3 DEF Grows
    <3>2. num[i] = 0 \/ num[i] > s
      BY <2>1 DEF Grows
    <3>3. i \in Since(r, s)
      BY <2>1, <2>3, <3>1, <3>2 DEF Since
    <3> QED BY <3>1, <3>3 DEF IsAt
  <2> QED BY <2>2, <2>3
<1>3. ASSUME NEW i \in Since(r, s) PROVE i \in Since(r, s)' /\ ev'[i].rev = ev[i].rev
  <2>1. i \in Ids /\ Done(i) /\ ev[i].rec = r /\ (num[i] = 0 \/ num[i] > s)
    BY <1>3 DEF Since
  <2>2. Done(i)' /\ ev'[i].rec = r /\ ev'[i].rev = ev[i].rev
    BY <2>1 DEF Grows
  <2>3. num'[i] = num[i] \/ num'[i] > s
    <3>1. next \in Nat /\ num'[i] \in Nat /\ s < next
      BY <2>1 DEF TablesInv, TableShapes, Top
    <3>2. num'[i] = num[i] \/ num'[i] >= next
      BY <2>1 DEF Grows
    <3> QED BY <3>1, <3>2
  <2> QED BY <2>1, <2>2, <2>3 DEF Since
<1>4. v = body'[r] \/ \E i \in Since(r, s)' : v = ev'[i].rev - 1
  <2>1. CASE \E i \in Since(r, s) : v = ev[i].rev - 1
    BY <2>1, <1>3
  <2>2. CASE v = body[r] /\ body'[r] = body[r]
    BY <2>2
  <2>3. CASE v = body[r] /\ body'[r] # body[r]
    <3>1. PICK i \in Ids : Done(i)' /\ ~Done(i) /\ ev'[i].rec = r
      BY <2>3 DEF Grows
    <3>2. num'[i] = 0 /\ ev'[i].rev = body[r] + 1
      BY <3>1 DEF Grows
    <3>3. i \in Since(r, s)'
      BY <3>1, <3>2 DEF Since
    <3>4. v = ev'[i].rev - 1
      BY <1>1, <2>3, <3>2
    <3> QED BY <3>3, <3>4
  <2> QED BY <2>1, <2>2, <2>3 DEF IsAt
<1>5. v <= body'[r]
  BY <1>1
<1> QED BY <1>2, <1>4, <1>5 DEF IsAt

\* Such a step keeps what holds of the readers.
LEMMA GrowsReaders ==
    ASSUME TablesInv, TablesInv', Grows, ReadersInv, UNCHANGED <<hub, client, export>>
    PROVE  ReadersInv'
<1>1. sub' = sub /\ chan' = chan /\ grid' = grid /\ exp' = exp /\ ref' = ref
  BY DEF hub, client, export
<1>2. ReaderShapes'
  BY <1>1 DEF ReadersInv, ReaderShapes
<1>3. Top \in Nat /\ Top' \in Nat /\ Top <= Top'
  <2>1. next \in Nat \ {0} /\ next' \in Nat \ {0} /\ next <= next'
    BY DEF TablesInv, TableShapes, Grows
  <2>3. next \in Nat /\ next # 0 /\ next' \in Nat /\ next' # 0 /\ next <= next'
    BY <2>1
  <2>4. \A a, b \in Nat \ {0} : a <= b => a - 1 \in Nat /\ b - 1 \in Nat /\ a - 1 <= b - 1
    OBVIOUS
  <2> QED BY <2>1, <2>4 DEF Top
<1>4. SubSound(sub, chan, grid)'
  <2>1. grid.pos \in Nat /\ sub.cursor \in Nat
    BY DEF ReadersInv, ReaderShapes, Grids, Subs
  <2>2. SubSound(sub, chan, grid)
    BY DEF ReadersInv
  <2>3. grid.pos <= Top' /\ sub.cursor <= Top'
    BY <1>3, <2>1, <2>2 DEF SubSound
  <2>4. sub.pc \in {"fetch", "send"} => \E n \in 1..Top' : sub.cursor < n /\ sub.got = (sub.cursor + 1)..n
    <3> HAVE sub.pc \in {"fetch", "send"}
    <3>1. PICK n \in 1..Top : sub.cursor < n /\ sub.got = (sub.cursor + 1)..n
      BY <2>2 DEF SubSound
    <3>2. n \in 1..Top'
      BY <1>3
    <3> QED BY <3>1, <3>2
  <2> QED BY <1>1, <2>2, <2>3, <2>4 DEF SubSound
<1>5. \A k \in DOMAIN chan : chan[k] \in StreamMsgs
  BY DEF ReadersInv, ReaderShapes
<1>6. ChanSound(sub, chan, grid)'
  <2>1. ChanSound(sub, chan, grid)
    BY DEF ReadersInv
  <2>2. \A k \in DOMAIN chan : SoundMsg(chan[k]) => SoundMsg(chan[k])'
    <3>1. \A m \in StreamMsgs : SoundMsg(m) => SoundMsg(m)'
      BY MsgKept
    <3>2. \A k : chan[k]' = chan[k]
      BY <1>1
    <3> QED BY <1>5, <3>1, <3>2 DEF SoundMsg, Unpassed, Visible
  <2>3. \A k \in DOMAIN chan : IF chan[k].kind = "reset" THEN k = Len(chan) /\ sub.pc = "off"
                               ELSE SoundMsg(chan[k])' /\ grid.pos < chan[k].id
    BY <2>1, <2>2 DEF ChanSound
  <2>4. ASSUME NEW s \in Wanted', grid.pos < s, Reached(sub, chan, s) PROVE Said(chan, s)
    <3>1. s <= Top
      <4>1. s \in Nat
        BY <2>4 DEF Wanted, TablesInv, TableShapes
      <4>2. CASE s <= sub.cursor
        <5>1. sub.cursor \in Nat /\ sub.cursor <= Top
          BY DEF ReadersInv, ReaderShapes, Subs, SubSound
        <5> QED BY <1>3, <4>1, <4>2, <5>1
      <4>3. CASE \E k \in DOMAIN chan : chan[k].kind # "reset" /\ s <= chan[k].id
        <5>1. PICK k \in DOMAIN chan : chan[k].kind # "reset" /\ s <= chan[k].id
          BY <4>3
        <5>2. chan[k].id \in 1..Top
          BY <2>1, <5>1 DEF ChanSound, SoundMsg
        <5> QED BY <1>3, <4>1, <5>1, <5>2
      <4> QED BY <2>4, <4>2, <4>3 DEF Reached
    <3>2. s \in Wanted
      BY <2>4, <3>1, WantedKept
    <3> QED BY <2>1, <2>4, <3>2 DEF ChanSound
  <2>5. \A s : Reached(sub, chan, s)' = Reached(sub, chan, s) /\ Said(chan, s)' = Said(chan, s)
    BY <1>1 DEF Reached, Said
  <2>6. Len(chan) <= Capacity /\ Ordered(chan) /\ (sub.pc # "off" => \A k \in DOMAIN chan : chan[k].id <= sub.cursor)
    BY <2>1 DEF ChanSound
  <2> QED BY <1>1, <2>3, <2>4, <2>5, <2>6 DEF ChanSound, Ordered, Reached, Said
<1>7. OutSound(sub)'
  <2> SUFFICES ASSUME sub.pc = "send" PROVE OutSound(sub)'
    BY <1>1 DEF OutSound
  <2>1. OutSound(sub) /\ sub.out \in Seq(StreamMsgs)
    BY DEF ReadersInv, ReaderShapes, Subs
  <2>2. ASSUME NEW k \in DOMAIN sub.out PROVE SoundMsg(sub.out[k])'
    <3>1. SoundMsg(sub.out[k]) /\ sub.out[k] \in StreamMsgs
      BY <2>1 DEF OutSound
    <3>2. sub.out[k]' = sub.out[k]
      BY <1>1
    <3> DEFINE m == sub.out[k]
    <3>3. SoundMsg(m)'
      BY <3>1, <3>2, <1>1, MsgKept DEF SoundMsg, Unpassed, Visible
    <3> QED BY <3>3
  <2>3. ASSUME NEW s \in Wanted', s \in sub.got PROVE Said(sub.out, s)
    <3>1. s <= Top
      <4>1. PICK n \in 1..Top : sub.got = (sub.cursor + 1)..n
        BY DEF ReadersInv, SubSound
      <4>2. sub.cursor \in Nat
        BY DEF ReadersInv, ReaderShapes, Subs
      <4> QED BY <1>3, <2>3, <4>1, <4>2
    <3>2. s \in Wanted
      BY <2>3, <3>1, WantedKept
    <3> QED BY <2>1, <2>3, <3>2 DEF OutSound
  <2>4. \A k \in DOMAIN sub.out : sub.out[k].kind # "reset" /\ sub.out[k].id \in sub.got
    BY <2>1 DEF OutSound
  <2>5. Ordered(sub.out)
    BY <2>1 DEF OutSound
  <2> QED BY <1>1, <2>2, <2>3, <2>4, <2>5 DEF OutSound, Ordered, Said
<1>8. RowsSound(grid)'
  <2> SUFFICES ASSUME NEW r \in Records, grid.rows[r] # 0
               PROVE  Visible(r, grid.rows[r]) /\ grid.rows[r] <= body'[r] /\ Unpassed(r, grid.rows[r], grid.pos)'
    BY <1>1 DEF RowsSound, Visible, Unpassed
  <2>1. Visible(r, grid.rows[r]) /\ grid.rows[r] <= body[r] /\ Unpassed(r, grid.rows[r], grid.pos)
    BY DEF ReadersInv, RowsSound
  <2>2. grid.rows[r] \in Nat /\ grid.pos \in Nat /\ grid.pos <= Top
    BY DEF ReadersInv, ReaderShapes, Grids, SubSound
  <2>3. grid.rows[r] <= body'[r]
    BY <2>1, <2>2, BodyGrows
  <2>4. \A s, v : s = grid.pos /\ v = grid.rows[r] => Unpassed(r, v, s)'
    BY <2>1, <2>2, UnpassedKept
  <2> QED BY <1>1, <2>1, <2>3, <2>4 DEF Unpassed
<1>9. PagesSound'
  <2>1. PagesSound
    BY DEF ReadersInv
  <2>2. ASSUME exp.pc = "on" PROVE exp.seq <= Top' /\ \A r \in Records : IsAt(r, exp.seq, ref[r])'
    <3>1. exp.seq \in Nat /\ exp.seq <= Top
      BY <2>1, <2>2 DEF PagesSound, ReadersInv, ReaderShapes, Exports
    <3>2. ASSUME NEW r \in Records PROVE IsAt(r, exp.seq, ref[r])'
      <4>1. ref[r] \in Int /\ IsAt(r, exp.seq, ref[r])
        BY <2>1, <2>2 DEF PagesSound, ReadersInv, ReaderShapes
      <4>2. \A s, v : s = exp.seq /\ v = ref[r] => IsAt(r, s, v)'
        BY <3>1, <4>1, AtKept
      <4> QED BY <1>1, <4>2 DEF IsAt, Since
    <3> QED BY <1>3, <3>1, <3>2
  <2> QED BY <1>1, <2>1, <2>2 DEF PagesSound, ExportSound, IsAt, Since
<1> QED BY <1>2, <1>4, <1>6, <1>7, <1>8, <1>9 DEF ReadersInv

\* A step that leaves the tables alone.
LEMMA TablesSame ==
    ASSUME TablesInv, UNCHANGED <<ev, body, num, next, numbering, clock>>
    PROVE  TablesInv' /\ Grows
<1>1. ev' = ev /\ body' = body /\ num' = num /\ next' = next /\ numbering' = numbering /\ clock' = clock
  OBVIOUS
<1>2. TablesInv'
  BY <1>1 DEF TablesInv, TableShapes, TablesAgree, NumbersGiven, Done, Top, Unnumbered, Live
<1>3. next \in Nat /\ next <= next'
  BY <1>1 DEF TablesInv, TableShapes
<1> QED BY <1>1, <1>2, <1>3 DEF Grows, Done

LEMMA WriteTables ==
    ASSUME TablesInv, NEW r \in Records, Write(r)
    PROVE  TablesInv' /\ Grows
<1>1. PICK i \in Ids : /\ ev[i].st = "none" /\ Of(r, "open") = {}
                       /\ ev' = [ev EXCEPT ![i] = [st |-> "open", rec |-> r, rev |-> body[r] + 1]]
  BY DEF Write
<1>2. body' = body /\ num' = num /\ next' = next /\ numbering' = numbering /\ clock' = clock
  BY DEF Write, relayState
<1>3. TableShapes /\ body[r] \in Nat /\ r \in Nat /\ next \in Nat
  BY StreamAssumption DEF TablesInv, TableShapes
<1>4. ev' \in [Ids -> Events]
  BY <1>1, <1>3 DEF TableShapes, Events
<1>5. \A j \in Ids : ev'[j] = IF j = i THEN [st |-> "open", rec |-> r, rev |-> body[r] + 1] ELSE ev[j]
  BY <1>1, <1>3 DEF TableShapes
<1>6. \A j \in Ids : Done(j)' = Done(j) /\ (Done(j) => j # i /\ ev'[j] = ev[j])
  BY <1>1, <1>5 DEF Done
<1>7. TablesAgree'
  <2>1. TablesAgree
    BY DEF TablesInv
  <2>2. \A j \in Ids : ev[j].st = "open" => ev[j].rec # r
    BY <1>1 DEF Of
  <2>3. \A j \in Ids : ev'[j].st # "none" => ev'[j].rec \in Records /\ ev'[j].rev # 0
    BY <1>3, <1>5, <2>1 DEF TablesAgree
  <2>4. \A j \in Ids : ev'[j].st = "open" => ev'[j].rev = body[ev'[j].rec] + 1
    BY <1>5, <2>1 DEF TablesAgree
  <2>5. \A j, k \in Ids : ev'[j].st = "open" /\ ev'[k].st = "open" /\ ev'[j].rec = ev'[k].rec => j = k
    BY <1>5, <2>1, <2>2 DEF TablesAgree
  <2>6. \A j \in Ids : Done(j)' => ev'[j].rev <= body[ev'[j].rec]
    BY <1>6, <2>1 DEF TablesAgree
  <2>7. \A q \in Records : \A v \in 1..body[q] : \E j \in Ids : Done(j)' /\ ev'[j].rec = q /\ ev'[j].rev = v
    BY <1>6, <2>1 DEF TablesAgree
  <2> QED BY <1>2, <2>3, <2>4, <2>5, <2>6, <2>7 DEF TablesAgree
<1>8. NumbersGiven'
  <2>1. NumbersGiven
    BY DEF TablesInv
  <2>2. Unnumbered' = Unnumbered
    BY <1>1, <1>2, <1>5 DEF Unnumbered, Live
  <2>3. \A j \in Ids : ev'[j].st = "gone" => ev[j].st = "gone"
    BY <1>5
  <2> QED BY <1>2, <1>6, <2>1, <2>2, <2>3 DEF NumbersGiven, Top
<1>9. Grows
  BY <1>2, <1>3, <1>6 DEF Grows
<1> QED BY <1>2, <1>3, <1>4, <1>7, <1>8, <1>9 DEF TablesInv, TableShapes

LEMMA CommitTables ==
    ASSUME TablesInv, NEW i \in Ids, CommitWrite(i)
    PROVE  TablesInv' /\ Grows
<1> DEFINE r == ev[i].rec
<1>1. /\ ev[i].st = "open" /\ ev' = [ev EXCEPT ![i].st = "live"] /\ body' = [body EXCEPT ![r] = ev[i].rev]
      /\ num' = num /\ next' = next /\ numbering' = numbering /\ clock' = clock
  BY DEF CommitWrite, relayState
<1>2. TableShapes /\ TablesAgree /\ NumbersGiven
  BY DEF TablesInv
<1>3. r \in Records /\ ev[i].rev = body[r] + 1 /\ body[r] \in Nat /\ next \in Nat
  BY <1>1, <1>2 DEF TableShapes, TablesAgree
<1> HIDE DEF r
<1>4. ev' \in [Ids -> Events] /\ body' \in [Records -> Nat]
  BY <1>1, <1>2, <1>3 DEF TableShapes, Events
<1>5. \A j \in Ids : /\ ev'[j].rec = ev[j].rec /\ ev'[j].rev = ev[j].rev
                     /\ ev'[j].st = IF j = i THEN "live" ELSE ev[j].st
  BY <1>1, <1>2 DEF TableShapes, Events
<1>6. \A q \in Records : body'[q] = IF q = r THEN body[r] + 1 ELSE body[q]
  BY <1>1, <1>2, <1>3 DEF TableShapes
<1>7. \A j \in Ids : (Done(j)' <=> Done(j) \/ j = i) /\ (Done(j) => j # i)
  BY <1>1, <1>5 DEF Done
<1>8. num[i] = 0
  BY <1>2, <1>7 DEF NumbersGiven
<1>9. \A j \in Ids : ev[j].rec \in Records => body[ev[j].rec] \in Nat /\ body'[ev[j].rec] \in Nat
  BY <1>2, <1>4 DEF TableShapes
<1>10. TablesAgree'
  <2>1. \A j \in Ids : ev'[j].st # "none" => ev'[j].rec \in Records /\ ev'[j].rev # 0
    BY <1>1, <1>2, <1>5 DEF TablesAgree
  <2>2. ASSUME NEW j \in Ids, ev'[j].st = "open" PROVE ev'[j].rev = body'[ev'[j].rec] + 1
    <3>1. j # i /\ ev[j].st = "open"
      BY <1>5, <2>2
    <3>2. ev[j].rec # r /\ ev[j].rec \in Records /\ ev[j].rev = body[ev[j].rec] + 1
      BY <1>1, <1>2, <3>1 DEF TablesAgree, r
    <3> QED BY <1>5, <1>6, <3>2
  <2>3. \A j, k \in Ids : ev'[j].st = "open" /\ ev'[k].st = "open" /\ ev'[j].rec = ev'[k].rec => j = k
    BY <1>2, <1>5 DEF TablesAgree
  <2>4. ASSUME NEW j \in Ids, Done(j)' PROVE ev'[j].rev <= body'[ev'[j].rec]
    <3>1. CASE j = i
      BY <1>3, <1>5, <1>6, <3>1 DEF r
    <3>2. CASE Done(j)
      <4>1. ev[j].rec \in Records /\ ev[j].rev <= body[ev[j].rec] /\ ev[j].rev \in Nat
        BY <1>2, <3>2 DEF TablesAgree, Done, TableShapes, Events
      <4>2. body'[ev[j].rec] = body[ev[j].rec] \/ body'[ev[j].rec] = body[ev[j].rec] + 1
        BY <1>6, <4>1
      <4> QED BY <1>5, <1>9, <4>1, <4>2
    <3> QED BY <1>7, <2>4, <3>1, <3>2
  <2>5. ASSUME NEW q \in Records, NEW v \in 1..body'[q] PROVE \E j \in Ids : Done(j)' /\ ev'[j].rec = q /\ ev'[j].rev = v
    <3>1. CASE v \in 1..body[q]
      <4>1. PICK j \in Ids : Done(j) /\ ev[j].rec = q /\ ev[j].rev = v
        BY <1>2, <3>1 DEF TablesAgree
      <4> QED BY <1>5, <1>7, <4>1
    <3>2. CASE v \notin 1..body[q]
      <4>1. q = r /\ v = body[r] + 1
        <5>1. body[q] \in Nat /\ body'[q] \in Nat
          BY <1>2, <1>4 DEF TableShapes
        <5> QED BY <1>6, <2>5, <3>2, <5>1
      <4> QED BY <1>3, <1>5, <1>7, <4>1 DEF r
    <3> QED BY <3>1, <3>2
  <2> QED BY <2>1, <2>2, <2>3, <2>4, <2>5 DEF TablesAgree
<1>11. NumbersGiven'
  <2>1. Unnumbered \subseteq Unnumbered'
    BY <1>1, <1>5 DEF Unnumbered, Live
  <2>2. \A j \in Ids : ev'[j].st = "gone" => ev[j].st = "gone"
    BY <1>5
  <2> QED BY <1>1, <1>2, <1>7, <2>1, <2>2 DEF NumbersGiven, Top
<1>12. Grows
  <2>1. \A q \in Records : body'[q] = body[q] \/ (body'[q] = body[q] + 1 /\ \E j \in Ids : Done(j)' /\ ~Done(j) /\ ev'[j].rec = q)
    BY <1>5, <1>6, <1>7 DEF r
  <2>2. \A j \in Ids : Done(j)' /\ ~Done(j) => num'[j] = 0 /\ ev'[j].rev = body[ev'[j].rec] + 1
    BY <1>1, <1>3, <1>5, <1>7, <1>8 DEF r
  <2> QED BY <1>1, <1>3, <1>5, <1>7, <2>1, <2>2 DEF Grows
<1> QED BY <1>1, <1>2, <1>4, <1>10, <1>11, <1>12 DEF TablesInv, TableShapes

LEMMA GcTables ==
    ASSUME TablesInv, Gc
    PROVE  TablesInv' /\ Grows
<1> DEFINE ripe == {i \in Live \ late : num[i] # 0 /\ due[i] <= clock}
<1>1. /\ ripe # {} /\ ev' = [ev EXCEPT ![Min(ripe)].st = "gone"]
      /\ body' = body /\ num' = num /\ next' = next /\ numbering' = numbering /\ clock' = clock
  BY DEF Gc, relayState
<1>2. TableShapes /\ TablesAgree /\ NumbersGiven /\ next \in Nat
  BY DEF TablesInv, TableShapes
<1>3. Min(ripe) \in ripe
  <2>1. ripe \in SUBSET Nat
    BY StreamAssumption DEF Live, Ids
  <2> HIDE DEF ripe
  <2> QED BY <1>1, <2>1, MinNat
<1>4. PICK i \in Ids : i = Min(ripe) /\ ev[i].st = "live" /\ num[i] # 0
  BY <1>3 DEF Live
<1> HIDE DEF ripe
<1>5. ev' = [ev EXCEPT ![i].st = "gone"]
  BY <1>1, <1>4
<1>6. ev' \in [Ids -> Events]
  BY <1>2, <1>5 DEF TableShapes, Events
<1>7. \A j \in Ids : /\ ev'[j].rec = ev[j].rec /\ ev'[j].rev = ev[j].rev
                     /\ ev'[j].st = IF j = i THEN "gone" ELSE ev[j].st
  BY <1>2, <1>5 DEF TableShapes, Events
<1>8. \A j \in Ids : Done(j)' = Done(j)
  BY <1>4, <1>7 DEF Done
<1>9. TablesAgree'
  <2>1. \A j \in Ids : (ev'[j].st # "none" <=> ev[j].st # "none") /\ (ev'[j].st = "open" <=> ev[j].st = "open")
    BY <1>4, <1>7
  <2> QED BY <1>1, <1>2, <1>7, <1>8, <2>1 DEF TablesAgree
<1>10. NumbersGiven'
  <2>1. Unnumbered' = Unnumbered
    BY <1>1, <1>4, <1>7 DEF Unnumbered, Live
  <2>2. \A j \in Ids : ev'[j].st = "gone" => num[j] # 0
    BY <1>2, <1>4, <1>7 DEF NumbersGiven
  <2> QED BY <1>1, <1>2, <1>8, <2>1, <2>2 DEF NumbersGiven, Top
<1>11. Grows
  BY <1>1, <1>2, <1>7, <1>8 DEF Grows
<1> QED BY <1>1, <1>2, <1>6, <1>9, <1>10, <1>11 DEF TablesInv, TableShapes

\* What a relay claims or drops is its own.
LEMMA ClaimTables ==
    ASSUME TablesInv, NEW p \in Relays, RelayClaim(p) \/ RelayAbort(p)
    PROVE  TablesInv' /\ Grows
<1>1. ev' = ev /\ body' = body /\ num' = num /\ next' = next /\ clock' = clock
  BY DEF RelayClaim, RelayAbort, tables
<1>2. TableShapes /\ TablesAgree /\ NumbersGiven /\ next \in Nat
  BY DEF TablesInv, TableShapes
<1>3. \E n \in Numberings : /\ numbering' = [numbering EXCEPT ![p] = n]
                            /\ n.pc = "hold" <=> n.batch # {}
                            /\ n.batch \subseteq Unnumbered
                            /\ n.pc = "hold" => Unlocked
  <2>1. IdleRelay \in Numberings /\ IdleRelay.pc = "idle" /\ IdleRelay.batch = {}
    BY DEF IdleRelay, Numberings
  <2>2. CASE RelayAbort(p)
    <3>1. numbering' = [numbering EXCEPT ![p] = IdleRelay]
      BY <2>2 DEF RelayAbort
    <3> QED BY <2>1, <3>1
  <2>3. CASE RelayClaim(p)
    <3>1. PICK after \in {0, hint[p]}, at \in 0..clock :
              numbering' = [numbering EXCEPT ![p] =
                  IF ClaimedRows({i \in Unnumbered : after < i}) = {} THEN IdleRelay
                  ELSE [pc |-> "hold", at |-> at, batch |-> ClaimedRows({i \in Unnumbered : after < i})]]
      BY <2>3 DEF RelayClaim
    <3> DEFINE rows == ClaimedRows({i \in Unnumbered : after < i})
    <3>2. rows \subseteq Unnumbered
      BY DEF ClaimedRows
    <3>3. at \in Nat
      BY <1>2 DEF TableShapes
    <3>4. Unlocked /\ Unnumbered \subseteq Ids
      BY <2>3 DEF RelayClaim, Unnumbered, Live
    <3> HIDE DEF rows
    <3>5. CASE rows = {}
      BY <2>1, <3>1, <3>5 DEF rows
    <3>6. CASE rows # {}
      <4> DEFINE n == [pc |-> "hold", at |-> at, batch |-> rows]
      <4>1. n \in Numberings /\ n.pc = "hold" /\ n.batch = rows
        BY <3>2, <3>3, <3>4 DEF Numberings
      <4>2. numbering' = [numbering EXCEPT ![p] = n]
        BY <3>1, <3>6 DEF rows
      <4> QED BY <3>2, <3>4, <3>6, <4>1, <4>2
    <3> QED BY <3>5, <3>6
  <2> QED BY <2>2, <2>3
<1>4. PICK n \in Numberings : /\ numbering' = [numbering EXCEPT ![p] = n]
                              /\ n.pc = "hold" <=> n.batch # {}
                              /\ n.batch \subseteq Unnumbered
                              /\ n.pc = "hold" => Unlocked
  BY <1>3
<1>5. numbering' \in [Relays -> Numberings] /\ \A q \in Relays : numbering'[q] = IF q = p THEN n ELSE numbering[q]
  BY <1>2, <1>4 DEF TableShapes
<1>6. NumbersGiven'
  <2>1. Unnumbered' = Unnumbered /\ Top' = Top /\ \A i \in Ids : Done(i)' = Done(i)
    BY <1>1 DEF Unnumbered, Live, Top, Done
  <2>2. \A q \in Relays : /\ numbering'[q].pc = "hold" <=> numbering'[q].batch # {}
                          /\ numbering'[q].batch \subseteq Unnumbered
    BY <1>2, <1>4, <1>5 DEF NumbersGiven
  <2>3. \A a, b \in Relays : numbering'[a].pc = "hold" /\ numbering'[b].pc = "hold" => a = b
    BY <1>2, <1>4, <1>5 DEF NumbersGiven, Unlocked
  <2> QED BY <1>1, <1>2, <2>1, <2>2, <2>3 DEF NumbersGiven
<1>7. TablesAgree' /\ Grows
  BY <1>1, <1>2 DEF TablesAgree, Grows, Done
<1> QED BY <1>1, <1>2, <1>5, <1>6, <1>7 DEF TablesInv, TableShapes

\* mark_delivered_seq gives the batch the next numbers, one to each of its events.
LEMMA BatchNumbers ==
    ASSUME TablesInv, NEW p \in Relays, RelayCommit(p)
    PROVE  LET batch == numbering[p].batch IN
           /\ batch \subseteq Unnumbered /\ IsFiniteSet(batch) /\ Cardinality(batch) \in Nat
           /\ \A i \in Ids : i \notin batch => num'[i] = num[i]
           /\ \A i \in batch : num'[i] = Top + Rank(batch, i)
           /\ next' = next + Cardinality(batch)
<1> DEFINE batch == numbering[p].batch
<1>1. TableShapes /\ NumbersGiven
  BY DEF TablesInv
<1>2. /\ num' = [i \in Ids |-> IF i \in batch THEN next + Cardinality({j \in batch : j < i}) ELSE num[i]]
      /\ next' = next + Cardinality(batch)
  BY DEF RelayCommit
<1>3. batch \subseteq Unnumbered /\ Unnumbered \subseteq Ids /\ Ids \in SUBSET Nat
  BY <1>1, StreamAssumption DEF NumbersGiven, Unnumbered, Live, Ids
<1>4. IsFiniteSet(Ids)
  <2>1. MaxEvents \in Int /\ 1 \in Int
    BY StreamAssumption
  <2>2. IsFiniteSet(1..MaxEvents)
    BY <2>1, FS_Interval
  <2> QED BY <2>2 DEF Ids
<1> HIDE DEF batch
<1>5. batch \in SUBSET Nat /\ IsFiniteSet(batch) /\ Cardinality(batch) \in Nat
  BY <1>3, <1>4, FS_Subset, FS_CardinalityType
<1>6. ASSUME NEW i \in batch PROVE num'[i] = Top + Rank(batch, i)
  <2>1. num'[i] = next + Cardinality({j \in batch : j < i})
    BY <1>2, <1>3
  <2>2. Cardinality({j \in batch : j < i}) = Rank(batch, i) - 1 /\ Rank(batch, i) \in 1..Cardinality(batch)
    BY <1>5, RankOrder
  <2>3. next \in Nat /\ Rank(batch, i) \in Nat
    BY <1>1, <1>5, <2>2 DEF TableShapes
  <2> QED BY <2>1, <2>2, <2>3 DEF Top
<1>7. \A i \in Ids : i \notin batch => num'[i] = num[i]
  BY <1>2
<1> QED BY <1>2, <1>3, <1>5, <1>6, <1>7 DEF batch

LEMMA RelayCommitTables ==
    ASSUME TablesInv, NEW p \in Relays, RelayCommit(p)
    PROVE  TablesInv' /\ Grows
<1> DEFINE batch == numbering[p].batch
           n == Cardinality(batch)
<1>1. /\ ev' = ev /\ body' = body /\ clock' = clock /\ numbering[p].pc = "hold"
      /\ num' \in [Ids -> Nat \cup Int] /\ numbering' = [numbering EXCEPT ![p] = IdleRelay]
  <2>1. DOMAIN num' = Ids /\ num' = [i \in DOMAIN num' |-> num'[i]]
    BY DEF RelayCommit
  <2>2. \A i \in Ids : num'[i] \in Int
    <3> SUFFICES ASSUME NEW i \in Ids PROVE num'[i] \in Int
      OBVIOUS
    <3>1. CASE i \in batch
      <4>1. num'[i] = Top + Rank(batch, i) /\ Rank(batch, i) \in 1..n /\ n \in Nat /\ next \in Nat
        <5>1. batch \in SUBSET Nat /\ IsFiniteSet(batch) /\ n \in Nat /\ num'[i] = Top + Rank(batch, i)
          BY <3>1, BatchNumbers, StreamAssumption DEF Unnumbered, Live, Ids
        <5> QED BY <3>1, <5>1, RankOrder DEF TablesInv, TableShapes
      <4> QED BY <4>1 DEF Top
    <3>2. CASE i \notin batch
      BY <3>2, BatchNumbers DEF TablesInv, TableShapes
    <3> QED BY <3>1, <3>2
  <2> QED BY <2>1, <2>2 DEF RelayCommit
<1>2. TableShapes /\ TablesAgree /\ NumbersGiven /\ next \in Nat /\ next # 0
  BY DEF TablesInv, TableShapes
<1>3. /\ batch \subseteq Unnumbered /\ IsFiniteSet(batch) /\ n \in Nat /\ batch \in SUBSET Nat
      /\ \A i \in Ids : i \notin batch => num'[i] = num[i]
      /\ \A i \in batch : num'[i] = Top + Rank(batch, i)
      /\ next' = next + n
  BY BatchNumbers, StreamAssumption DEF Unnumbered, Live, Ids
<1>4. \A i \in batch : Rank(batch, i) \in 1..n /\ Rank(batch, i) \in Nat
  <2>1. \A i \in batch : Rank(batch, i) \in 1..n
    BY <1>3, RankOrder
  <2>2. n \in Nat
    BY <1>3
  <2> HIDE DEF n
  <2> QED BY <2>1, <2>2
<1>5. \A i \in batch : i \in Ids /\ num[i] = 0 /\ Done(i)
  BY <1>3 DEF Unnumbered, Live, Done
<1>6. \A i, j \in batch : Rank(batch, i) = Rank(batch, j) => i = j
  <2> SUFFICES ASSUME NEW i \in batch, NEW j \in batch, Rank(batch, i) = Rank(batch, j), i # j PROVE FALSE
    OBVIOUS
  <2>1. i < j \/ j < i
    BY <1>3
  <2>2. Rank(batch, i) < Rank(batch, j) \/ Rank(batch, j) < Rank(batch, i)
    BY <1>3, <2>1, RankOrder
  <2> QED BY <1>4, <2>2
<1>7. \A k \in 1..n : \E i \in batch : Rank(batch, i) = k
  BY <1>3, RankOnto
<1> HIDE DEF batch, n
<1>8. \A i \in batch : num'[i] \in next..(next + n - 1)
  BY <1>2, <1>3, <1>4 DEF Top
<1>9. \A i \in Ids : num'[i] \in Nat
  <2>1. \A i \in Ids : num[i] \in Nat
    BY <1>2 DEF TableShapes
  <2>2. \A i \in batch : num'[i] \in Nat
    <3>1. next \in Nat /\ n \in Nat
      BY <1>2, <1>3
    <3> QED BY <1>8, <3>1
  <2> QED BY <1>3, <2>1, <2>2
<1>10. next' \in Nat \ {0} /\ num' \in [Ids -> Nat] /\ next <= next'
  BY <1>1, <1>2, <1>3, <1>9
<1>11. numbering' \in [Relays -> Numberings] /\ \A q \in Relays : numbering'[q] = IF q = p THEN IdleRelay ELSE numbering[q]
  BY <1>1, <1>2 DEF TableShapes, IdleRelay, Numberings
<1>12. \A i \in Ids : Done(i)' = Done(i)
  BY <1>1 DEF Done
<1>13. NumbersGiven'
  <2>1. \A i \in Ids : (num'[i] # 0 => Done(i)') /\ (ev'[i].st = "gone" => num'[i] # 0)
    <3> TAKE i \in Ids
    <3>1. CASE i \in batch
      <4>1. num'[i] # 0
        BY <1>2, <1>3, <1>8, <3>1
      <4> QED BY <1>5, <1>12, <3>1, <4>1
    <3>2. CASE i \notin batch
      BY <1>1, <1>2, <1>3, <1>12, <3>2 DEF NumbersGiven
    <3> QED BY <3>1, <3>2
  <2>2. {num'[i] : i \in Ids} \ {0} = 1..Top'
    <3>1. Top = next - 1 /\ Top' = next + n - 1
      <4>1. next' = next + n /\ next \in Nat /\ n \in Nat
        BY <1>2, <1>3
      <4> QED BY <4>1 DEF Top
    <3>2. ASSUME NEW i \in Ids, num'[i] # 0 PROVE num'[i] \in 1..Top'
      <4>1. CASE i \in batch
        BY <1>2, <1>3, <1>8, <3>1, <4>1
      <4>2. CASE i \notin batch
        <5>1. num[i] \in 1..Top
          BY <1>2, <1>3, <3>2, <4>2 DEF NumbersGiven
        <5> QED BY <1>2, <1>3, <3>1, <4>2, <5>1
      <4> QED BY <4>1, <4>2
    <3>3. ASSUME NEW s \in 1..Top' PROVE \E i \in Ids : num'[i] = s /\ num'[i] # 0
      <4>1. CASE s \in 1..Top
        <5>1. PICK i \in Ids : num[i] = s
          BY <1>2, <4>1 DEF NumbersGiven
        <5>2. s # 0 /\ i \notin batch
          BY <1>2, <1>5, <3>1, <4>1, <5>1
        <5> QED BY <1>3, <5>1, <5>2
      <4>2. CASE s \notin 1..Top
        <5>1. s - Top \in 1..n /\ s \in Nat /\ s # 0 /\ Top \in Int
          BY <1>2, <1>3, <3>1, <3>3, <4>2
        <5>2. PICK i \in batch : Rank(batch, i) = s - Top
          BY <1>7, <5>1
        <5>3. num'[i] = Top + (s - Top)
          BY <1>3, <5>2
        <5>4. num'[i] = s
          BY <5>1, <5>3
        <5> QED BY <1>5, <5>1, <5>2, <5>4
      <4> QED BY <4>1, <4>2
    <3> QED BY <3>2, <3>3
  <2>3. ASSUME NEW i \in Ids, NEW j \in Ids, num'[i] = num'[j], num'[i] # 0 PROVE i = j
    <3>1. CASE i \in batch /\ j \in batch
      <4>1. Rank(batch, i) \in Nat /\ Rank(batch, j) \in Nat /\ Top \in Int /\ Top + Rank(batch, i) = Top + Rank(batch, j)
        BY <1>2, <1>3, <1>4, <2>3, <3>1 DEF Top
      <4>2. Rank(batch, i) = Rank(batch, j)
        BY <4>1
      <4> QED BY <1>6, <3>1, <4>2
    <3>2. CASE i \notin batch /\ j \notin batch
      BY <1>2, <1>3, <2>3, <3>2 DEF NumbersGiven
    <3>3. ASSUME NEW k \in Ids, k \notin batch, num'[k] # 0 PROVE num'[k] < next
      <4>1. num'[k] = num[k] /\ num[k] \in 1..Top
        BY <1>2, <1>3, <3>3 DEF NumbersGiven
      <4> QED BY <1>2, <4>1 DEF Top
    <3>4. \A k \in batch : num'[k] >= next
      BY <1>2, <1>3, <1>8
    <3>5. CASE i \in batch /\ j \notin batch
      BY <1>2, <1>9, <2>3, <3>3, <3>4, <3>5
    <3>6. CASE i \notin batch /\ j \in batch
      BY <1>2, <1>9, <2>3, <3>3, <3>4, <3>6
    <3> QED BY <3>1, <3>2, <3>5, <3>6
  <2>4. \A q \in Relays : q # p => numbering[q].batch = {} /\ numbering[q].pc # "hold"
    BY <1>1, <1>2 DEF NumbersGiven
  <2>5. \A q \in Relays : numbering'[q].batch = {} /\ numbering'[q].pc # "hold"
    BY <1>11, <2>4 DEF IdleRelay
  <2> QED BY <2>1, <2>2, <2>3, <2>5 DEF NumbersGiven
<1>14. TablesAgree'
  BY <1>1, <1>2 DEF TablesAgree, Done
<1>15. Grows
  <2>1. \A i \in Ids : num'[i] = num[i] \/ (num[i] = 0 /\ num'[i] >= next /\ Done(i))
    <3> TAKE i \in Ids
    <3>1. CASE i \in batch
      <4>1. num'[i] >= next
        BY <1>2, <1>3, <1>8, <3>1
      <4> QED BY <1>5, <3>1, <4>1
    <3>2. CASE i \notin batch
      BY <1>3, <3>2
    <3> QED BY <3>1, <3>2
  <2> QED BY <1>1, <1>10, <1>12, <2>1 DEF Grows
<1> QED BY <1>1, <1>2, <1>10, <1>11, <1>13, <1>14, <1>15 DEF TablesInv, TableShapes

LEMMA TickTables ==
    ASSUME TablesInv, Tick \/ \E i \in Ids : OtherDelivers(i)
    PROVE  TablesInv' /\ Grows
<1>1. ev' = ev /\ body' = body /\ num' = num /\ next' = next /\ numbering' = numbering
  BY DEF Tick, OtherDelivers, tables, relayState
<1>2. clock' \in Nat
  BY DEF Tick, OtherDelivers, TablesInv, TableShapes
<1>3. TableShapes' /\ TablesAgree' /\ NumbersGiven'
  BY <1>1, <1>2 DEF TablesInv, TableShapes, TablesAgree, NumbersGiven, Done, Top, Unnumbered, Live
<1>4. next \in Nat /\ next <= next'
  BY <1>1 DEF TablesInv, TableShapes
<1> QED BY <1>1, <1>3, <1>4 DEF Grows, Done, TablesInv

\* A reader's step leaves the tables alone.
LEMMA ReaderStep ==
    ASSUME TablesInv, UNCHANGED <<tables, relayState, clock>>,
           ReaderShapes', SubSound(sub', chan', grid'), ChanSound(sub', chan', grid'), OutSound(sub'),
           RowsSound(grid'), PagesSound'
    PROVE  StreamInv'
<1>1. ev' = ev /\ body' = body /\ num' = num /\ next' = next /\ numbering' = numbering /\ clock' = clock
  BY DEF tables, relayState
<1>2. TablesInv'
  BY <1>1, TablesSame
<1>3. SubSound(sub, chan, grid)'
  BY <1>1 DEF SubSound, Top
<1>4. ChanSound(sub, chan, grid)'
  BY <1>1 DEF ChanSound, SoundMsg, Unpassed, Visible, Done, Top, Wanted, Ordered, Said, Reached
<1>5. OutSound(sub)'
  BY <1>1 DEF OutSound, SoundMsg, Unpassed, Visible, Done, Top, Wanted, Ordered, Said
<1>6. RowsSound(grid)'
  BY <1>1 DEF RowsSound, Unpassed, Visible, Done
<1> QED BY <1>2, <1>3, <1>4, <1>5, <1>6 DEF StreamInv, ReadersInv

\* The export and its reference stay as they are.
LEMMA PagesStill ==
    ASSUME PagesSound, UNCHANGED <<tables, exp, ref>>
    PROVE  PagesSound'
<1>1. ev' = ev /\ body' = body /\ num' = num /\ next' = next /\ exp' = exp /\ ref' = ref
  BY DEF tables
<1> QED BY <1>1 DEF PagesSound, ExportSound, IsAt, Since, Done, Top

LEMMA NumberTypes ==
    ASSUME TablesInv
    PROVE  /\ Top \in Nat
           /\ \A s \in Wanted : s \in 1..Top
           /\ \A i \in Ids : num[i] # 0 => num[i] \in 1..Top /\ Done(i)
           /\ \A i \in Ids : Done(i) => ev[i].rec \in Records /\ ev[i].rev \in Nat /\ ev[i].rev # 0 /\ ev[i].rev <= body[ev[i].rec]
<1>1. TableShapes /\ TablesAgree /\ NumbersGiven
  BY DEF TablesInv
<1>2. next \in Nat /\ next # 0
  BY <1>1 DEF TableShapes
<1>3. Top \in Nat
  BY <1>2 DEF Top
<1>4. \A i \in Ids : num[i] # 0 => num[i] \in 1..Top /\ Done(i)
  BY <1>1 DEF NumbersGiven
<1>5. \A s \in Wanted : s \in 1..Top
  BY <1>4 DEF Wanted
<1>6. \A i \in Ids : Done(i) => ev[i].rec \in Records /\ ev[i].rev \in Nat /\ ev[i].rev # 0 /\ ev[i].rev <= body[ev[i].rec]
  BY <1>1 DEF TablesAgree, Done, TableShapes, Events
<1> QED BY <1>3, <1>4, <1>5, <1>6

\* What follows the revision of the table has not been committed.
LEMMA CurrentUnpassed ==
    ASSUME TablesInv, NEW r \in Records, NEW s
    PROVE  Unpassed(r, body[r], s) /\ body[r] \in Nat
<1>1. body[r] \in Nat
  BY DEF TablesInv, TableShapes
<1>2. ASSUME NEW i \in Ids, Done(i), ev[i].rec = r, ev[i].rev = body[r] + 1 PROVE FALSE
  <2>1. ev[i].rev \in Nat /\ ev[i].rev <= body[r]
    BY <1>2, NumberTypes
  <2> QED BY <1>1, <1>2, <2>1
<1> QED BY <1>1, <1>2 DEF Unpassed

\* Nothing is on its way to a grid that the hub has not come ahead of.
LEMMA EmptyChan ==
    ASSUME TablesInv, NEW u, NEW g, g.pos \in Nat, u.pc # "off" => u.cursor = g.pos, NEW c, c \in {<<>>, <<Reset>>},
           c # <<>> => u.pc = "off"
    PROVE  ChanSound(u, c, g)
<1>1. Capacity \in Nat /\ 1 <= Capacity /\ 0 <= Capacity
  BY StreamAssumption
<1>2. Len(c) <= Capacity /\ \A k \in DOMAIN c : c[k].kind = "reset" /\ c[k].id = 0 /\ k = Len(c) /\ u.pc = "off"
  <2>1. CASE c = <<>>
    BY <1>1, <2>1
  <2>2. CASE c = <<Reset>>
    <3>1. Len(c) = 1 /\ DOMAIN c = {1} /\ c[1] = Reset
      BY <2>2
    <3>2. c # <<>>
      BY <3>1
    <3> QED BY <1>1, <3>1, <3>2 DEF Reset
  <2> QED BY <2>1, <2>2
<1>3. ASSUME NEW s \in Wanted, g.pos < s, Reached(u, c, s) PROVE FALSE
  <2>1. u.pc # "off" /\ s <= u.cursor
    BY <1>2, <1>3 DEF Reached
  <2>2. s \in Nat
    BY NumberTypes
  <2> QED BY <1>3, <2>1, <2>2
<1> QED BY <1>2, <1>3 DEF ChanSound, Ordered

LEMMA ReadFirstInv ==
    ASSUME StreamInv, ReadFirst
    PROVE  StreamInv'
<1>1. TablesInv /\ ReadersInv
  BY DEF StreamInv
<1>2. /\ grid.pc = "new" /\ grid' = [pc |-> "read", pos |-> Top, rows |-> Seen(Records \ Later)]
      /\ sub' = sub /\ chan' = chan /\ exp' = exp /\ ref' = ref /\ UNCHANGED <<tables, relayState, clock>>
  BY DEF ReadFirst, hub, export
<1>3. sub.pc = "off" /\ chan = <<>> /\ sub.cursor <= Top
  BY <1>1, <1>2 DEF ReadersInv, SubSound
<1>4. Top \in Nat
  BY <1>1, NumberTypes
<1>5. \A r \in Records : grid'.rows[r] # 0 => grid'.rows[r] = body[r] /\ Visible(r, body[r])
  BY <1>2 DEF Seen
<1>6. ReaderShapes'
  <2>1. Seen(Records \ Later) \in [Records -> Nat]
    BY <1>1 DEF Seen, TablesInv, TableShapes
  <2> QED BY <1>1, <1>2, <1>4, <2>1 DEF ReadersInv, ReaderShapes, Grids
<1>7. SubSound(sub', chan', grid')
  BY <1>2, <1>3, <1>4 DEF SubSound
<1>8. ChanSound(sub', chan', grid')
  <2>1. grid'.pos \in Nat /\ sub'.pc = "off" /\ chan' = <<>>
    BY <1>2, <1>3, <1>4
  <2> QED BY <1>1, <2>1, EmptyChan
<1>9. OutSound(sub')
  BY <1>2, <1>3 DEF OutSound
<1>10. RowsSound(grid')
  <2> SUFFICES ASSUME NEW r \in Records, grid'.rows[r] # 0
               PROVE  Visible(r, grid'.rows[r]) /\ grid'.rows[r] <= body[r] /\ Unpassed(r, grid'.rows[r], grid'.pos)
    BY DEF RowsSound
  <2>1. Unpassed(r, body[r], grid'.pos) /\ body[r] \in Nat
    BY <1>1, CurrentUnpassed
  <2> QED BY <1>5, <2>1
<1>11. PagesSound'
  BY <1>1, <1>2, PagesStill DEF ReadersInv
<1> QED BY <1>1, <1>2, <1>6, <1>7, <1>8, <1>9, <1>10, <1>11, ReaderStep

\* A subscription that starts, or goes on, at position n.
LEMMA StartSub ==
    ASSUME NEW n \in Nat
    PROVE  LET u == [NoSub EXCEPT !.pc = "idle", !.cursor = n] IN
           u \in Subs /\ u.pc = "idle" /\ u.cursor = n
<1>1. NoSub \in Subs
  BY DEF NoSub, Subs
<1> QED BY <1>1 DEF Subs

\* Subscribing, reconnecting and breaking off keep rows and position.
LEMMA ConnectInv ==
    ASSUME StreamInv, Subscribe \/ Reconnect \/ Disconnect
    PROVE  StreamInv'
<1>1. TablesInv /\ ReadersInv
  BY DEF StreamInv
<1>2. exp' = exp /\ ref' = ref /\ UNCHANGED <<tables, relayState, clock>>
  BY DEF Subscribe, Reconnect, Disconnect, export, hub
<1>3. /\ grid' \in Grids /\ grid'.rows = grid.rows /\ grid'.pos = grid.pos
      /\ grid'.pc = IF Subscribe THEN "on" ELSE "read"
  <2>1. grid \in Grids
    BY <1>1 DEF ReadersInv, ReaderShapes
  <2>2. Subscribe => grid' = [grid EXCEPT !.pc = "on"]
    BY DEF Subscribe
  <2>3. ~Subscribe => grid' = [grid EXCEPT !.pc = "read"]
    BY DEF Reconnect, Disconnect
  <2> QED BY <2>1, <2>2, <2>3 DEF Grids
<1>4. grid.pos \in Nat /\ grid.pos <= Top /\ Top \in Nat
  BY <1>1, NumberTypes DEF ReadersInv, ReaderShapes, Grids, SubSound
<1>5. /\ sub' \in Subs /\ chan' \in {<<>>, <<Reset>>} /\ sub'.pc \in {"off", "idle"} /\ sub'.cursor <= Top
      /\ sub'.pc # "off" => sub'.cursor = grid.pos
      /\ chan' # <<>> => sub'.pc = "off"
      /\ ~Subscribe => sub'.pc = "off" /\ chan' = <<>>
  <2>1. NoSub \in Subs /\ NoSub.pc = "off" /\ NoSub.cursor = 0
    BY DEF NoSub, Subs
  <2>2. CASE Subscribe
    <3> DEFINE u == [NoSub EXCEPT !.pc = "idle", !.cursor = grid.pos]
    <3>1. u \in Subs /\ u.pc = "idle" /\ u.cursor = grid.pos
      BY <1>4, StartSub
    <3>2. (sub' = u /\ chan' = <<>>) \/ (sub' = NoSub /\ chan' = <<Reset>>)
      BY <2>2 DEF Subscribe
    <3> HIDE DEF u
    <3>3. CASE sub' = u /\ chan' = <<>>
      BY <1>4, <2>2, <3>1, <3>3
    <3>4. CASE sub' = NoSub /\ chan' = <<Reset>>
      BY <1>4, <2>1, <2>2, <3>4
    <3> QED BY <3>2, <3>3, <3>4
  <2>3. CASE Reconnect /\ ~Subscribe
    <3>1. sub' = sub /\ chan' = chan /\ sub.pc = "off" /\ chan = <<>>
      BY <2>3 DEF Reconnect, hub
    <3>2. sub \in Subs /\ sub.cursor <= Top
      BY <1>1 DEF ReadersInv, ReaderShapes, SubSound
    <3> QED BY <2>3, <3>1, <3>2
  <2>4. CASE Disconnect /\ ~Subscribe
    <3>1. sub' = NoSub /\ chan' = <<>>
      BY <2>4 DEF Disconnect
    <3> QED BY <1>4, <2>1, <2>4, <3>1
  <2> QED BY <2>2, <2>3, <2>4
<1>6. ReaderShapes'
  <2>1. <<>> \in Seq(StreamMsgs) /\ <<Reset>> \in Seq(StreamMsgs)
    BY DEF StreamMsgs, Reset
  <2> QED BY <1>1, <1>2, <1>3, <1>5, <2>1 DEF ReadersInv, ReaderShapes
<1>7. SubSound(sub', chan', grid')
  BY <1>3, <1>4, <1>5 DEF SubSound
<1>8. ChanSound(sub', chan', grid')
  BY <1>1, <1>3, <1>4, <1>5, EmptyChan
<1>9. OutSound(sub')
  BY <1>5 DEF OutSound
<1>10. RowsSound(grid')
  BY <1>1, <1>3 DEF ReadersInv, RowsSound
<1>11. PagesSound'
  BY <1>1, <1>2, PagesStill DEF ReadersInv
<1> QED BY <1>1, <1>2, <1>6, <1>7, <1>8, <1>9, <1>10, <1>11, ReaderStep

\* A message brings the grid to its number: nothing wanted lies before it.
LEMMA ReceiveRows ==
    ASSUME TablesInv, ReadersInv, chan # <<>>, NEW m, m = Head(chan), m.kind # "reset"
    PROVE  RowsSound([grid EXCEPT !.pos = m.id, !.rows = Applied(m, grid.rows)])
<1> DEFINE rows == Applied(m, grid.rows)
           g == [grid EXCEPT !.pos = m.id, !.rows = rows]
<1>1. chan \in Seq(StreamMsgs) /\ Len(chan) \in Nat /\ 1 \in DOMAIN chan /\ m = chan[1] /\ m \in StreamMsgs
  BY DEF ReadersInv, ReaderShapes
<1>2. ChanSound(sub, chan, grid) /\ RowsSound(grid) /\ grid \in Grids
  BY DEF ReadersInv, ReaderShapes
<1>3. SoundMsg(m) /\ grid.pos < m.id
  BY <1>1, <1>2 DEF ChanSound
<1>4. m.id \in Nat /\ m.rev \in Nat /\ m.rec \in Records /\ grid.pos \in Nat
  BY <1>1, <1>2, <1>3 DEF StreamMsgs, Grids, SoundMsg
<1>5. g.pos = m.id /\ g.rows = rows
  BY <1>2 DEF Grids
<1>6. \A r \in Records : rows[r] = IF r # m.rec THEN grid.rows[r] ELSE IF m.kind = "rm" THEN 0
                                   ELSE IF grid.rows[r] # 0 /\ grid.rows[r] < m.rev THEN m.rev ELSE grid.rows[r]
  BY <1>2, <1>4 DEF Applied, Grids
<1> HIDE DEF rows, g
<1>7. \A s \in Wanted : s <= grid.pos \/ s >= m.id
  <2> SUFFICES ASSUME NEW s \in Wanted, grid.pos < s, s < m.id PROVE FALSE
    <3>1. \A s \in Wanted : s \in Nat
      BY NumberTypes
    <3> QED BY <1>4, <3>1
  <2>1. s \in Nat
    BY NumberTypes
  <2>2. Reached(sub, chan, s)
    <3>1. s <= m.id
      BY <1>4, <2>1
    <3> QED BY <1>1, <3>1 DEF Reached
  <2>3. PICK k \in DOMAIN chan : chan[k].kind # "reset" /\ chan[k].id = s
    BY <1>2, <2>2 DEF ChanSound, Said
  <2>4. k = 1 \/ 1 < k
    BY <1>1, <2>3
  <2>5. 1 < k => m.id < s
    BY <1>1, <1>2, <2>3 DEF ChanSound, Ordered
  <2> QED BY <1>1, <1>4, <2>1, <2>3, <2>4, <2>5
<1>8. ASSUME NEW r \in Records, grid.rows[r] # 0,
             r # m.rec \/ ~(grid.rows[r] < m.rev)
      PROVE  Unpassed(r, grid.rows[r], m.id)
  <2> SUFFICES ASSUME NEW i \in Ids, Done(i), ev[i].rec = r, ev[i].rev = grid.rows[r] + 1, num[i] # 0, ~(num[i] > m.id)
               PROVE  FALSE
    BY DEF Unpassed
  <2>1. Visible(r, grid.rows[r]) /\ Unpassed(r, grid.rows[r], grid.pos) /\ grid.rows[r] \in Nat
    BY <1>2, <1>8 DEF RowsSound, Grids
  <2>2. num[i] > grid.pos /\ num[i] \in Nat
    BY <2>1 DEF Unpassed, TablesInv, TableShapes
  <2>3. ev[i].rev - 1 = grid.rows[r]
    BY <2>1
  <2>4. num[i] \in Wanted
    BY <2>1, <2>3 DEF Wanted
  <2>5. num[i] = m.id
    BY <1>4, <1>7, <2>2, <2>4
  <2>6. r = m.rec /\ ev[i].rev <= m.rev
    BY <1>3, <2>5 DEF SoundMsg
  <2> QED BY <1>4, <1>8, <2>1, <2>6
<1>9. ASSUME NEW r \in Records, rows[r] # 0
      PROVE  Visible(r, rows[r]) /\ rows[r] <= body[r] /\ Unpassed(r, rows[r], m.id)
  <2>1. CASE rows[r] = grid.rows[r] /\ (r # m.rec \/ ~(grid.rows[r] < m.rev))
    BY <1>2, <1>8, <1>9, <2>1 DEF RowsSound
  <2>2. CASE r = m.rec /\ m.kind # "rm" /\ rows[r] = m.rev
    <3>1. m.kind = "up"
      BY <1>1, <2>2 DEF StreamMsgs
    <3> QED BY <1>3, <2>2, <3>1 DEF SoundMsg
  <2> QED BY <1>4, <1>6, <1>9, <2>1, <2>2
<1>10. RowsSound(g)
  BY <1>5, <1>9 DEF RowsSound
<1> QED BY <1>10 DEF g, rows

LEMMA ReceiveChan ==
    ASSUME TablesInv, ReadersInv, chan # <<>>, NEW m, m = Head(chan), m.kind # "reset", NEW g, g.pos = m.id
    PROVE  ChanSound(sub, Tail(chan), g)
<1> DEFINE c == Tail(chan)
<1>1. chan \in Seq(StreamMsgs) /\ Len(chan) \in Nat /\ 1 \in DOMAIN chan /\ m = chan[1]
  BY DEF ReadersInv, ReaderShapes
<1>2. ChanSound(sub, chan, grid) /\ grid.pos \in Nat
  BY DEF ReadersInv, ReaderShapes, Grids
<1>3. c \in Seq(StreamMsgs) /\ Len(c) = Len(chan) - 1 /\ \A k \in DOMAIN c : k \in Nat /\ k # 0 /\ k + 1 \in DOMAIN chan /\ c[k] = chan[k + 1]
  BY <1>1
<1>4. \A k \in DOMAIN chan : k \in Nat /\ k # 0 /\ (k # 1 => k - 1 \in DOMAIN c /\ c[k - 1] = chan[k])
  BY <1>1
<1> HIDE DEF c
<1>5. SoundMsg(m) /\ grid.pos < m.id /\ m.id \in Nat
  <2>1. m \in StreamMsgs
    BY <1>1
  <2>2. m.id \in Nat
    BY <2>1 DEF StreamMsgs
  <2> QED BY <1>1, <1>2, <2>2 DEF ChanSound
<1>6. Len(c) <= Capacity
  <2>1. Capacity \in Nat /\ Len(chan) <= Capacity
    BY <1>2, StreamAssumption DEF ChanSound
  <2> QED BY <1>1, <1>3, <2>1
<1>7. ASSUME NEW k \in DOMAIN c
      PROVE  IF c[k].kind = "reset" THEN k = Len(c) /\ sub.pc = "off" ELSE SoundMsg(c[k]) /\ g.pos < c[k].id
  <2>1. k \in Nat /\ k # 0 /\ k + 1 \in DOMAIN chan /\ c[k] = chan[k + 1]
    BY <1>3
  <2>2. CASE c[k].kind = "reset"
    <3>1. k + 1 = Len(chan) /\ sub.pc = "off"
      BY <1>2, <2>1, <2>2 DEF ChanSound
    <3> QED BY <1>1, <1>3, <2>1, <2>2, <3>1
  <2>3. CASE c[k].kind # "reset"
    <3>1. SoundMsg(chan[k + 1])
      BY <1>2, <2>1, <2>3 DEF ChanSound
    <3>2. 1 < k + 1
      BY <2>1
    <3>3. m.id < chan[k + 1].id
      BY <1>1, <1>2, <2>1, <2>3, <3>2 DEF ChanSound, Ordered
    <3> QED BY <2>1, <2>3, <3>1, <3>3
  <2> QED BY <2>2, <2>3
<1>8. sub.pc # "off" => \A k \in DOMAIN c : c[k].id <= sub.cursor
  BY <1>2, <1>3 DEF ChanSound
<1>9. Ordered(c)
  <2> SUFFICES ASSUME NEW j \in DOMAIN c, NEW k \in DOMAIN c, j < k, c[j].kind # "reset", c[k].kind # "reset"
               PROVE  c[j].id < c[k].id
    BY DEF Ordered
  <2>1. j + 1 < k + 1
    BY <1>3
  <2> QED BY <1>2, <1>3, <2>1 DEF ChanSound, Ordered
<1>10. ASSUME NEW s \in Wanted, g.pos < s, Reached(sub, c, s) PROVE Said(c, s)
  <2>1. s \in Nat
    BY NumberTypes
  <2>2. grid.pos < s
    BY <1>2, <1>5, <1>10, <2>1
  <2>3. Reached(sub, chan, s)
    BY <1>3, <1>10 DEF Reached
  <2>4. PICK k \in DOMAIN chan : chan[k].kind # "reset" /\ chan[k].id = s
    BY <1>2, <2>2, <2>3 DEF ChanSound, Said
  <2>5. k # 1
    BY <1>1, <1>5, <1>10, <2>1, <2>4
  <2> QED BY <1>4, <2>4, <2>5 DEF Said
<1> QED BY <1>6, <1>7, <1>8, <1>9, <1>10 DEF ChanSound, c

LEMMA ReceiveInv ==
    ASSUME StreamInv, Receive
    PROVE  StreamInv'
<1> DEFINE m == Head(chan)
<1>1. TablesInv /\ ReadersInv
  BY DEF StreamInv
<1>2. grid.pc = "on" /\ chan # <<>> /\ exp' = exp /\ ref' = ref /\ UNCHANGED <<tables, relayState, clock>>
  BY DEF Receive, export
<1>3. PagesSound'
  BY <1>1, <1>2, PagesStill DEF ReadersInv
<1>4. sub \in Subs /\ chan \in Seq(StreamMsgs) /\ grid \in Grids /\ exp' \in Exports /\ ref' \in [Records -> Int]
  BY <1>1, <1>2 DEF ReadersInv, ReaderShapes
<1>5. CASE m.kind = "reset"
  <2>1. grid' = [pc |-> "new", pos |-> 0, rows |-> Empty] /\ sub' = NoSub /\ chan' = <<>>
    BY <1>5 DEF Receive
  <2>2. grid' \in Grids /\ grid'.pos = 0 /\ \A r \in Records : grid'.rows[r] = 0
    BY <2>1 DEF Grids, Empty
  <2>3. sub' \in Subs /\ sub'.pc = "off" /\ sub'.cursor = 0
    BY <2>1 DEF NoSub, Subs
  <2>4. ReaderShapes'
    BY <1>4, <2>1, <2>2, <2>3 DEF ReaderShapes
  <2>5. SubSound(sub', chan', grid')
    BY <1>1, <2>1, <2>2, <2>3, NumberTypes DEF SubSound
  <2>6. ChanSound(sub', chan', grid')
    BY <1>1, <2>1, <2>2, <2>3, EmptyChan
  <2>7. OutSound(sub') /\ RowsSound(grid')
    BY <2>2, <2>3 DEF OutSound, RowsSound
  <2> QED BY <1>1, <1>2, <1>3, <2>4, <2>5, <2>6, <2>7, ReaderStep
<1>6. CASE m.kind # "reset"
  <2>1. grid' = [grid EXCEPT !.pos = m.id, !.rows = Applied(m, grid.rows)] /\ chan' = Tail(chan) /\ sub' = sub
    <3>1. grid' = [grid EXCEPT !.pos = m.id, !.rows = Applied(m, @)] /\ chan' = Tail(chan) /\ UNCHANGED <<sub, page>>
      BY <1>6 DEF Receive
    <3> QED BY <3>1
  <2>2. 1 \in DOMAIN chan /\ m = chan[1] /\ m \in StreamMsgs
    BY <1>2, <1>4
  <2>3. m.id \in Nat /\ m.id \in 1..Top /\ m.rev \in Nat /\ m.rec \in Records
    BY <1>1, <1>6, <2>2 DEF ReadersInv, ChanSound, SoundMsg, StreamMsgs
  <2>4. Applied(m, grid.rows) \in [Records -> Nat]
    BY <1>4, <2>3 DEF Applied, Grids
  <2> HIDE DEF m
  <2>5. grid' \in Grids /\ grid'.pos = m.id /\ grid'.pc = "on"
    BY <1>2, <1>4, <2>1, <2>3, <2>4 DEF Grids
  <2>6. ReaderShapes'
    <3>1. chan' \in Seq(StreamMsgs)
      BY <1>2, <1>4, <2>1
    <3> QED BY <1>4, <2>1, <2>5, <3>1 DEF ReaderShapes
  <2>7. SubSound(sub', chan', grid')
    <3>1. m.id <= Top /\ (sub.pc # "off" => m.id <= sub.cursor)
      BY <1>1, <2>2, <2>3, NumberTypes DEF ReadersInv, ChanSound
    <3> QED BY <1>1, <2>1, <2>5, <3>1 DEF ReadersInv, SubSound
  <2>8. ChanSound(sub', chan', grid')
    BY <1>1, <1>2, <1>6, <2>1, <2>5, ReceiveChan DEF m
  <2>9. RowsSound(grid')
    BY <1>1, <1>2, <1>6, <2>1, ReceiveRows DEF m
  <2>10. OutSound(sub')
    BY <1>1, <2>1 DEF ReadersInv
  <2> QED BY <1>1, <1>2, <1>3, <2>6, <2>7, <2>8, <2>9, <2>10, ReaderStep
<1> QED BY <1>5, <1>6

\* load_batch returns the numbers that follow the cursor, up to the last it has read.
LEMMA LoadInv ==
    ASSUME StreamInv, Load
    PROVE  StreamInv'
<1>1. TablesInv /\ ReadersInv
  BY DEF StreamInv
<1>2. /\ sub.pc = "idle" /\ Run # {} /\ sub' = [sub EXCEPT !.pc = "fetch", !.got = Run]
      /\ chan' = chan /\ grid' = grid /\ exp' = exp /\ ref' = ref /\ UNCHANGED <<tables, relayState, clock>>
  BY DEF Load, client, export
<1>3. sub \in Subs /\ chan \in Seq(StreamMsgs) /\ grid \in Grids /\ exp \in Exports /\ ref \in [Records -> Int] /\ sub.cursor \in Nat
  BY <1>1 DEF ReadersInv, ReaderShapes, Subs
<1>4. Top \in Nat /\ Run \in SUBSET (1..Top) /\ Run \in SUBSET Nat /\ \A s \in Run : s <= Top
  <2>1. Top \in Nat
    BY <1>1, NumberTypes
  <2>2. \A s \in Run : s \in 1..Top
    BY <1>1, NumberTypes DEF Run, Ahead, Kept, Unnumbered, Live
  <2> QED BY <2>1, <2>2
<1> DEFINE n == Max(Run)
<1>5. n \in Run /\ \A s \in Run : n >= s
  BY <1>2, <1>4, MaxNat
<1> HIDE DEF n
<1>6. n \in 1..Top /\ sub.cursor < n /\ Run = (sub.cursor + 1)..n
  <2>1. n \in Nat /\ n \in 1..Top /\ sub.cursor < n /\ n <= sub.cursor + MaxBatch /\ (sub.cursor + 1)..n \subseteq Ahead
    BY <1>4, <1>5 DEF Run, Ahead
  <2>2. ASSUME NEW s \in Run PROVE s \in (sub.cursor + 1)..n
    <3>1. s \in Nat /\ sub.cursor < s /\ s <= n
      BY <1>4, <1>5, <2>1 DEF Run, Ahead
    <3> QED BY <1>3, <2>1, <3>1
  <2>3. ASSUME NEW s \in (sub.cursor + 1)..n PROVE s \in Run
    <3>1. s \in Ahead
      BY <2>1
    <3>2. (sub.cursor + 1)..s \subseteq (sub.cursor + 1)..n
      BY <1>3, <2>1
    <3>3. s <= sub.cursor + MaxBatch
      <4>1. MaxBatch \in Nat
        BY StreamAssumption
      <4> QED BY <1>3, <2>1, <4>1
    <3> QED BY <2>1, <3>1, <3>2, <3>3 DEF Run
  <2> QED BY <2>1, <2>2, <2>3
<1>7. sub' \in Subs /\ sub'.pc = "fetch" /\ sub'.cursor = sub.cursor /\ sub'.got = Run
  BY <1>2, <1>3, <1>4 DEF Subs
<1>8. ReaderShapes'
  BY <1>2, <1>3, <1>7 DEF ReaderShapes
<1>9. SubSound(sub', chan', grid')
  BY <1>1, <1>2, <1>6, <1>7 DEF ReadersInv, SubSound
<1>10. ChanSound(sub', chan', grid')
  BY <1>1, <1>2, <1>7 DEF ReadersInv, ChanSound, Reached
<1>11. OutSound(sub')
  BY <1>7 DEF OutSound
<1>12. RowsSound(grid') /\ PagesSound'
  BY <1>1, <1>2, PagesStill DEF ReadersInv
<1> QED BY <1>1, <1>2, <1>8, <1>9, <1>10, <1>11, <1>12, ReaderStep

LEMMA GapInv ==
    ASSUME StreamInv, GapTimeout
    PROVE  StreamInv'
<1>1. TablesInv /\ ReadersInv
  BY DEF StreamInv
<1>2. /\ sub.pc = "idle" /\ sub' = NoSub /\ chan' = IF Len(chan) < Capacity THEN Append(chan, Reset) ELSE chan
      /\ grid' = grid /\ exp' = exp /\ ref' = ref /\ UNCHANGED <<tables, relayState, clock>>
  BY DEF GapTimeout, client, export
<1>3. chan \in Seq(StreamMsgs) /\ grid \in Grids /\ exp \in Exports /\ ref \in [Records -> Int] /\ Len(chan) \in Nat
  BY <1>1 DEF ReadersInv, ReaderShapes
<1>4. sub' \in Subs /\ sub'.pc = "off" /\ sub'.cursor = 0
  BY <1>2 DEF NoSub, Subs
<1>5. Reset \in StreamMsgs /\ Reset.kind = "reset"
  BY DEF Reset, StreamMsgs
<1>6. chan' \in Seq(StreamMsgs)
  BY <1>2, <1>3, <1>5
<1>7. ReaderShapes'
  BY <1>2, <1>3, <1>4, <1>6 DEF ReaderShapes
<1>8. grid.pc = "on" /\ grid.pos <= Top
  BY <1>1, <1>2 DEF ReadersInv, SubSound
<1>9. SubSound(sub', chan', grid')
  BY <1>1, <1>2, <1>4, <1>8, NumberTypes DEF SubSound
<1>10. ChanSound(sub, chan, grid)
  BY <1>1 DEF ReadersInv
<1>11. \A k \in DOMAIN chan : chan[k].kind # "reset"
  BY <1>2, <1>10 DEF ChanSound
<1>12. Capacity \in Nat
  BY StreamAssumption
<1>13. /\ Len(chan') <= Capacity
       /\ \A k \in DOMAIN chan : k \in DOMAIN chan' /\ chan'[k] = chan[k]
       /\ \A k \in DOMAIN chan' : k \in DOMAIN chan \/ (chan'[k] = Reset /\ k = Len(chan'))
  <2>1. CASE Len(chan) < Capacity
    <3>1. chan' = Append(chan, Reset)
      BY <1>2, <2>1
    <3>2. Len(chan') = Len(chan) + 1 /\ DOMAIN chan' = 1..(Len(chan) + 1) /\ DOMAIN chan = 1..Len(chan)
          /\ (\A k \in 1..Len(chan) : chan'[k] = chan[k]) /\ chan'[Len(chan) + 1] = Reset
      BY <1>3, <3>1
    <3> QED BY <1>3, <1>12, <2>1, <3>2
  <2>2. CASE ~(Len(chan) < Capacity)
    BY <1>2, <1>10, <2>2 DEF ChanSound
  <2> QED BY <2>1, <2>2
<1>14. ChanSound(sub', chan', grid')
  <2>1. \A k \in DOMAIN chan' : IF chan'[k].kind = "reset" THEN k = Len(chan') /\ sub'.pc = "off"
                                ELSE SoundMsg(chan'[k]) /\ grid'.pos < chan'[k].id
    BY <1>2, <1>4, <1>5, <1>10, <1>11, <1>13 DEF ChanSound
  <2>2. \A k \in DOMAIN chan' : chan'[k].kind # "reset" => k \in DOMAIN chan /\ chan'[k] = chan[k]
    BY <1>5, <1>13
  <2>3. Ordered(chan')
    BY <1>10, <2>2 DEF ChanSound, Ordered
  <2>4. \A s \in Wanted : grid'.pos < s /\ Reached(sub', chan', s) => Said(chan', s)
    <3> SUFFICES ASSUME NEW s \in Wanted, grid.pos < s, Reached(sub', chan', s) PROVE Said(chan', s)
      BY <1>2
    <3>1. Reached(sub, chan, s)
      BY <1>4, <2>2 DEF Reached
    <3>2. Said(chan, s)
      BY <1>10, <3>1 DEF ChanSound
    <3> QED BY <1>11, <1>13, <3>2 DEF Said
  <2> QED BY <1>4, <1>13, <2>1, <2>3, <2>4 DEF ChanSound
<1>15. OutSound(sub')
  BY <1>4 DEF OutSound
<1>16. RowsSound(grid') /\ PagesSound'
  BY <1>1, <1>2, PagesStill DEF ReadersInv
<1> QED BY <1>1, <1>2, <1>7, <1>9, <1>14, <1>15, <1>16, ReaderStep

\* The event of a number, and what is said of it.
LEMMA EventFacts ==
    ASSUME TablesInv, NEW s \in 1..Top
    PROVE  /\ EventAt(s) \in Ids /\ num[EventAt(s)] = s /\ Done(EventAt(s))
           /\ \A i \in Ids : num[i] = s => i = EventAt(s)
<1>1. NumbersGiven
  BY DEF TablesInv
<1>2. \E i \in Ids : num[i] = s
  BY <1>1 DEF NumbersGiven
<1>3. EventAt(s) \in Ids /\ num[EventAt(s)] = s
  BY <1>2 DEF EventAt
<1>4. s # 0
  BY NumberTypes
<1> QED BY <1>1, <1>3, <1>4 DEF NumbersGiven

LEMMA MessageSound ==
    ASSUME TablesInv, NEW s \in 1..Top
    PROVE  /\ Kind(s) \in {"up", "rm", "none"} /\ Message(s).kind = Kind(s) /\ Message(s).id = s
           /\ Kind(s) # "none" => Message(s) \in StreamMsgs /\ SoundMsg(Message(s))
           /\ s \in Wanted => Kind(s) # "none"
<1> DEFINE i == EventAt(s)
           e == ev[i]
           m == Message(s)
<1>1. i \in Ids /\ num[i] = s /\ Done(i) /\ \A j \in Ids : num[j] = s => j = i
  BY EventFacts
<1>2. e.rec \in Records /\ e.rev \in Nat /\ e.rev <= body[e.rec]
  BY <1>1, NumberTypes
<1>3. body[e.rec] \in Nat /\ e.rec \in Nat /\ s \in Nat
  <2>1. body \in [Records -> Nat] /\ Records \subseteq Nat /\ Top \in Nat
    BY StreamAssumption, NumberTypes DEF TablesInv, TableShapes
  <2>2. s \in Nat
    BY <2>1
  <2>3. e.rec \in Nat /\ body[e.rec] \in Nat
    <3> HIDE DEF e
    <3> QED BY <1>2, <2>1
  <2> QED BY <2>2, <2>3
<1>4. Kind(s) \in {"up", "rm", "none"} /\ (Kind(s) = "up" => Visible(e.rec, body[e.rec]))
      /\ (Visible(e.rec, e.rev - 1) => Kind(s) # "none")
  BY DEF Kind
<1>5. m.kind = Kind(s) /\ m.id = s /\ m.rec = e.rec /\ m.rev = body[e.rec]
  BY DEF Message
<1>6. Kind(s) # "none" => m \in StreamMsgs
  BY <1>3, <1>4 DEF Message, StreamMsgs
<1> HIDE DEF m
<1>7. SoundMsg(m)
  <2>1. Unpassed(e.rec, body[e.rec], s)
    BY <1>2, CurrentUnpassed
  <2>2. m.rev <= body[m.rec]
    BY <1>3, <1>5
  <2> QED BY <1>1, <1>2, <1>4, <1>5, <2>1, <2>2 DEF SoundMsg
<1>8. s \in Wanted => Visible(e.rec, e.rev - 1)
  BY <1>1 DEF Wanted
<1> QED BY <1>4, <1>5, <1>6, <1>7, <1>8 DEF m

LEMMA FetchInv ==
    ASSUME StreamInv, Fetch
    PROVE  StreamInv'
<1>1. TablesInv /\ ReadersInv
  BY DEF StreamInv
<1>2. /\ sub.pc = "fetch" /\ sub' = [sub EXCEPT !.pc = "send", !.out = Messages]
      /\ chan' = chan /\ grid' = grid /\ exp' = exp /\ ref' = ref /\ UNCHANGED <<tables, relayState, clock>>
  BY DEF Fetch, client, export
<1>3. sub \in Subs /\ chan \in Seq(StreamMsgs) /\ grid \in Grids /\ exp \in Exports /\ ref \in [Records -> Int] /\ sub.cursor \in Nat
  BY <1>1 DEF ReadersInv, ReaderShapes, Subs
<1>4. PICK n \in 1..Top : sub.cursor < n /\ sub.got = (sub.cursor + 1)..n
  BY <1>1, <1>2 DEF ReadersInv, SubSound
<1>5. Top \in Nat /\ \A s \in sub.got : s \in 1..Top
  <2>1. Top \in Nat
    BY <1>1, NumberTypes
  <2> QED BY <1>3, <1>4, <2>1
<1>6. Told \in SUBSET Nat /\ IsFiniteSet(Told) /\ \A s \in Told : s \in sub.got /\ s \in 1..Top /\ Kind(s) # "none"
  <2>1. Told \in SUBSET (1..Top)
    BY <1>5 DEF Told
  <2>2. IsFiniteSet(1..Top)
    BY <1>5, FS_Interval
  <2>3. IsFiniteSet(Told)
    BY <2>1, <2>2, FS_Subset
  <2> QED BY <1>5, <2>1, <2>3 DEF Told
<1> DEFINE N == Cardinality(Told)
<1>7. N \in Nat
  BY <1>6, FS_CardinalityType
<1>8. /\ \A k \in 1..N : Nth(Told, k) \in Told
      /\ \A j, k \in 1..N : j < k => Nth(Told, j) < Nth(Told, k)
      /\ \A s \in Told : \E k \in 1..N : Nth(Told, k) = s
  BY <1>6, NthRank
<1>9. Messages = [k \in 1..N |-> Message(Nth(Told, k))]
  BY DEF Messages
<1> HIDE DEF N
<1>10. ASSUME NEW k \in 1..N
       PROVE  LET m == Message(Nth(Told, k)) IN
              m \in StreamMsgs /\ m.kind # "reset" /\ m.id = Nth(Told, k) /\ SoundMsg(m) /\ m.id \in sub.got
  <2> DEFINE s == Nth(Told, k)
  <2>1. s \in sub.got /\ s \in 1..Top /\ Kind(s) # "none"
    BY <1>6, <1>8
  <2> HIDE DEF s
  <2>2. /\ Kind(s) \in {"up", "rm", "none"} /\ Message(s).kind = Kind(s) /\ Message(s).id = s
        /\ Message(s) \in StreamMsgs /\ SoundMsg(Message(s))
    BY <1>1, <2>1, MessageSound
  <2> QED BY <2>1, <2>2 DEF s
<1>11. Messages \in Seq(StreamMsgs) /\ DOMAIN Messages = 1..N /\ \A k \in 1..N : Messages[k] = Message(Nth(Told, k))
  <2>1. Messages \in [1..N -> StreamMsgs]
    BY <1>9, <1>10
  <2> QED BY <1>7, <1>9, <2>1
<1>12. sub' \in Subs /\ sub'.pc = "send" /\ sub'.cursor = sub.cursor /\ sub'.got = sub.got /\ sub'.out = Messages
  BY <1>2, <1>3, <1>11 DEF Subs
<1>13. ReaderShapes'
  BY <1>2, <1>3, <1>12 DEF ReaderShapes
<1>14. SubSound(sub', chan', grid')
  BY <1>1, <1>2, <1>12 DEF ReadersInv, SubSound
<1>15. ChanSound(sub', chan', grid')
  BY <1>1, <1>2, <1>12 DEF ReadersInv, ChanSound, Reached
<1>16. OutSound(sub')
  <2>1. \A k \in DOMAIN Messages : Messages[k].kind # "reset" /\ SoundMsg(Messages[k]) /\ Messages[k].id \in sub.got
    BY <1>10, <1>11
  <2>2. Ordered(Messages)
    BY <1>8, <1>10, <1>11 DEF Ordered
  <2>3. ASSUME NEW s \in Wanted, s \in sub.got PROVE Said(Messages, s)
    <3>1. Kind(s) # "none"
      BY <1>1, <1>5, <2>3, MessageSound
    <3>2. s \in Told
      BY <2>3, <3>1 DEF Told
    <3>3. PICK k \in 1..N : Nth(Told, k) = s
      BY <1>8, <3>2
    <3> QED BY <1>10, <1>11, <3>3 DEF Said
  <2> QED BY <1>12, <2>1, <2>2, <2>3 DEF OutSound
<1>17. RowsSound(grid') /\ PagesSound'
  BY <1>1, <1>2, PagesStill DEF ReadersInv
<1> QED BY <1>1, <1>2, <1>13, <1>14, <1>15, <1>16, <1>17, ReaderStep

\* What the channel and a batch have together, in order, is complete up to the batch's end.
LEMMA JoinedSound ==
    ASSUME TablesInv, ReadersInv, sub.pc = "send", NEW n \in 1..Top, sub.cursor < n, sub.got = (sub.cursor + 1)..n
    PROVE  LET a == chan \o sub.out IN
           /\ a \in Seq(StreamMsgs)
           /\ \A k \in DOMAIN a : a[k].kind # "reset" /\ SoundMsg(a[k]) /\ grid.pos < a[k].id /\ a[k].id <= n
           /\ Ordered(a)
           /\ \A s \in Wanted : grid.pos < s /\ s <= n => Said(a, s)
<1> DEFINE a == chan \o sub.out
           L == Len(chan)
<1>1. chan \in Seq(StreamMsgs) /\ sub.out \in Seq(StreamMsgs) /\ sub.cursor \in Nat /\ grid.pos \in Nat /\ Top \in Nat /\ n \in Nat
  BY NumberTypes DEF ReadersInv, ReaderShapes, Subs, Grids
<1>2. ChanSound(sub, chan, grid) /\ OutSound(sub) /\ grid.pos <= sub.cursor
  BY DEF ReadersInv, SubSound
<1>3. L \in Nat /\ Len(sub.out) \in Nat /\ DOMAIN chan = 1..L /\ DOMAIN sub.out = 1..Len(sub.out)
  BY <1>1
<1>4. a \in Seq(StreamMsgs) /\ DOMAIN a = 1..(L + Len(sub.out))
      /\ \A k \in DOMAIN a : a[k] = IF k <= L THEN chan[k] ELSE sub.out[k - L]
  BY <1>1
<1>5. /\ \A k \in DOMAIN chan : k \in DOMAIN a /\ a[k] = chan[k]
      /\ \A k \in DOMAIN sub.out : k + L \in DOMAIN a /\ a[k + L] = sub.out[k]
  <2> HIDE DEF a, L
  <2>1. \A k \in DOMAIN chan : k \in DOMAIN a /\ k <= L
    BY <1>3, <1>4
  <2>2. ASSUME NEW k \in DOMAIN sub.out PROVE k + L \in DOMAIN a /\ ~(k + L <= L) /\ (k + L) - L = k
    BY <1>3, <1>4
  <2> QED BY <1>4, <2>1, <2>2
<1>6. \A k \in DOMAIN a : k \in Nat /\ ((k <= L /\ k \in DOMAIN chan /\ a[k] = chan[k])
                                        \/ (L < k /\ k - L \in DOMAIN sub.out /\ a[k] = sub.out[k - L]))
  BY <1>3, <1>4
<1> HIDE DEF a, L
<1>7. \A k \in DOMAIN chan : /\ chan[k].kind # "reset" /\ SoundMsg(chan[k])
                             /\ grid.pos < chan[k].id /\ chan[k].id <= sub.cursor /\ chan[k].id \in Nat
  <2>1. \A k \in DOMAIN chan : chan[k] \in StreamMsgs
    BY <1>1
  <2>2. \A k \in DOMAIN chan : chan[k].id \in Nat
    BY <2>1 DEF StreamMsgs
  <2> QED BY <1>2, <2>2 DEF ChanSound
<1>8. \A k \in DOMAIN sub.out : /\ sub.out[k].kind # "reset" /\ SoundMsg(sub.out[k]) /\ sub.out[k].id \in Nat
                                /\ sub.cursor < sub.out[k].id /\ sub.out[k].id <= n
  <2>1. \A k \in DOMAIN sub.out : sub.out[k].id \in (sub.cursor + 1)..n
    BY <1>2 DEF OutSound
  <2> QED BY <1>1, <1>2, <2>1 DEF OutSound
<1>9. ASSUME NEW k \in DOMAIN a
      PROVE  a[k].kind # "reset" /\ SoundMsg(a[k]) /\ grid.pos < a[k].id /\ a[k].id <= n
  <2>1. CASE k \in DOMAIN chan /\ a[k] = chan[k]
    BY <1>1, <1>7, <2>1
  <2>2. CASE k - L \in DOMAIN sub.out /\ a[k] = sub.out[k - L]
    BY <1>1, <1>2, <1>8, <2>2
  <2> QED BY <1>6, <2>1, <2>2
<1>10. Ordered(a)
  <2> SUFFICES ASSUME NEW j \in DOMAIN a, NEW k \in DOMAIN a, j < k PROVE a[j].id < a[k].id
    BY DEF Ordered
  <2>1. CASE k <= L
    <3>1. j <= L /\ j \in DOMAIN chan /\ a[j] = chan[j] /\ k \in DOMAIN chan /\ a[k] = chan[k]
      BY <1>3, <1>6, <2>1
    <3> QED BY <1>2, <1>7, <3>1 DEF ChanSound, Ordered
  <2>2. CASE L < k /\ j <= L
    <3>1. a[j] = chan[j] /\ j \in DOMAIN chan /\ k - L \in DOMAIN sub.out /\ a[k] = sub.out[k - L]
      BY <1>3, <1>6, <2>2
    <3> QED BY <1>1, <1>7, <1>8, <3>1
  <2>3. CASE L < j
    <3>1. j - L \in DOMAIN sub.out /\ a[j] = sub.out[j - L] /\ k - L \in DOMAIN sub.out /\ a[k] = sub.out[k - L] /\ j - L < k - L
      BY <1>3, <1>6, <2>3
    <3> QED BY <1>2, <1>8, <3>1 DEF OutSound, Ordered
  <2> QED BY <1>3, <1>6, <2>1, <2>2, <2>3
<1>11. ASSUME NEW s \in Wanted, grid.pos < s, s <= n PROVE Said(a, s)
  <2>1. s \in Nat
    BY NumberTypes
  <2>2. CASE s <= sub.cursor
    <3>1. Reached(sub, chan, s)
      BY <2>2 DEF Reached
    <3>2. Said(chan, s)
      BY <1>2, <1>11, <3>1 DEF ChanSound
    <3> QED BY <1>5, <3>2 DEF Said
  <2>3. CASE ~(s <= sub.cursor)
    <3>1. s \in sub.got
      BY <1>1, <1>11, <2>1, <2>3
    <3>2. PICK k \in DOMAIN sub.out : sub.out[k].kind # "reset" /\ sub.out[k].id = s
      BY <1>2, <3>1 DEF OutSound, Said
    <3> QED BY <1>5, <3>2 DEF Said
  <2> QED BY <2>2, <2>3
<1> QED BY <1>4, <1>9, <1>10, <1>11 DEF a

LEMMA SendInv ==
    ASSUME StreamInv, Send
    PROVE  StreamInv'
<1> DEFINE a == chan \o sub.out
<1>1. TablesInv /\ ReadersInv
  BY DEF StreamInv
<1>2. sub.pc = "send" /\ grid' = grid /\ exp' = exp /\ ref' = ref /\ UNCHANGED <<tables, relayState, clock>>
  BY DEF Send, client, export
<1>3. grid \in Grids /\ exp \in Exports /\ ref \in [Records -> Int] /\ sub.cursor \in Nat /\ Top \in Nat /\ grid.pos \in Nat
  BY <1>1, NumberTypes DEF ReadersInv, ReaderShapes, Subs, Grids
<1>4. PICK n \in 1..Top : sub.cursor < n /\ sub.got = (sub.cursor + 1)..n
  BY <1>1, <1>2 DEF ReadersInv, SubSound
<1>5. Max(sub.got) = n
  <2>1. n \in sub.got /\ \A y \in sub.got : n >= y /\ y \in Nat
    BY <1>3, <1>4
  <2>2. Max(sub.got) \in sub.got /\ \A y \in sub.got : Max(sub.got) >= y
    BY <2>1 DEF Max
  <2> QED BY <1>3, <2>1, <2>2
<1>6. /\ a \in Seq(StreamMsgs)
      /\ \A k \in DOMAIN a : a[k].kind # "reset" /\ SoundMsg(a[k]) /\ grid.pos < a[k].id /\ a[k].id <= n
      /\ Ordered(a)
      /\ \A s \in Wanted : grid.pos < s /\ s <= n => Said(a, s)
  BY <1>1, <1>2, <1>4, JoinedSound
<1>7. grid.pc = "on" /\ grid.pos <= sub.cursor
  BY <1>1, <1>2 DEF ReadersInv, SubSound
<1>8. RowsSound(grid') /\ PagesSound'
  BY <1>1, <1>2, PagesStill DEF ReadersInv
<1>9. Capacity \in Nat /\ Capacity # 0 /\ Len(a) \in Nat /\ DOMAIN a = 1..Len(a) /\ n \in Nat
  <2> HIDE DEF a
  <2> QED BY <1>3, <1>6, StreamAssumption
<1>10. CASE Len(a) <= Capacity
  <2>1. chan' = a /\ sub' = [NoSub EXCEPT !.pc = "idle", !.cursor = n]
    BY <1>5, <1>10 DEF Send
  <2>2. sub' \in Subs /\ sub'.pc = "idle" /\ sub'.cursor = n
    BY <1>9, <2>1, StartSub
  <2> HIDE DEF a
  <2>3. ReaderShapes'
    BY <1>2, <1>3, <1>6, <2>1, <2>2 DEF ReaderShapes
  <2>4. SubSound(sub', chan', grid')
    BY <1>2, <1>3, <1>4, <1>7, <1>9, <2>2 DEF SubSound
  <2>5. ChanSound(sub', chan', grid')
    <3>1. ASSUME NEW s \in Wanted, grid.pos < s, Reached(sub', a, s) PROVE Said(a, s)
      <4>1. s \in Nat
        BY <1>1, NumberTypes
      <4>2. s <= n
        <5>1. CASE s <= sub'.cursor
          BY <2>2, <5>1
        <5>2. CASE \E k \in DOMAIN a : a[k].kind # "reset" /\ s <= a[k].id
          <6>1. PICK k \in DOMAIN a : s <= a[k].id
            BY <5>2
          <6>2. a[k].id \in 1..Top /\ a[k].id <= n
            BY <1>6 DEF SoundMsg
          <6> QED BY <1>3, <1>9, <4>1, <6>1, <6>2
        <5> QED BY <3>1, <5>1, <5>2 DEF Reached
      <4> QED BY <1>6, <3>1, <4>2
    <3> QED BY <1>2, <1>6, <1>10, <2>1, <2>2, <3>1 DEF ChanSound
  <2>6. OutSound(sub')
    BY <2>2 DEF OutSound
  <2> QED BY <1>1, <1>2, <1>8, <2>3, <2>4, <2>5, <2>6, ReaderStep
<1>11. CASE ~(Len(a) <= Capacity)
  <2>1. chan' = SubSeq(a, 1, Capacity) /\ sub' = NoSub
    BY <1>11 DEF Send
  <2>2. sub' \in Subs /\ sub'.pc = "off" /\ sub'.cursor = 0
    BY <2>1 DEF NoSub, Subs
  <2> HIDE DEF a
  <2>3. /\ chan' \in Seq(StreamMsgs) /\ Len(chan') = Capacity /\ DOMAIN chan' = 1..Capacity
        /\ \A k \in 1..Capacity : k \in DOMAIN a /\ chan'[k] = a[k]
    BY <1>6, <1>9, <1>11, <2>1
  <2>4. ReaderShapes'
    BY <1>2, <1>3, <2>2, <2>3 DEF ReaderShapes
  <2>5. SubSound(sub', chan', grid')
    <3>1. grid.pos <= Top
      BY <1>1 DEF ReadersInv, SubSound
    <3> QED BY <1>2, <1>3, <1>7, <2>2, <3>1 DEF SubSound
  <2>6. ChanSound(sub', chan', grid')
    <3>1. \A k \in DOMAIN chan' : chan'[k].kind # "reset" /\ SoundMsg(chan'[k]) /\ grid'.pos < chan'[k].id
      BY <1>2, <1>6, <2>3
    <3>2. Ordered(chan')
      BY <1>6, <2>3 DEF Ordered
    <3>3. ASSUME NEW s \in Wanted, grid.pos < s, Reached(sub', chan', s) PROVE Said(chan', s)
      <4>1. PICK k \in 1..Capacity : s <= a[k].id
        BY <2>2, <2>3, <3>3 DEF Reached
      <4>2. s \in Nat /\ a[k].id \in Nat /\ a[k].id <= n
        BY <1>1, <1>3, <1>6, <2>3, NumberTypes DEF SoundMsg
      <4>3. s <= n
        BY <1>9, <4>1, <4>2
      <4>4. PICK j \in DOMAIN a : a[j].id = s
        BY <1>6, <3>3, <4>3 DEF Said
      <4>5. ~(k < j)
        <5> SUFFICES ASSUME k < j PROVE FALSE
          OBVIOUS
        <5>1. k \in DOMAIN a /\ a[k].kind # "reset" /\ a[j].kind # "reset"
          BY <1>6, <2>3
        <5>2. a[k].id < a[j].id
          BY <1>6, <5>1 DEF Ordered
        <5> QED BY <4>1, <4>2, <4>4, <5>2
      <4>6. j \in 1..Capacity
        BY <1>9, <4>5
      <4> QED BY <2>3, <3>1, <4>4, <4>6 DEF Said
    <3>4. Len(chan') <= Capacity
      BY <1>9, <2>3
    <3> QED BY <1>2, <2>2, <3>1, <3>2, <3>3, <3>4 DEF ChanSound
  <2>7. OutSound(sub')
    BY <2>2 DEF OutSound
  <2> QED BY <1>1, <1>2, <1>8, <2>4, <2>5, <2>6, <2>7, ReaderStep
<1> QED BY <1>10, <1>11

\* A record has one revision at a position.
LEMMA AtUnique ==
    ASSUME TablesInv, NEW r \in Records, NEW s, NEW v \in Int, NEW w \in Int, IsAt(r, s, v), IsAt(r, s, w)
    PROVE  v = w
<1>1. \A i \in Since(r, s) : ev[i].rev \in Nat
  BY NumberTypes DEF Since
<1>2. body[r] \in Nat
  BY DEF TablesInv, TableShapes
<1>3. ASSUME NEW x \in Int, NEW y \in Int, IsAt(r, s, x), IsAt(r, s, y) PROVE x <= y
  <2>1. CASE y = body[r]
    BY <1>3, <2>1 DEF IsAt
  <2>2. CASE \E i \in Since(r, s) : y = ev[i].rev - 1
    <3>1. PICK i \in Since(r, s) : y = ev[i].rev - 1
      BY <2>2
    <3>2. x < ev[i].rev /\ ev[i].rev \in Nat
      BY <1>1, <1>3 DEF IsAt
    <3> QED BY <3>1, <3>2
  <2> QED BY <1>3, <2>1, <2>2 DEF IsAt
<1>4. v <= w /\ w <= v
  BY <1>3
<1> QED BY <1>4

\* run_snapshot finds the revision at a position unless a later change has been collected.
LEMMA RestoreSound ==
    ASSUME TablesInv, NEW r \in Records, NEW s \in Nat
    PROVE  At(r, s) \in Int /\ ((\A i \in Of(r, "gone") : ~(num[i] > s)) => IsAt(r, s, At(r, s)))
<1> DEFINE C == Changes(r, s)
           R == {ev[i].rev : i \in C}
<1>1. \A i \in C : i \in Since(r, s) /\ i \in Ids /\ Done(i) /\ ev[i].rec = r
  BY DEF Changes, Of, Since, Done
<1>2. \A i \in C : ev[i].rev \in Nat /\ ev[i].rev # 0 /\ ev[i].rev <= body[r]
  BY <1>1, NumberTypes
<1>3. body[r] \in Nat
  BY DEF TablesInv, TableShapes
<1>4. ASSUME \A i \in Of(r, "gone") : ~(num[i] > s) PROVE Since(r, s) = C
  <2>1. ASSUME NEW i \in Since(r, s) PROVE i \in C
    <3>1. i \in Ids /\ Done(i) /\ ev[i].rec = r /\ (num[i] = 0 \/ num[i] > s)
      BY <2>1 DEF Since
    <3>2. ev[i].st # "gone"
      BY <1>4, <3>1 DEF Of, TablesInv, NumbersGiven
    <3> QED BY <3>1, <3>2 DEF Changes, Of, Done
  <2> QED BY <1>1, <2>1
<1> HIDE DEF C
<1>5. CASE C = {}
  <2>1. At(r, s) = body[r]
    BY <1>5 DEF At, C
  <2> QED BY <1>3, <1>4, <1>5, <2>1 DEF IsAt
<1>6. CASE C # {}
  <2>1. At(r, s) = Min(R) - 1
    BY <1>6 DEF At, C
  <2>2. R \in SUBSET Nat /\ R # {}
    BY <1>2, <1>6
  <2>3. Min(R) \in R /\ \A x \in R : Min(R) <= x
    <3> HIDE DEF R
    <3> QED BY <2>2, MinNat
  <2>4. PICK i \in C : Min(R) = ev[i].rev
    BY <2>3
  <2>5. \A j \in C : Min(R) <= ev[j].rev
    BY <2>3
  <2> DEFINE m == Min(R)
  <2> HIDE DEF m
  <2>6. m \in Nat /\ m <= body[r] /\ m = ev[i].rev /\ (\A j \in C : m <= ev[j].rev) /\ At(r, s) = m - 1
    BY <1>2, <2>1, <2>4, <2>5 DEF m
  <2>7. m - 1 \in Int /\ m - 1 <= body[r] /\ \A j \in C : m - 1 < ev[j].rev
    BY <1>2, <1>3, <2>6
  <2> QED BY <1>4, <2>4, <2>6, <2>7 DEF IsAt
<1> QED BY <1>5, <1>6

\* The reference is the table at the position that the first page fixes.
LEMMA RefSound ==
    ASSUME TablesInv, NEW q \in Records
    PROVE  LET v == Min({body[q]} \cup {ev[i].rev - 1 : i \in Changes(q, Top)}) IN v \in Int /\ IsAt(q, Top, v)
<1> DEFINE C == Changes(q, Top)
           S == {body[q]} \cup {ev[i].rev - 1 : i \in C}
           v == Min(S)
<1>1. Top \in Nat /\ \A i \in Ids : num[i] # 0 => num[i] \in 1..Top
  BY NumberTypes
<1>2. ASSUME NEW i \in Since(q, Top) PROVE i \in C
  <2>1. i \in Ids /\ Done(i) /\ ev[i].rec = q /\ (num[i] = 0 \/ num[i] > Top)
    BY <1>2 DEF Since
  <2>2. num[i] = 0
    BY <1>1, <2>1
  <2>3. ev[i].st # "gone"
    BY <2>1, <2>2 DEF TablesInv, NumbersGiven
  <2> QED BY <2>1, <2>2, <2>3 DEF Changes, Of, Done
<1>3. \A i \in C : i \in Since(q, Top) /\ ev[i].rev \in Nat /\ ev[i].rev # 0
  <2>1. \A i \in C : i \in Since(q, Top) /\ i \in Ids /\ Done(i)
    BY DEF Changes, Of, Since, Done
  <2> QED BY <2>1, NumberTypes
<1>4. body[q] \in Nat
  BY DEF TablesInv, TableShapes
<1> HIDE DEF C
<1>5. S \in SUBSET Nat /\ S # {}
  <2>1. \A i \in C : ev[i].rev - 1 \in Nat
    BY <1>3
  <2> QED BY <1>4, <2>1
<1>6. v \in S /\ \A x \in S : v <= x
  <2> HIDE DEF S
  <2> QED BY <1>5, MinNat
<1>7. v \in Nat /\ v <= body[q] /\ (\A i \in C : v <= ev[i].rev - 1) /\ (v = body[q] \/ \E i \in C : v = ev[i].rev - 1)
  BY <1>5, <1>6
<1> HIDE DEF v
<1>8. \A i \in C : v < ev[i].rev
  BY <1>3, <1>7
<1>9. v \in Int /\ IsAt(q, Top, v)
  BY <1>2, <1>3, <1>7, <1>8 DEF IsAt
<1> QED BY <1>9 DEF v, C

LEMMA ExportInv ==
    ASSUME StreamInv, ExportPage
    PROVE  StreamInv'
<1> DEFINE left == {r \in Records : exp.at < r}
           r == Min(left)
           s == IF exp.pc = "new" THEN Top ELSE exp.seq
<1>1. TablesInv /\ ReadersInv /\ PagesSound
  BY DEF StreamInv, ReadersInv
<1>2. /\ exp.pc \in {"new", "on"} /\ left # {}
      /\ exp' = IF ~Resumable(s) THEN [exp EXCEPT !.pc = "gone"]
                ELSE [exp EXCEPT !.pc = "on", !.seq = s, !.at = r, !.got[r] = At(r, s),
                                 !.holed = @ \/ \E i \in Of(r, "gone") : num[i] > s]
      /\ ref' = IF exp.pc # "new" THEN ref
                ELSE [q \in Records |-> Min({body[q]} \cup {ev[i].rev - 1 : i \in Changes(q, Top)})]
      /\ sub' = sub /\ chan' = chan /\ grid' = grid /\ UNCHANGED <<tables, relayState, clock>>
  BY DEF ExportPage, hub, client
<1>3. /\ sub \in Subs /\ chan \in Seq(StreamMsgs) /\ grid \in Grids /\ exp \in Exports /\ ref \in [Records -> Int]
      /\ exp.at \in Nat /\ exp.seq \in Nat /\ Top \in Nat
  BY <1>1, NumberTypes DEF ReadersInv, ReaderShapes, Exports
<1>4. r \in left /\ \A q \in left : r <= q
  <2>1. left \in SUBSET Nat
    BY StreamAssumption
  <2> HIDE DEF left
  <2> QED BY <1>2, <2>1, MinNat
<1>5. r \in Records /\ r \in Nat /\ exp.at < r /\ \A q \in Records : exp.at < q => r <= q
  BY <1>4, StreamAssumption
<1> HIDE DEF left, r
<1>6. s \in Nat /\ s <= Top
  BY <1>1, <1>2, <1>3 DEF PagesSound
<1>7. ref' \in [Records -> Int] /\ \A q \in Records : IsAt(q, s, ref'[q])
  <2>1. CASE exp.pc = "new"
    <3>1. \A q \in Records : ref'[q] = Min({body[q]} \cup {ev[i].rev - 1 : i \in Changes(q, Top)})
      BY <1>2, <2>1
    <3>2. \A q \in Records : ref'[q] \in Int /\ IsAt(q, Top, ref'[q])
      BY <1>1, <3>1, RefSound
    <3> QED BY <1>2, <2>1, <3>2
  <2>2. CASE exp.pc # "new"
    BY <1>1, <1>2, <1>3, <2>2 DEF PagesSound
  <2> QED BY <2>1, <2>2
<1>8. exp.pc = "new" => Resumable(s)
  BY <1>3 DEF Resumable
<1>9. exp' \in Exports /\ ref' \in [Records -> Int]
  <2>1. At(r, s) \in Int
    BY <1>1, <1>5, <1>6, RestoreSound
  <2> HIDE DEF s
  <2> QED BY <1>2, <1>3, <1>5, <1>6, <1>7, <2>1 DEF Exports
<1>10. ReaderShapes'
  BY <1>2, <1>3, <1>9 DEF ReaderShapes
<1>11. SubSound(sub', chan', grid') /\ ChanSound(sub', chan', grid') /\ OutSound(sub') /\ RowsSound(grid')
  BY <1>1, <1>2 DEF ReadersInv
<1>12. ev' = ev /\ body' = body /\ num' = num /\ next' = next
  BY <1>2 DEF tables
<1>13. CASE ~Resumable(s)
  <2>1. exp' = [exp EXCEPT !.pc = "gone"] /\ ref' = ref
    BY <1>2, <1>8, <1>13
  <2>2. exp'.pc = "gone" /\ exp'.at = exp.at /\ exp'.got = exp.got /\ exp'.holed = exp.holed
    BY <1>3, <2>1 DEF Exports
  <2>3. PagesSound'
    BY <1>1, <2>1, <2>2 DEF PagesSound, ExportSound
  <2> QED BY <1>1, <1>2, <1>10, <1>11, <2>3, ReaderStep
<1>14. CASE Resumable(s)
  <2>1. /\ exp'.pc = "on" /\ exp'.seq = s /\ exp'.at = r /\ exp'.got[r] = At(r, s)
        /\ \A q \in Records : q # r => exp'.got[q] = exp.got[q]
        /\ exp'.holed = (exp.holed \/ \E i \in Of(r, "gone") : num[i] > s)
    <3> HIDE DEF s
    <3> QED BY <1>2, <1>3, <1>5, <1>14 DEF Exports
  <2>2. ASSUME ~exp'.holed, NEW q \in Records, q <= r PROVE exp'.got[q] = ref'[q]
    <3>1. ~exp.holed /\ \A i \in Of(r, "gone") : ~(num[i] > s)
      BY <2>1, <2>2
    <3>2. CASE q = r
      <4>1. At(r, s) \in Int /\ IsAt(r, s, At(r, s))
        BY <1>1, <1>5, <1>6, <3>1, RestoreSound
      <4>2. ref'[r] \in Int /\ IsAt(r, s, ref'[r])
        BY <1>5, <1>7
      <4>3. At(r, s) = ref'[r]
        BY <1>1, <1>5, <4>1, <4>2, AtUnique
      <4> QED BY <2>1, <3>2, <4>3
    <3>3. CASE q # r
      <4>1. q \in Nat /\ q # 0 /\ q <= exp.at
        BY <1>3, <1>5, <2>2, <3>3, StreamAssumption
      <4>2. exp.pc # "new"
        BY <1>1, <4>1 DEF PagesSound
      <4>3. exp.got[q] = ref[q]
        BY <1>1, <3>1, <4>1 DEF PagesSound, ExportSound
      <4> QED BY <1>2, <2>1, <3>3, <4>2, <4>3
    <3> QED BY <3>2, <3>3
  <2>3. PagesSound'
    <3>1. exp'.seq <= Top'
      BY <1>6, <1>12, <2>1 DEF Top
    <3>2. \A q \in Records : IsAt(q, exp.seq, ref[q])'
      BY <1>7, <1>12, <2>1 DEF IsAt, Since, Done
    <3>3. ExportSound'
      BY <2>1, <2>2 DEF ExportSound
    <3> QED BY <2>1, <3>1, <3>2, <3>3 DEF PagesSound
  <2> QED BY <1>1, <1>2, <1>10, <1>11, <2>3, ReaderStep
<1> QED BY <1>13, <1>14

\* Steps of writers, relays, other consumers and the GC.
LEMMA TableStepInv ==
    ASSUME StreamInv,
           \/ \E r \in Records : Write(r)
           \/ \E i \in Ids : CommitWrite(i) \/ OtherDelivers(i)
           \/ \E p \in Relays : NumberStep(p) \/ RelayAbort(p)
           \/ Gc \/ Tick
    PROVE  StreamInv'
<1>1. TablesInv /\ ReadersInv
  BY DEF StreamInv
<1>2. TablesInv' /\ Grows
  BY <1>1, WriteTables, CommitTables, TickTables, ClaimTables, RelayCommitTables, GcTables DEF NumberStep
<1>3. UNCHANGED <<hub, client, export>>
  BY DEF Write, CommitWrite, OtherDelivers, NumberStep, RelayClaim, RelayCommit, RelayAbort, Gc, Tick
<1>4. ReadersInv'
  BY <1>1, <1>2, <1>3, GrowsReaders
<1> QED BY <1>2, <1>4 DEF StreamInv

LEMMA NextStream == StreamInv /\ [StreamNext]_streamVars => StreamInv'
<1> SUFFICES ASSUME StreamInv, [StreamNext]_streamVars PROVE StreamInv'
  OBVIOUS
<1>1. CASE UNCHANGED streamVars
  <2>1. UNCHANGED <<tables, relayState, clock, hub, client, export>>
    BY <1>1 DEF streamVars
  <2>2. UNCHANGED <<ev, body, num, next, numbering, clock>>
    BY <2>1 DEF tables, relayState
  <2>3. TablesInv /\ ReadersInv
    BY DEF StreamInv
  <2>4. TablesInv' /\ Grows
    BY <2>2, <2>3, TablesSame
  <2>5. ReadersInv'
    BY <2>1, <2>3, <2>4, GrowsReaders
  <2> QED BY <2>4, <2>5 DEF StreamInv
<1>2. CASE Hub
  BY <1>2, LoadInv, GapInv, FetchInv, SendInv DEF Hub
<1>3. CASE Grid \/ Disconnect
  BY <1>3, ReadFirstInv, ConnectInv, ReceiveInv DEF Grid
<1>4. CASE ExportPage
  BY <1>4, ExportInv
<1>5. CASE \/ \E r \in Records : Write(r)
           \/ \E i \in Ids : CommitWrite(i) \/ OtherDelivers(i)
           \/ \E p \in Relays : NumberStep(p) \/ RelayAbort(p)
           \/ Gc \/ Tick
  BY <1>5, TableStepInv
<1> QED BY <1>1, <1>2, <1>3, <1>4, <1>5 DEF StreamNext

\* The inductive invariant of the record stream, for any records, visible rows, relays, writes,
\* batch sizes, retention and faults.
THEOREM StreamInvariant == StreamSpec => []StreamInv
<1>1. StreamInit => StreamInv
  BY InitStream
<1>2. StreamInv /\ [StreamNext]_streamVars => StreamInv'
  BY NextStream
<1> QED BY <1>1, <1>2, PTL DEF StreamSpec

\* Competing relays that roll back give out the numbers 1, 2, ... without a hole or a repetition
\* (lock_consumer_seq, mark_delivered_seq).
THEOREM NumbersContiguous == StreamSpec => []Contiguous
<1>1. StreamInv => Contiguous
  <2> SUFFICES ASSUME StreamInv PROVE Contiguous
    OBVIOUS
  <2>1. TableShapes /\ NumbersGiven /\ ChanSound(sub, chan, grid) /\ SubSound(sub, chan, grid)
    BY DEF StreamInv, TablesInv, ReadersInv
  <2>2. \A i \in Ids : ev[i].st \in {"none", "open", "live", "gone"}
    BY <2>1 DEF TableShapes, Events
  <2> QED BY <2>1, <2>2 DEF Contiguous, StreamTypeOK, NumbersGiven, ChanSound, SubSound
<1> QED BY <1>1, StreamInvariant, PTL

\* The grid misses no change: a stale row has a change after Last-Event-ID or without a number
\* (load_batch, deliver, send_all, onUpserted, onRemoved).
THEOREM GridMissesNothing == StreamSpec => []NothingMissed
<1>1. StreamInv => NothingMissed
  <2> SUFFICES ASSUME StreamInv, NEW r \in Records, Stale(r) PROVE Awaited(r)
    BY DEF NothingMissed
  <2> DEFINE v == grid.rows[r]
  <2>1. TableShapes /\ TablesAgree /\ RowsSound(grid) /\ grid \in Grids
    BY DEF StreamInv, TablesInv, ReadersInv, ReaderShapes
  <2>2. v # 0 /\ v # Seen({r})[r] /\ v \in Nat /\ body[r] \in Nat
    BY <2>1 DEF Stale, Grids, TableShapes
  <2>3. Visible(r, v) /\ v <= body[r] /\ Unpassed(r, v, grid.pos)
    BY <2>1, <2>2 DEF RowsSound
  <2>4. v # body[r]
    BY <2>2, <2>3 DEF Seen
  <2>5. v + 1 \in 1..body[r]
    BY <2>2, <2>3, <2>4
  <2>6. PICK i \in Ids : Done(i) /\ ev[i].rec = r /\ ev[i].rev = v + 1
    BY <2>1, <2>5 DEF TablesAgree
  <2>7. num[i] = 0 \/ num[i] > grid.pos
    BY <2>3, <2>6 DEF Unpassed
  <2> QED BY <2>6, <2>7 DEF Awaited, Of, Done
<1> QED BY <1>1, StreamInvariant, PTL

\* Every page of an export shows the table at the position of the first one, or the export is
\* refused, unless the GC has taken a change after that position (run_snapshot).
THEOREM ExportsAreSound == StreamSpec => []ExportSound
<1>1. StreamInv => ExportSound
  BY DEF StreamInv, ReadersInv, PagesSound
<1> QED BY <1>1, StreamInvariant, PTL
=============================================================================
