--------------------------- MODULE JobQueue_proofs ---------------------------
(***************************************************************************)
(* Safety of JobQueue, of the ledger kept beside it (JobQueueLedger) and   *)
(* of its start tags (JobQueueFairness), for every number of tenants,      *)
(* producers, consumers, jobs and deliveries.  Three inductive invariants: *)
(* QueueInv, LedgerInv and FairInv; the last two contain the first.        *)
(***************************************************************************)
EXTENDS JobQueueLedger, JobQueueFairness, FiniteSetTheorems, TLAPS

LEMMA HoldersFinite ==
    ASSUME NEW i
    PROVE  IsFiniteSet(Holders(i)) /\ Cardinality(Holders(i)) \in Nat
  BY QueueAssumption, FS_Subset, FS_CardinalityType DEF Holders

\* A job that nobody has started is held by nobody.
LEMMA UnstartedUnheld ==
    ASSUME HoldersCounted, NEW i \in Queued, row[i].attempts = 0
    PROVE  Holders(i) = {}
  <1>1. Cardinality(Holders(i)) <= 0
    BY DEF HoldersCounted
  <1> QED
    BY <1>1, HoldersFinite, FS_EmptySet

LEMMA NoRowType == NoRow \in Row
  BY QueueAssumption DEF NoRow, NewRow, Row

LEMMA NewRowType ==
    ASSUME NEW t \in Tenants, NEW w \in Payloads, NEW n \in Nat
    PROVE  NewRow(t, w, n) \in Row /\ NewRow(t, w, n).attempts = 0
  BY DEF NewRow, Row

\* Removing rows keeps the tables well typed and restarts only removed rows.
LEMMA RemoveType ==
    ASSUME TypeOK, NEW S, NEW where \in {"none", "dead"}, Remove(S, where)
    PROVE  /\ place' \in [Ids -> {"none", "tx", "queue", "dead"}]
           /\ row' \in [Ids -> Row]
           /\ \A i \in Ids : i \in S => place'[i] = where
           /\ \A i \in Ids : i \notin S => place'[i] = place[i] /\ row'[i] = row[i]
  <1>1. \A i \in Ids : row[i].tenant \in Tenants /\ row[i].payload \in Payloads
    BY DEF TypeOK, Row
  <1>2. \A i \in Ids : NewRow(row[i].tenant, row[i].payload, 0) \in Row
    BY <1>1, NewRowType
  <1> QED
    BY <1>2 DEF Remove, TypeOK

LEMMA InitInv == Init => QueueInv
  <1> SUFFICES ASSUME Init PROVE QueueInv
    OBVIOUS
  <1>1. TypeOK
    BY NoRowType, QueueAssumption DEF Init, TypeOK, NoTx, NoId, Ids
  <1>2. \A i : Holders(i) = {}
    BY DEF Init, Holders
  <1>3. FreshIds /\ TxRowsPrivate /\ HoldersCounted /\ LockedStaysPending
    BY <1>2 DEF Init, FreshIds, TxRowsPrivate, HoldersCounted, LockedStaysPending, NoTx, Queued, NoId
  <1> QED
    BY <1>1, <1>3 DEF QueueInv

-----------------------------------------------------------------------------
(* One lemma per kind of step *)

\* Steps of a transaction that insert a row.
LEMMA EnqueueInv ==
    ASSUME QueueInv, NEW p \in Producers, NEW t \in Tenants, NEW w \in Payloads,
           NEW n \in Tags, Enqueue(p, t, w, n)
    PROVE  QueueInv'
  <1> USE DEF QueueInv
  <1>0. next_id \in Ids /\ place[next_id] = "none" /\ Holders(next_id) = {}
    BY DEF Enqueue, Insert, FreshIds, TypeOK, Ids
  <1>1. NewRow(t, w, n) \in Row /\ NewRow(t, w, n).attempts = 0
    BY NewRowType DEF Tags
  <1>2. \A i : Holders(i)' = Holders(i)
    BY DEF Enqueue, Holders
  <1>3. TypeOK'
    <2>1. place' \in [Ids -> {"none", "tx", "queue", "dead"}] /\ row' \in [Ids -> Row]
      BY <1>1 DEF Enqueue, Insert, TypeOK
    <2>2. next_id' \in 1..(MaxJobs + 1)
      BY <1>0, QueueAssumption DEF Enqueue, Insert, Ids
    <2>3. tx' \in [Producers -> [rows : SUBSET Ids, lock : Ids \cup {NoId}]]
      BY <1>0 DEF Enqueue, TypeOK
    <2> QED
      BY <2>1, <2>2, <2>3 DEF Enqueue, TypeOK
  <1>4. FreshIds'
    BY <1>0, <1>2 DEF Enqueue, Insert, TypeOK, FreshIds, Ids
  <1>5. \A q \in Producers : next_id \notin tx[q].rows /\ tx[q].lock # next_id
    BY <1>0 DEF TxRowsPrivate, LockedStaysPending, NoId, Ids
  <1>6. TxRowsPrivate'
    <2> SUFFICES ASSUME NEW q \in Producers, NEW i \in tx'[q].rows
                 PROVE  /\ place'[i] = "tx" /\ row'[i].attempts = 0 /\ Holders(i)' = {}
                        /\ \A r \in Producers \ {q} : i \notin tx'[r].rows
      BY DEF TxRowsPrivate
    <2>1. CASE i = next_id
      <3>1. q = p
        BY <2>1, <1>5 DEF Enqueue, TypeOK
      <3> QED
        BY <2>1, <3>1, <1>0, <1>1, <1>2, <1>5 DEF Enqueue, Insert, TypeOK
    <2>2. CASE i # next_id
      <3>1. i \in tx[q].rows /\ \A r \in Producers : i \in tx'[r].rows => i \in tx[r].rows
        BY <2>2 DEF Enqueue, TypeOK
      <3> QED
        BY <2>2, <3>1, <1>0, <1>2 DEF Enqueue, Insert, TypeOK, TxRowsPrivate
    <2> QED
      BY <2>1, <2>2
  <1>7. HoldersCounted'
    BY <1>0, <1>2 DEF Enqueue, Insert, TypeOK, HoldersCounted, Queued
  <1>8. LockedStaysPending'
    <2> SUFFICES ASSUME NEW q \in Producers, tx'[q].lock # NoId
                 PROVE  /\ place'[tx'[q].lock] =
                              (IF tx'[q].lock \in tx'[q].rows THEN "tx" ELSE "queue")
                        /\ row'[tx'[q].lock].attempts = 0
      BY DEF LockedStaysPending
    <2>1. /\ tx'[q].lock = tx[q].lock /\ tx[q].lock \in Ids /\ tx[q].lock # next_id
          /\ (tx[q].lock \in tx'[q].rows <=> tx[q].lock \in tx[q].rows)
      BY <1>5 DEF Enqueue, TypeOK
    <2> QED
      BY <2>1 DEF Enqueue, Insert, TypeOK, LockedStaysPending
  <1> QED
    BY <1>3, <1>4, <1>6, <1>7, <1>8

LEMMA SkipPendingInv ==
    ASSUME QueueInv, NEW p \in Producers, NEW t \in Tenants, NEW w \in Payloads,
           SkipPending(p, t, w)
    PROVE  QueueInv'
  <1> USE DEF QueueInv
  <1>1. PICK i \in Pending(p, t, w) : tx' = [tx EXCEPT ![p].lock = i]
    BY DEF SkipPending
  <1>2. /\ i \in Ids /\ row[i].attempts = 0
        /\ place[i] = (IF i \in tx[p].rows THEN "tx" ELSE "queue")
    BY DEF Pending, Seen, Queued, TypeOK, TxRowsPrivate
  <1>3. /\ UNCHANGED <<place, row, next_id, vt, held>>
        /\ \A j : Holders(j)' = Holders(j)
        /\ \A q \in Producers : tx'[q].rows = tx[q].rows
    BY <1>1 DEF SkipPending, Holders, TypeOK
  <1>4. TypeOK'
    BY <1>1, <1>2, <1>3 DEF TypeOK
  <1>5. FreshIds' /\ HoldersCounted' /\ TxRowsPrivate'
    BY <1>3 DEF FreshIds, HoldersCounted, TxRowsPrivate, Queued
  <1>6. LockedStaysPending'
    BY <1>1, <1>2, <1>3 DEF LockedStaysPending, TypeOK
  <1> QED
    BY <1>4, <1>5, <1>6

LEMMA EndTxInv ==
    ASSUME QueueInv, NEW p \in Producers, Commit(p) \/ Rollback(p)
    PROVE  QueueInv'
  <1> USE DEF QueueInv
  <1>1. /\ UNCHANGED <<next_id, vt, held>> /\ tx' = [tx EXCEPT ![p] = NoTx]
        /\ \A j : Holders(j)' = Holders(j)
    BY DEF Commit, Rollback, EndTx, Holders
  <1>2. /\ place' \in [Ids -> {"none", "tx", "queue", "dead"}] /\ row' \in [Ids -> Row]
        /\ \A i \in Ids : i \in tx[p].rows => place'[i] \in {"queue", "none"}
        /\ \A i \in Ids : i \notin tx[p].rows => place'[i] = place[i] /\ row'[i] = row[i]
    <2>1. CASE Commit(p)
      BY <2>1 DEF Commit, TypeOK
    <2>2. CASE Rollback(p)
      BY <2>2, RemoveType DEF Rollback
    <2> QED
      BY <2>1, <2>2
  <1>3. /\ TypeOK' /\ tx'[p].rows = {} /\ tx'[p].lock = NoId
        /\ \A q \in Producers : q # p => tx'[q] = tx[q]
    BY <1>1, <1>2 DEF TypeOK, NoTx, NoId
  <1>4. \A i \in tx[p].rows : i \in Ids /\ i < next_id /\ Holders(i) = {}
    BY DEF TxRowsPrivate, FreshIds, TypeOK
  <1>5. FreshIds'
    BY <1>1, <1>2, <1>4 DEF FreshIds
  <1>6. TxRowsPrivate'
    BY <1>1, <1>2, <1>3 DEF TxRowsPrivate, TypeOK
  <1>7. HoldersCounted'
    <2> SUFFICES ASSUME NEW i \in Ids, place'[i] = "queue"
                 PROVE  Cardinality(Holders(i)) <= row'[i].attempts
      BY <1>1 DEF HoldersCounted, Queued
    <2>1. CASE i \in tx[p].rows
      <3>1. Cardinality(Holders(i)) = 0
        BY <2>1, <1>4, FS_EmptySet
      <3>2. row'[i].attempts \in Nat
        BY <1>2 DEF Row
      <3> QED
        BY <3>1, <3>2
    <2>2. CASE i \notin tx[p].rows
      BY <2>2, <1>2 DEF HoldersCounted, Queued
    <2> QED
      BY <2>1, <2>2
  <1>8. LockedStaysPending'
    <2> SUFFICES ASSUME NEW q \in Producers, q # p, tx[q].lock # NoId
                 PROVE  /\ place'[tx[q].lock] =
                              (IF tx[q].lock \in tx[q].rows THEN "tx" ELSE "queue")
                        /\ row'[tx[q].lock].attempts = 0
      BY <1>3 DEF LockedStaysPending
    <2>1. tx[q].lock \in Ids /\ tx[q].lock \notin tx[p].rows
      BY DEF LockedStaysPending, TxRowsPrivate, TypeOK
    <2> QED
      BY <2>1, <1>2 DEF LockedStaysPending
  <1> QED
    BY <1>3, <1>5, <1>6, <1>7, <1>8

\* Claim adds one holder to every picked row and one to its attempts.
LEMMA ClaimInv ==
    ASSUME QueueInv, NEW c \in Consumers, NEW picked \in SUBSET Ids, Claim(c, picked)
    PROVE  QueueInv'
  <1> USE DEF QueueInv
  <1>1. /\ UNCHANGED <<place, next_id, tx>> /\ picked \subseteq Queued
        /\ \A q \in Producers : tx[q].lock \notin picked
    BY DEF Claim, IsPicked, Claimable, Locked
  <1>2. \A i \in Ids : /\ i \notin picked => row'[i] = row[i]
                       /\ i \in picked => row'[i].attempts = row[i].attempts + 1
                       /\ row'[i] \in Row
    <2> SUFFICES ASSUME NEW i \in Ids
                 PROVE  /\ i \notin picked => row'[i] = row[i]
                        /\ i \in picked => row'[i].attempts = row[i].attempts + 1
                        /\ row'[i] \in Row
      OBVIOUS
    <2>1. row[i] \in Row /\ row[i].attempts + 1 \in Nat
      BY DEF TypeOK, Row
    <2>2. row'[i] = IF i \in picked
                    THEN [row[i] EXCEPT !.attempts = row[i].attempts + 1, !.visible = FALSE]
                    ELSE row[i]
      BY DEF Claim
    <2> QED
      BY <2>1, <2>2 DEF Row
  <1>3. vt' \in Nat
    <2>1. PICK i \in picked : vt' = IF vt < row[i].fair_seq + 1 THEN row[i].fair_seq + 1 ELSE vt
      BY DEF Claim, AdvanceVt
    <2>2. row[i].fair_seq \in Nat /\ vt \in Nat
      BY DEF TypeOK, Row
    <2> QED
      BY <2>1, <2>2
  <1>4. TypeOK'
    BY <1>1, <1>2, <1>3 DEF Claim, TypeOK
  <1>5. \A i \in Ids : /\ i \in picked => Holders(i)' = Holders(i) \cup {c}
                       /\ i \notin picked => Holders(i)' = Holders(i)
    BY DEF Claim, Holders, TypeOK
  <1>6. FreshIds'
    BY <1>1, <1>5 DEF FreshIds, Queued
  <1>7. TxRowsPrivate'
    <2> SUFFICES ASSUME NEW q \in Producers, NEW i \in tx[q].rows
                 PROVE  row'[i].attempts = 0 /\ Holders(i)' = {}
      BY <1>1 DEF TxRowsPrivate
    <2>1. i \in Ids /\ i \notin picked
      BY <1>1 DEF TxRowsPrivate, Queued, TypeOK
    <2> QED
      BY <2>1, <1>2, <1>5 DEF TxRowsPrivate
  <1>8. HoldersCounted'
    <2> SUFFICES ASSUME NEW i \in Queued
                 PROVE  Cardinality(Holders(i)') <= row'[i].attempts
      BY <1>1 DEF HoldersCounted, Queued
    <2>1. Cardinality(Holders(i)) <= row[i].attempts /\ row[i].attempts \in Nat
      BY DEF HoldersCounted, TypeOK, Queued, Row
    <2>2. CASE i \in picked
      <3>1. Cardinality(Holders(i) \cup {c}) =
              IF c \in Holders(i) THEN Cardinality(Holders(i)) ELSE Cardinality(Holders(i)) + 1
        BY HoldersFinite, FS_AddElement
      <3>2. row'[i].attempts = row[i].attempts + 1 /\ Holders(i)' = Holders(i) \cup {c}
        BY <2>2, <1>2, <1>5 DEF Queued
      <3>3. Cardinality(Holders(i)) \in Nat
        BY HoldersFinite
      <3> QED
        BY <2>1, <3>1, <3>2, <3>3
    <2>3. CASE i \notin picked
      <3>1. row'[i] = row[i] /\ Holders(i)' = Holders(i)
        BY <2>3, <1>2, <1>5 DEF Queued
      <3> QED
        BY <2>1, <3>1
    <2> QED
      BY <2>2, <2>3
  <1>9. LockedStaysPending'
    <2> SUFFICES ASSUME NEW q \in Producers, tx[q].lock # NoId
                 PROVE  row'[tx[q].lock].attempts = 0
      BY <1>1 DEF LockedStaysPending
    <2>1. tx[q].lock \in Ids /\ tx[q].lock \notin picked
      BY <1>1 DEF TypeOK
    <2> QED
      BY <2>1, <1>2 DEF LockedStaysPending
  <1> QED
    BY <1>4, <1>6, <1>7, <1>8, <1>9

\* Time and heartbeats only change visibility.
LEMMA VisibilityInv ==
    ASSUME QueueInv, NEW i \in Ids,
           VisibleAgain(i) \/ \E c \in Consumers : Extend(c, i)
    PROVE  QueueInv'
  <1> USE DEF QueueInv
  <1>1. /\ UNCHANGED <<place, next_id, vt, tx, held>>
        /\ \E b \in BOOLEAN : row' = [row EXCEPT ![i].visible = b]
    BY DEF VisibleAgain, Extend
  <1>2. row' \in [Ids -> Row] /\ \A j \in Ids : row'[j].attempts = row[j].attempts
    BY <1>1 DEF TypeOK, Row
  <1>3. \A j : Holders(j)' = Holders(j)
    BY <1>1 DEF Holders
  <1> QED
    BY <1>1, <1>2, <1>3
    DEF TypeOK, FreshIds, TxRowsPrivate, HoldersCounted, LockedStaysPending, Queued

\* A consumer that gives a job up is one holder less.
LEMMA FewerHolders ==
    ASSUME TypeOK, NEW c \in Consumers, NEW i \in Ids, i \in held[c],
           held' = [held EXCEPT ![c] = @ \ {i}]
    PROVE  /\ Holders(i)' = Holders(i) \ {c} /\ c \in Holders(i)
           /\ \A j : j # i => Holders(j)' = Holders(j)
           /\ Cardinality(Holders(i)') = Cardinality(Holders(i)) - 1
  <1>1. Holders(i)' = Holders(i) \ {c} /\ c \in Holders(i)
    BY DEF Holders, TypeOK
  <1>2. \A j : j # i => Holders(j)' = Holders(j)
    BY DEF Holders, TypeOK
  <1>3. Cardinality(Holders(i) \ {c}) = Cardinality(Holders(i)) - 1
    BY <1>1, HoldersFinite, FS_RemoveElement
  <1> QED
    BY <1>1, <1>2, <1>3

\* Ack, fail, defer, kill: the row leaves the queue, or keeps enough attempts.
LEMMA SettleInv ==
    ASSUME QueueInv, NEW c \in Consumers, NEW i \in Ids,
           Ack(c, i) \/ Fail(c, i) \/ Defer(c, i) \/ Kill(c, i)
    PROVE  QueueInv'
  <1> USE DEF QueueInv
  <1>1. /\ i \in held[c] /\ held' = [held EXCEPT ![c] = @ \ {i}]
        /\ UNCHANGED <<next_id, vt, tx>>
    BY DEF Ack, Fail, Defer, Kill, Settle
  <1>2. /\ Holders(i)' = Holders(i) \ {c} /\ c \in Holders(i)
        /\ \A j : j # i => Holders(j)' = Holders(j)
        /\ Cardinality(Holders(i)') = Cardinality(Holders(i)) - 1
    BY <1>1, FewerHolders
  <1>3. /\ place' \in [Ids -> {"none", "tx", "queue", "dead"}] /\ row' \in [Ids -> Row]
        /\ \A j \in Ids : j # i => place'[j] = place[j] /\ row'[j] = row[j]
        /\ i \notin Queued => place'[i] = place[i] /\ row'[i] = row[i]
        /\ place'[i] = "queue" => row'[i].attempts >= row[i].attempts - 1
        /\ place'[i] # "none" => place[i] # "none"
    <2>0. row[i] \in Row /\ row[i].attempts \in Nat
      BY DEF TypeOK, Row
    <2>1. CASE Remove({i} \cap Queued, "none") \/ Remove({i} \cap Queued, "dead")
      BY <2>0, <2>1, RemoveType DEF Queued
    <2>2. CASE /\ i \in Queued /\ UNCHANGED place
               /\ \/ row' = [row EXCEPT ![i].visible = FALSE]
                  \/ row' = [row EXCEPT ![i].visible = FALSE,
                                        ![i].attempts = IF @ > 0 THEN @ - 1 ELSE 0]
      <3>1. \A j \in Ids : j # i => row'[j] = row[j]
        BY <2>2 DEF TypeOK
      <3>2. row'[i] \in Row /\ row'[i].attempts >= row[i].attempts - 1
        <4>1. PICK a \in Nat : /\ row'[i] = [row[i] EXCEPT !.visible = FALSE, !.attempts = a]
                               /\ a >= row[i].attempts - 1
          <5>1. CASE row' = [row EXCEPT ![i].visible = FALSE]
            <6>1. row'[i] = [row[i] EXCEPT !.visible = FALSE, !.attempts = row[i].attempts]
              BY <2>0, <5>1 DEF TypeOK, Row
            <6>2. row[i].attempts \in Nat /\ row[i].attempts >= row[i].attempts - 1
              BY <2>0
            <6> QED
              BY <6>1, <6>2, Zenon
          <5>2. CASE row' = [row EXCEPT ![i].visible = FALSE,
                                        ![i].attempts = IF @ > 0 THEN @ - 1 ELSE 0]
            <6> DEFINE a == IF row[i].attempts > 0 THEN row[i].attempts - 1 ELSE 0
            <6>1. row'[i] = [row[i] EXCEPT !.visible = FALSE, !.attempts = a]
              BY <5>2 DEF TypeOK
            <6>2. a \in Nat /\ a >= row[i].attempts - 1
              BY <2>0
            <6> QED
              BY <6>1, <6>2
          <5> QED
            BY <2>2, <5>1, <5>2
        <4>2. row'[i] \in Row
          BY <2>0, <4>1 DEF Row
        <4>3. row'[i].attempts = a
          BY <2>0, <4>1 DEF Row
        <4> QED
          BY <4>1, <4>2, <4>3
      <3>3. row' \in [Ids -> Row]
        BY <2>2, <3>1, <3>2 DEF TypeOK
      <3> QED
        BY <2>2, <3>1, <3>2, <3>3 DEF TypeOK, Queued
    <2>3. CASE i \notin Queued /\ UNCHANGED <<place, row>>
      BY <2>3 DEF TypeOK, Queued
    <2>4. \/ Remove({i} \cap Queued, "none") \/ Remove({i} \cap Queued, "dead")
          \/ /\ i \in Queued /\ UNCHANGED place
             /\ \/ row' = [row EXCEPT ![i].visible = FALSE]
                \/ row' = [row EXCEPT ![i].visible = FALSE,
                                      ![i].attempts = IF @ > 0 THEN @ - 1 ELSE 0]
          \/ i \notin Queued /\ UNCHANGED <<place, row>>
      BY DEF Ack, Fail, Defer, Kill
    <2> QED
      BY <2>1, <2>2, <2>3, <2>4
  <1>4. TypeOK'
    BY <1>1, <1>3 DEF TypeOK
  <1>5. FreshIds'
    BY <1>1, <1>2, <1>3 DEF FreshIds
  <1>6. \A q \in Producers : i \notin tx[q].rows /\ (tx[q].lock # NoId => tx[q].lock # i)
    <2> SUFFICES ASSUME NEW q \in Producers
                 PROVE  i \notin tx[q].rows /\ (tx[q].lock # NoId => tx[q].lock # i)
      OBVIOUS
    <2>1. i \notin tx[q].rows
      BY <1>2 DEF TxRowsPrivate
    <2>2. ASSUME tx[q].lock # NoId, tx[q].lock = i PROVE FALSE
      BY <1>2, <2>1, <2>2, UnstartedUnheld DEF LockedStaysPending, Queued
    <2> QED
      BY <2>1, <2>2
  <1>7. TxRowsPrivate'
    BY <1>1, <1>2, <1>3, <1>6 DEF TxRowsPrivate, TypeOK
  <1>8. HoldersCounted'
    <2> SUFFICES ASSUME NEW j \in Ids, place'[j] = "queue"
                 PROVE  Cardinality(Holders(j)') <= row'[j].attempts
      BY DEF HoldersCounted, Queued
    <2>1. CASE j = i
      <3>1. i \in Queued /\ Cardinality(Holders(i)) <= row[i].attempts
        BY <2>1, <1>3 DEF HoldersCounted, Queued
      <3>2. row[i].attempts \in Nat /\ row'[i].attempts \in Nat
        BY <1>3 DEF TypeOK, Row
      <3> QED
        BY <2>1, <3>1, <3>2, <1>2, <1>3, HoldersFinite
    <2>2. CASE j # i
      BY <2>2, <1>2, <1>3 DEF HoldersCounted, Queued
    <2> QED
      BY <2>1, <2>2
  <1>9. LockedStaysPending'
    BY <1>1, <1>3, <1>6 DEF LockedStaysPending, TypeOK
  <1> QED
    BY <1>4, <1>5, <1>7, <1>8, <1>9

LEMMA CrashInv ==
    ASSUME QueueInv, NEW c \in Consumers, Crash(c)
    PROVE  QueueInv'
  <1> USE DEF QueueInv
  <1>1. UNCHANGED <<place, row, next_id, vt, tx>> /\ held' = [held EXCEPT ![c] = {}]
    BY DEF Crash
  <1>2. TypeOK'
    BY <1>1 DEF TypeOK
  <1>3. \A i : Holders(i)' \subseteq Holders(i)
    BY <1>1 DEF Holders, TypeOK
  <1>4. FreshIds' /\ TxRowsPrivate' /\ LockedStaysPending'
    BY <1>1, <1>3 DEF FreshIds, TxRowsPrivate, LockedStaysPending
  <1>5. HoldersCounted'
    <2> SUFFICES ASSUME NEW i \in Queued
                 PROVE  Cardinality(Holders(i)') <= row[i].attempts
      BY <1>1 DEF HoldersCounted, Queued
    <2>1. /\ Cardinality(Holders(i)') <= Cardinality(Holders(i))
          /\ Cardinality(Holders(i)') \in Nat /\ Cardinality(Holders(i)) \in Nat
      BY <1>3, HoldersFinite, FS_Subset, FS_CardinalityType
    <2>2. Cardinality(Holders(i)) <= row[i].attempts /\ row[i].attempts \in Nat
      BY DEF HoldersCounted, TypeOK, Queued, Row
    <2> QED
      BY <2>1, <2>2
  <1> QED
    BY <1>2, <1>4, <1>5

LEMMA RequeueInv ==
    ASSUME QueueInv, NEW i \in Ids, NEW n \in Tags, RequeueDead(i, n)
    PROVE  QueueInv'
  <1> USE DEF QueueInv
  <1> DEFINE r == NewRow(row[i].tenant, row[i].payload, n)
  <1>1. /\ next_id \in Ids /\ place[next_id] = "none" /\ Holders(next_id) = {} /\ i # next_id
        /\ place[i] = "dead" /\ UNCHANGED <<vt, tx, held>> /\ \A j : Holders(j)' = Holders(j)
    BY DEF RequeueDead, FreshIds, TypeOK, Ids, Holders
  <1>2. r \in Row /\ r.attempts = 0
    <2>1. row[i].tenant \in Tenants /\ row[i].payload \in Payloads
      BY DEF TypeOK, Row
    <2> QED
      BY <2>1, NewRowType DEF Tags
  <1>3. /\ row' = [row EXCEPT ![next_id] = r] /\ next_id' = next_id + 1
        /\ place' = [place EXCEPT ![i] = "none", ![next_id] = "queue"]
    BY DEF RequeueDead
  <1> HIDE DEF r
  <1>4. TypeOK'
    <2>1. next_id' \in 1..(MaxJobs + 1)
      BY <1>1, <1>3, QueueAssumption DEF Ids
    <2> QED
      BY <1>1, <1>2, <1>3, <2>1 DEF TypeOK
  <1>5. \A q \in Producers : /\ next_id \notin tx[q].rows /\ i \notin tx[q].rows
                             /\ tx[q].lock # next_id /\ tx[q].lock # i
    BY <1>1 DEF TxRowsPrivate, LockedStaysPending, NoId, Ids
  <1>6. FreshIds'
    BY <1>1, <1>3 DEF FreshIds, TypeOK, Ids
  <1>7. TxRowsPrivate'
    BY <1>1, <1>3, <1>5 DEF TxRowsPrivate, TypeOK
  <1>8. HoldersCounted'
    <2> SUFFICES ASSUME NEW j \in Ids, place'[j] = "queue"
                 PROVE  Cardinality(Holders(j)) <= row'[j].attempts
      BY <1>1 DEF HoldersCounted, Queued
    <2>1. CASE j = next_id
      BY <2>1, <1>1, <1>2, <1>3, FS_EmptySet DEF TypeOK
    <2>2. CASE j # next_id
      BY <2>2, <1>1, <1>3 DEF HoldersCounted, Queued, TypeOK
    <2> QED
      BY <2>1, <2>2
  <1>9. LockedStaysPending'
    BY <1>1, <1>3, <1>5 DEF LockedStaysPending, TypeOK
  <1> QED
    BY <1>4, <1>6, <1>7, <1>8, <1>9

LEMMA DeleteTenantInv ==
    ASSUME QueueInv, NEW t \in Tenants, DeleteTenant(t)
    PROVE  QueueInv'
  <1> USE DEF QueueInv
  <1>1. UNCHANGED <<next_id, vt, tx, held>> /\ \A j : Holders(j)' = Holders(j)
    BY DEF DeleteTenant, Holders
  <1>2. /\ place' \in [Ids -> {"none", "tx", "queue", "dead"}] /\ row' \in [Ids -> Row]
        /\ \A i \in Ids : i \in Erased(t) => place'[i] = "none"
        /\ \A i \in Ids : i \notin Erased(t) => place'[i] = place[i] /\ row'[i] = row[i]
    BY RemoveType DEF DeleteTenant
  <1>3. TypeOK' /\ FreshIds'
    BY <1>1, <1>2 DEF TypeOK, FreshIds
  <1>4. \A q \in Producers : \A i \in tx[q].rows : i \in Ids /\ i \notin Erased(t)
    BY DEF TxRowsPrivate, Erased, TypeOK
  <1>5. TxRowsPrivate'
    BY <1>1, <1>2, <1>4 DEF TxRowsPrivate
  <1>6. HoldersCounted'
    BY <1>1, <1>2 DEF HoldersCounted, Queued
  <1>7. \A q \in Producers : tx[q].lock # NoId => tx[q].lock \in Ids /\ tx[q].lock \notin Erased(t)
    BY DEF DeleteTenant, Locked, TypeOK
  <1>8. LockedStaysPending'
    BY <1>1, <1>2, <1>7 DEF LockedStaysPending
  <1> QED
    BY <1>3, <1>5, <1>6, <1>8

-----------------------------------------------------------------------------

LEMMA NextInv == QueueInv /\ [Next]_vars => QueueInv'
  <1> SUFFICES ASSUME QueueInv, [Next]_vars PROVE QueueInv'
    OBVIOUS
  <1>1. CASE UNCHANGED vars
    BY <1>1 DEF QueueInv, TypeOK, FreshIds, TxRowsPrivate, HoldersCounted,
                LockedStaysPending, Queued, Holders, vars
  <1>2. CASE Next
    BY <1>2, EnqueueInv, SkipPendingInv, EndTxInv, ClaimInv, VisibilityInv, SettleInv,
       CrashInv, RequeueInv, DeleteTenantInv
    DEF Next, EnqueueUnlessPending
  <1> QED
    BY <1>1, <1>2

(* The tables stay well typed under every operation of jobq.                 *)
THEOREM TypeCorrect == Spec => []TypeOK
  BY InitInv, NextInv, PTL DEF Spec, QueueInv

(* attempts bounds the number of consumers working on a job: attempts = 0,   *)
(* the test of enqueue_unless_pending_on, means that nobody has started it.  *)
THEOREM AttemptsCountHolders == Spec => []HoldersCounted
  BY InitInv, NextInv, PTL DEF Spec, QueueInv

(* The job locked by enqueue_unless_pending_on is still there, unstarted,    *)
(* when the locking transaction commits.                                     *)
THEOREM LockHolds == Spec => []LockedStaysPending
  BY InitInv, NextInv, PTL DEF Spec, QueueInv

-----------------------------------------------------------------------------
(* The ledger *)

\* Deliveries whose ledger was read are not settled yet.
ScannedHeld == scanned \in [Consumers -> SUBSET Ids] /\ \A c \in Consumers : scanned[c] \subseteq held[c]

\* What an open transaction wrote has a job, which it inserted or keeps locked.
WrittenCovered ==
    /\ DOMAIN written = Producers
    /\ \A p \in Producers : \A k \in written[p] : \E i \in Ids :
          Work(i) = k /\ (i \in tx[p].rows \/ i = tx[p].lock)

LedgerInv == QueueInv /\ ScannedHeld /\ WrittenCovered /\ LedgerCovered

\* The contents of a job never change, and jobs do not disappear.
WorkStays == \A i \in Ids : place[i] # "none" => Work(i)' = Work(i)
JobsStay == \A i \in Ids : place[i] \in {"queue", "dead"} => place'[i] \in {"queue", "dead"}

\* The job of an open transaction is there, and nobody has it.
LEMMA OpenJobs ==
    ASSUME QueueInv, ScannedHeld, NEW p \in Producers, NEW i \in Ids, i \in tx[p].rows \/ i = tx[p].lock
    PROVE  /\ place[i] = (IF i \in tx[p].rows THEN "tx" ELSE "queue")
           /\ \A c \in Consumers : i \notin held[c] /\ i \notin scanned[c]
<1> USE DEF QueueInv
<1>1. CASE i \in tx[p].rows
  BY <1>1 DEF TxRowsPrivate, ScannedHeld, Holders
<1>2. CASE i \notin tx[p].rows
  <2>1. place[i] = "queue" /\ row[i].attempts = 0
    BY <1>2 DEF LockedStaysPending, NoId, Ids
  <2>2. Holders(i) = {}
    BY <2>1, UnstartedUnheld DEF Queued
  <2> QED BY <1>2, <2>1, <2>2 DEF Holders, ScannedHeld
<1> QED BY <1>1, <1>2

LEMMA WrittenKept ==
    ASSUME QueueInv, ScannedHeld, WrittenCovered, WorkStays, DOMAIN written' = Producers,
           \A p \in Producers : /\ written'[p] \subseteq written[p]
                                /\ written'[p] # {} => tx[p].rows \subseteq tx'[p].rows /\ tx'[p].lock = tx[p].lock
    PROVE  WrittenCovered'
<1> SUFFICES ASSUME NEW p \in Producers, NEW k \in written'[p]
             PROVE  \E i \in Ids : Work(i)' = k /\ (i \in tx'[p].rows \/ i = tx'[p].lock)
  BY DEF WrittenCovered
<1>1. PICK i \in Ids : Work(i) = k /\ (i \in tx[p].rows \/ i = tx[p].lock)
  BY DEF WrittenCovered
<1>2. place[i] # "none"
  BY <1>1, OpenJobs
<1>3. Work(i)' = k
  BY <1>1, <1>2 DEF WorkStays
<1> QED BY <1>1, <1>3

LEMMA LedgerKept ==
    ASSUME LedgerCovered, WorkStays, JobsStay, ledger' \subseteq ledger,
           \A c \in Consumers : scanned'[c] \subseteq scanned[c]
    PROVE  LedgerCovered'
<1> SUFFICES ASSUME NEW k \in ledger'
             PROVE  \E i \in Ids : /\ place'[i] \in {"queue", "dead"} /\ Work(i)' = k
                                   /\ \A c \in Consumers : i \notin scanned'[c]
  BY DEF LedgerCovered
<1>1. PICK i \in Ids : /\ place[i] \in {"queue", "dead"} /\ Work(i) = k
                       /\ \A c \in Consumers : i \notin scanned[c]
  BY DEF LedgerCovered
<1>2. place'[i] \in {"queue", "dead"} /\ Work(i)' = k
  BY <1>1 DEF WorkStays, JobsStay
<1> QED BY <1>1, <1>2

LEMMA LedgerInitInv == LedgerInit => LedgerInv
<1> SUFFICES ASSUME LedgerInit PROVE LedgerInv
  OBVIOUS
<1>1. QueueInv
  BY InitInv DEF LedgerInit
<1> QED BY <1>1 DEF LedgerInit, LedgerInv, ScannedHeld, WrittenCovered, LedgerCovered

\* A new row leaves the others as they are.
LEMMA InsertKeeps ==
    ASSUME QueueInv, next_id \in Ids, NEW r, row' = [row EXCEPT ![next_id] = r]
    PROVE  /\ WorkStays /\ place[next_id] = "none" /\ row'[next_id] = r
           /\ \A c \in Consumers : next_id \notin held[c]
<1>1. place[next_id] = "none" /\ Holders(next_id) = {}
  BY DEF QueueInv, FreshIds, TypeOK, Ids
<1>2. \A i \in Ids : i # next_id => row'[i] = row[i]
  BY DEF QueueInv, TypeOK
<1>3. row'[next_id] = r
  BY DEF QueueInv, TypeOK
<1> QED BY <1>1, <1>2, <1>3 DEF WorkStays, Work, Holders

\* A transaction writes, and finds or inserts a job.
LEMMA WriteKeeps ==
    ASSUME LedgerInv, NEW p \in Producers, NEW t \in Tenants, NEW w \in Payloads, Write(p, t, w)
    PROVE  LedgerInv'
<1> USE DEF LedgerInv
<1>1. QueueInv'
  BY SkipPendingInv, EnqueueInv DEF Write, EnqueueUnlessPending
<1>2. held' = held /\ scanned' = scanned /\ ledger' = ledger
  BY DEF Write, SkipPending, EnqueueUnlessPending, Enqueue
<1>3. ScannedHeld'
  BY <1>2 DEF ScannedHeld
<1>4. /\ DOMAIN written' = Producers /\ written'[p] = written[p] \cup {<<t, w>>}
      /\ \A q \in Producers \ {p} : written'[q] = written[q]
  BY DEF Write, WrittenCovered
<1>5. ASSUME WorkStays, \A q \in Producers \ {p} : tx'[q] = tx[q],
             tx[p].rows \subseteq tx'[p].rows, tx'[p].lock = tx[p].lock \/ tx[p].lock = NoId,
             \E i \in Ids : Work(i)' = <<t, w>> /\ (i \in tx'[p].rows \/ i = tx'[p].lock)
      PROVE  WrittenCovered'
  <2> SUFFICES ASSUME NEW q \in Producers, NEW k \in written'[q]
               PROVE  \E i \in Ids : Work(i)' = k /\ (i \in tx'[q].rows \/ i = tx'[q].lock)
    BY <1>4 DEF WrittenCovered
  <2>1. CASE q = p /\ k = <<t, w>>
    BY <1>5, <2>1
  <2>2. CASE ~(q = p /\ k = <<t, w>>)
    <3>1. k \in written[q]
      BY <1>4, <2>2
    <3>2. PICK i \in Ids : Work(i) = k /\ (i \in tx[q].rows \/ i = tx[q].lock)
      BY <3>1 DEF WrittenCovered
    <3>3. place[i] # "none" /\ i # NoId
      BY <3>2, OpenJobs DEF Ids, NoId
    <3>4. Work(i)' = k
      BY <1>5, <3>2, <3>3 DEF WorkStays
    <3>5. i \in tx'[q].rows \/ i = tx'[q].lock
      BY <1>5, <3>2, <3>3
    <3> QED BY <3>4, <3>5
  <2> QED BY <2>1, <2>2
<1>6. CASE SkipPending(p, t, w)
  <2>1. PICK i \in Pending(p, t, w) : tx' = [tx EXCEPT ![p].lock = i]
    BY <1>6 DEF SkipPending
  <2>2. place' = place /\ row' = row /\ tx[p].lock = NoId
    BY <1>6 DEF SkipPending
  <2>3. i \in Ids /\ Work(i) = <<t, w>>
    BY DEF Pending, Seen, Queued, QueueInv, TypeOK
  <2>4. WorkStays /\ JobsStay /\ Work(i)' = <<t, w>>
    BY <2>2, <2>3 DEF WorkStays, JobsStay, Work
  <2>5. /\ \A q \in Producers \ {p} : tx'[q] = tx[q]
        /\ tx'[p].rows = tx[p].rows /\ tx'[p].lock = i
    BY <2>1 DEF QueueInv, TypeOK
  <2>6. WrittenCovered'
    BY <1>5, <2>2, <2>3, <2>4, <2>5
  <2>7. LedgerCovered'
    BY <1>2, <2>4, LedgerKept
  <2> QED BY <1>1, <1>3, <2>6, <2>7
<1>7. ASSUME NEW n \in Tags, EnqueueUnlessPending(p, t, w, n)
      PROVE  LedgerInv'
  <2> DEFINE r == NewRow(t, w, n)
  <2>1. /\ next_id \in Ids /\ row' = [row EXCEPT ![next_id] = r] /\ tx[p].lock = NoId
        /\ place' = [place EXCEPT ![next_id] = "tx"] /\ tx' = [tx EXCEPT ![p].rows = @ \cup {next_id}]
    BY <1>7 DEF EnqueueUnlessPending, Enqueue, Insert
  <2>2. WorkStays /\ place[next_id] = "none" /\ row'[next_id] = r
    <3> HIDE DEF r
    <3> QED BY <2>1, InsertKeeps
  <2>3. PICK j \in Ids : j = next_id
    BY <2>1
  <2>8. Work(j)' = <<t, w>>
    BY <2>2, <2>3 DEF Work, NewRow
  <2>4. JobsStay
    BY <2>1, <2>2 DEF JobsStay, QueueInv, TypeOK
  <2>5. /\ \A q \in Producers \ {p} : tx'[q] = tx[q]
        /\ tx'[p].rows = tx[p].rows \cup {next_id} /\ tx'[p].lock = tx[p].lock
    BY <2>1 DEF QueueInv, TypeOK
  <2>6. WrittenCovered'
    BY <1>5, <2>1, <2>2, <2>3, <2>5, <2>8
  <2>7. LedgerCovered'
    BY <1>2, <2>2, <2>4, LedgerKept
  <2> QED BY <1>1, <1>3, <2>6, <2>7
<1> QED BY <1>6, <1>7 DEF Write

\* A transaction ends.
LEMMA LedgerEndKeeps ==
    ASSUME LedgerInv, NEW p \in Producers, LedgerCommit(p) \/ LedgerRollback(p)
    PROVE  LedgerInv'
<1> USE DEF LedgerInv
<1>1. QueueInv'
  BY EndTxInv DEF LedgerCommit, LedgerRollback
<1>2. held' = held /\ scanned' = scanned /\ tx' = [tx EXCEPT ![p] = NoTx]
  BY DEF LedgerCommit, LedgerRollback, Commit, Rollback, EndTx
<1>3. ScannedHeld'
  BY <1>2 DEF ScannedHeld
<1>4. /\ DOMAIN written' = Producers /\ written'[p] = {}
      /\ \A q \in Producers \ {p} : written'[q] = written[q] /\ tx'[q] = tx[q]
  BY <1>2 DEF LedgerCommit, LedgerRollback, WrittenCovered, QueueInv, TypeOK
<1>5. WorkStays => WrittenCovered'
  BY <1>4, WrittenKept
<1>6. \A i \in tx[p].rows : place[i] = "tx"
  BY DEF QueueInv, TxRowsPrivate
<1>7. CASE LedgerRollback(p)
  <2>1. Remove(tx[p].rows, "none") /\ ledger' = ledger
    BY <1>7 DEF LedgerRollback, Rollback
  <2>2. WorkStays
    BY <2>1 DEF Remove, WorkStays, Work, NewRow
  <2>3. JobsStay
    BY <1>6, <2>1 DEF Remove, JobsStay
  <2>4. LedgerCovered'
    BY <1>2, <2>1, <2>2, <2>3, LedgerKept
  <2> QED BY <1>1, <1>3, <1>5, <2>2, <2>4
<1>8. CASE LedgerCommit(p)
  <2>1. /\ place' = [i \in Ids |-> IF i \in tx[p].rows THEN "queue" ELSE place[i]]
        /\ row' = row /\ ledger' = ledger \cup written[p]
    BY <1>8 DEF LedgerCommit, Commit
  <2>2. WorkStays /\ JobsStay
    BY <2>1 DEF WorkStays, JobsStay, Work
  <2>3. LedgerCovered'
    <3> SUFFICES ASSUME NEW k \in ledger'
                 PROVE  \E i \in Ids : /\ place'[i] \in {"queue", "dead"} /\ Work(i)' = k
                                       /\ \A c \in Consumers : i \notin scanned[c]
      BY <1>2 DEF LedgerCovered
    <3>1. CASE k \in ledger
      <4>1. PICK i \in Ids : /\ place[i] \in {"queue", "dead"} /\ Work(i) = k
                             /\ \A c \in Consumers : i \notin scanned[c]
        BY <3>1 DEF LedgerCovered
      <4> QED BY <2>2, <4>1 DEF WorkStays, JobsStay
    <3>2. CASE k \in written[p]
      <4>1. PICK i \in Ids : Work(i) = k /\ (i \in tx[p].rows \/ i = tx[p].lock)
        BY <3>2 DEF WrittenCovered
      <4>2. /\ place[i] = (IF i \in tx[p].rows THEN "tx" ELSE "queue")
            /\ \A c \in Consumers : i \notin scanned[c]
        BY <4>1, OpenJobs
      <4>3. place'[i] = "queue" /\ Work(i)' = k
        BY <2>1, <2>2, <4>1, <4>2 DEF WorkStays
      <4> QED BY <4>2, <4>3
    <3> QED BY <2>1, <3>1, <3>2
  <2> QED BY <1>1, <1>3, <1>5, <2>2, <2>3
<1> QED BY <1>7, <1>8

\* A job reads the ledger.
LEMMA ScanKeeps ==
    ASSUME LedgerInv, NEW c \in Consumers, NEW i \in Ids, Scan(c, i)
    PROVE  LedgerInv'
<1> USE DEF LedgerInv
<1>1. /\ UNCHANGED vars /\ written' = written /\ i \in held[c]
      /\ scanned' = [scanned EXCEPT ![c] = @ \cup {i}] /\ ledger' = ledger \ {Work(i)}
  BY DEF Scan
<1>2. QueueInv'
  BY <1>1, NextInv
<1>3. place' = place /\ row' = row /\ tx' = tx /\ held' = held
  BY <1>1 DEF vars
<1>4. ScannedHeld'
  BY <1>1, <1>3 DEF ScannedHeld
<1>5. WorkStays
  BY <1>3 DEF WorkStays, Work
<1>6. WrittenCovered'
  <2>1. DOMAIN written = Producers
    BY DEF WrittenCovered
  <2> QED BY <1>1, <1>3, <1>5, <2>1, WrittenKept
<1>7. LedgerCovered'
  <2> SUFFICES ASSUME NEW k \in ledger, k # Work(i)
               PROVE  \E j \in Ids : /\ place'[j] \in {"queue", "dead"} /\ Work(j)' = k
                                     /\ \A d \in Consumers : j \notin scanned'[d]
    BY <1>1 DEF LedgerCovered
  <2>1. PICK j \in Ids : /\ place[j] \in {"queue", "dead"} /\ Work(j) = k
                         /\ \A d \in Consumers : j \notin scanned[d]
    BY DEF LedgerCovered
  <2>2. j # i
    BY <2>1
  <2>3. \A d \in Consumers : j \notin scanned'[d]
    BY <1>1, <2>1, <2>2 DEF ScannedHeld
  <2>4. place'[j] = place[j] /\ Work(j)' = k
    BY <1>3, <1>5, <2>1 DEF WorkStays
  <2> QED BY <2>1, <2>3, <2>4
<1> QED BY <1>2, <1>4, <1>6, <1>7

\* A delivery is settled.
LEMMA LedgerSettleKeeps ==
    ASSUME LedgerInv, NEW c \in Consumers, NEW i \in Ids, LedgerSettle(c, i)
    PROVE  LedgerInv'
<1> USE DEF LedgerInv
<1>1. QueueInv'
  BY SettleInv DEF LedgerSettle
<1>2. /\ scanned' = [scanned EXCEPT ![c] = @ \ {i}] /\ ledger' = ledger /\ written' = written
      /\ tx' = tx /\ held' = [held EXCEPT ![c] = @ \ {i}]
  BY DEF LedgerSettle, Ack, Fail, Defer, Kill, Settle
<1>3. ScannedHeld'
  BY <1>2 DEF ScannedHeld, QueueInv, TypeOK
<1>4. WorkStays /\ \A j \in Ids : j # i => place'[j] = place[j]
  <2>1. CASE Remove({i} \cap Queued, "none") \/ Remove({i} \cap Queued, "dead")
    BY <2>1 DEF Remove, WorkStays, Work, NewRow
  <2>2. CASE /\ place' = place
             /\ row' = row \/ row' = [row EXCEPT ![i].visible = FALSE]
    BY <2>2 DEF WorkStays, Work, QueueInv, TypeOK, Row
  <2>3. CASE /\ place' = place
             /\ row' = [row EXCEPT ![i].visible = FALSE, ![i].attempts = IF @ > 0 THEN @ - 1 ELSE 0]
    <3>1. PICK a : row' = [row EXCEPT ![i].visible = FALSE, ![i].attempts = a]
      BY <2>3 DEF QueueInv, TypeOK, Row
    <3> QED BY <2>3, <3>1 DEF WorkStays, Work, QueueInv, TypeOK, Row
  <2> QED BY <2>1, <2>2, <2>3 DEF LedgerSettle, Ack, Fail, Defer, Kill
<1>5. WrittenCovered'
  <2>1. DOMAIN written = Producers
    BY DEF WrittenCovered
  <2> QED BY <1>2, <1>4, <2>1, WrittenKept
<1>6. \A d \in Consumers : scanned'[d] \subseteq scanned[d]
  BY <1>2 DEF ScannedHeld
<1>7. CASE Ack(c, i) /\ i \in scanned[c]
  <2> SUFFICES ASSUME NEW k \in ledger
               PROVE  \E j \in Ids : /\ place'[j] \in {"queue", "dead"} /\ Work(j)' = k
                                     /\ \A d \in Consumers : j \notin scanned'[d]
    BY <1>1, <1>2, <1>3, <1>5 DEF LedgerCovered
  <2>1. PICK j \in Ids : /\ place[j] \in {"queue", "dead"} /\ Work(j) = k
                         /\ \A d \in Consumers : j \notin scanned[d]
    BY DEF LedgerCovered
  <2>2. j # i
    BY <1>7, <2>1
  <2>3. place'[j] = place[j] /\ Work(j)' = k /\ \A d \in Consumers : j \notin scanned'[d]
    BY <1>4, <1>6, <2>1, <2>2 DEF WorkStays
  <2> QED BY <2>1, <2>3
<1>8. CASE Fail(c, i) \/ Defer(c, i) \/ Kill(c, i)
  <2>1. JobsStay
    BY <1>8 DEF JobsStay, Fail, Defer, Kill, Remove
  <2>2. LedgerCovered'
    BY <1>2, <1>4, <1>6, <2>1, LedgerKept
  <2> QED BY <1>1, <1>3, <1>5, <2>2
<1> QED BY <1>7, <1>8 DEF LedgerSettle

\* A consumer dies.
LEMMA LedgerCrashKeeps ==
    ASSUME LedgerInv, NEW c \in Consumers, LedgerCrash(c)
    PROVE  LedgerInv'
<1> USE DEF LedgerInv
<1>1. QueueInv'
  BY CrashInv DEF LedgerCrash
<1>2. /\ place' = place /\ row' = row /\ tx' = tx /\ ledger' = ledger /\ written' = written
      /\ held' = [held EXCEPT ![c] = {}] /\ scanned' = [scanned EXCEPT ![c] = {}]
  BY DEF LedgerCrash, Crash
<1>3. ScannedHeld'
  BY <1>2 DEF ScannedHeld, QueueInv, TypeOK
<1>4. WorkStays /\ JobsStay /\ \A d \in Consumers : scanned'[d] \subseteq scanned[d]
  BY <1>2 DEF WorkStays, JobsStay, Work, ScannedHeld
<1>5. DOMAIN written = Producers
  BY DEF WrittenCovered
<1> QED BY <1>1, <1>2, <1>3, <1>4, <1>5, WrittenKept, LedgerKept

\* A tenant is erased, with its ledger.
LEMMA LedgerEraseKeeps ==
    ASSUME LedgerInv, NEW t \in Tenants, LedgerErase(t)
    PROVE  LedgerInv'
<1> USE DEF LedgerInv
<1>1. QueueInv'
  BY DeleteTenantInv DEF LedgerErase
<1>2. /\ Remove(Erased(t), "none") /\ ledger' = {k \in ledger : k[1] # t}
      /\ tx' = tx /\ held' = held /\ written' = written /\ scanned' = scanned
  BY DEF LedgerErase, DeleteTenant
<1>3. ScannedHeld' /\ DOMAIN written = Producers
  BY <1>2 DEF ScannedHeld, WrittenCovered
<1>4. WorkStays
  BY <1>2 DEF Remove, WorkStays, Work, NewRow
<1>5. WrittenCovered'
  BY <1>2, <1>3, <1>4, WrittenKept
<1>6. LedgerCovered'
  <2> SUFFICES ASSUME NEW k \in ledger, k[1] # t
               PROVE  \E j \in Ids : /\ place'[j] \in {"queue", "dead"} /\ Work(j)' = k
                                     /\ \A d \in Consumers : j \notin scanned[d]
    BY <1>2 DEF LedgerCovered
  <2>1. PICK j \in Ids : /\ place[j] \in {"queue", "dead"} /\ Work(j) = k
                         /\ \A d \in Consumers : j \notin scanned[d]
    BY DEF LedgerCovered
  <2>2. row[j].tenant # t
    BY <2>1 DEF Work
  <2>3. place'[j] = place[j]
    BY <1>2, <2>2 DEF Remove, Erased
  <2>4. Work(j)' = k
    BY <1>4, <2>1 DEF WorkStays
  <2> QED BY <2>1, <2>3, <2>4
<1> QED BY <1>1, <1>3, <1>5, <1>6

\* A job hands the rest of the ledger to another, which exists or is new.
LEMMA ContinueQueueInv ==
    ASSUME QueueInv, NEW c \in Consumers, NEW i \in Ids, Continue(c, i)
    PROVE  QueueInv'
<1> USE DEF QueueInv
<1> DEFINE done == {i} \cap Queued
<1>1. i \in held[c] /\ held' = [held EXCEPT ![c] = @ \ {i}] /\ vt' = vt /\ tx' = tx
  BY DEF Continue
<1>2. /\ Holders(i)' = Holders(i) \ {c} /\ c \in Holders(i)
      /\ \A j : j # i => Holders(j)' = Holders(j)
  BY <1>1, FewerHolders
<1>3. \A q \in Producers : i \notin tx[q].rows /\ tx[q].lock # i
  <2> SUFFICES ASSUME NEW q \in Producers
               PROVE  i \notin tx[q].rows /\ tx[q].lock # i
    OBVIOUS
  <2>1. i \notin tx[q].rows
    BY <1>2 DEF TxRowsPrivate
  <2>2. ASSUME tx[q].lock = i PROVE FALSE
    <3>1. i \in Queued /\ row[i].attempts = 0
      BY <2>1, <2>2 DEF LockedStaysPending, NoId, Ids, Queued
    <3> QED BY <1>2, <3>1, UnstartedUnheld
  <2> QED BY <2>1, <2>2
<1>4. held' \in [Consumers -> SUBSET Ids]
  BY <1>1 DEF TypeOK
<1>5. CASE Remove(done, "none") /\ next_id' = next_id
  <2>1. /\ place' \in [Ids -> {"none", "tx", "queue", "dead"}] /\ row' \in [Ids -> Row]
        /\ \A j \in Ids : j \in done => place'[j] = "none"
        /\ \A j \in Ids : j \notin done => place'[j] = place[j] /\ row'[j] = row[j]
    BY <1>5, RemoveType
  <2>2. TypeOK'
    BY <1>1, <1>4, <1>5, <2>1 DEF TypeOK
  <2>3. FreshIds'
    BY <1>2, <1>5, <2>1 DEF FreshIds, Queued
  <2>4. TxRowsPrivate'
    BY <1>1, <1>2, <1>3, <2>1 DEF TxRowsPrivate, TypeOK
  <2>5. HoldersCounted'
    <3> SUFFICES ASSUME NEW j \in Ids, place'[j] = "queue"
                 PROVE  Cardinality(Holders(j)') <= row'[j].attempts
      BY DEF HoldersCounted, Queued
    <3>1. j \notin done /\ place[j] = "queue" /\ row'[j] = row[j]
      BY <2>1
    <3>2. j # i
      BY <3>1 DEF Queued
    <3> QED BY <1>2, <3>1, <3>2 DEF HoldersCounted, Queued
  <2>6. LockedStaysPending'
    BY <1>1, <1>3, <2>1 DEF LockedStaysPending, TypeOK
  <2> QED BY <2>2, <2>3, <2>4, <2>5, <2>6
<1>6. ASSUME NEW n \in Tags, next_id \in Ids, next_id' = next_id + 1,
             row' = [row EXCEPT ![next_id] = NewRow(row[i].tenant, row[i].payload, n)],
             place' = [j \in Ids |-> IF j = next_id THEN "queue"
                                     ELSE IF j \in done THEN "none" ELSE place[j]]
      PROVE  QueueInv'
  <2> DEFINE r == NewRow(row[i].tenant, row[i].payload, n)
  <2>1. r \in Row /\ r.attempts = 0
    <3>1. row[i].tenant \in Tenants /\ row[i].payload \in Payloads
      BY DEF TypeOK, Row
    <3> QED BY <3>1, NewRowType DEF Tags
  <2>2. row' = [row EXCEPT ![next_id] = r]
    BY <1>6
  <2> HIDE DEF r
  <2>3. place[next_id] = "none" /\ Holders(next_id) = {} /\ i # next_id
    BY <1>2, <1>6 DEF FreshIds, TypeOK, Ids
  <2>4. TypeOK'
    <3>1. next_id' \in 1..(MaxJobs + 1)
      BY <1>6, QueueAssumption DEF Ids
    <3> QED BY <1>1, <1>4, <1>6, <2>1, <2>2, <3>1 DEF TypeOK
  <2>5. /\ row'[next_id] = r /\ place'[next_id] = "queue"
        /\ \A j \in Ids : j # next_id => row'[j] = row[j]
        /\ \A j \in Ids : j # next_id /\ j # i => place'[j] = place[j]
        /\ place'[i] # "queue" /\ (place'[i] # "none" => place[i] # "none")
    BY <1>6, <2>2, <2>3 DEF TypeOK, Queued
  <2>6. FreshIds'
    BY <1>2, <1>6, <2>3, <2>5 DEF FreshIds, TypeOK, Ids
  <2>7. \A q \in Producers : next_id \notin tx[q].rows /\ tx[q].lock # next_id
    BY <1>6, <2>3 DEF TxRowsPrivate, LockedStaysPending, NoId, Ids
  <2>8. TxRowsPrivate'
    BY <1>1, <1>2, <1>3, <2>5, <2>7 DEF TxRowsPrivate, TypeOK
  <2>9. HoldersCounted'
    <3> SUFFICES ASSUME NEW j \in Ids, place'[j] = "queue"
                 PROVE  Cardinality(Holders(j)') <= row'[j].attempts
      BY DEF HoldersCounted, Queued
    <3>1. CASE j = next_id
      BY <1>2, <2>1, <2>3, <2>5, <3>1, FS_EmptySet
    <3>2. CASE j # next_id
      BY <1>2, <2>5, <3>2 DEF HoldersCounted, Queued
    <3> QED BY <3>1, <3>2
  <2>10. LockedStaysPending'
    BY <1>1, <1>3, <2>5, <2>7 DEF LockedStaysPending, TypeOK
  <2> QED BY <2>4, <2>6, <2>8, <2>9, <2>10
<1> QED BY <1>5, <1>6 DEF Continue

LEMMA ContinueKeeps ==
    ASSUME LedgerInv, NEW c \in Consumers, NEW i \in Ids, Continue(c, i)
    PROVE  LedgerInv'
<1> USE DEF LedgerInv
<1> DEFINE done == {i} \cap Queued
<1>1. QueueInv'
  BY ContinueQueueInv
<1>2. /\ held' = [held EXCEPT ![c] = @ \ {i}] /\ tx' = tx /\ scanned' = scanned
      /\ ledger' = ledger /\ written' = written /\ i \in held[c] /\ i \notin scanned[c]
  BY DEF Continue
<1>3. ScannedHeld' /\ DOMAIN written = Producers
  BY <1>2 DEF ScannedHeld, WrittenCovered, QueueInv, TypeOK
<1>4. ASSUME WorkStays, \A j \in Ids : j # i /\ place[j] \in {"queue", "dead"} => place'[j] \in {"queue", "dead"},
             \E j \in Ids : /\ place'[j] = "queue" /\ Work(j)' = Work(i)
                            /\ \A d \in Consumers : j \notin scanned[d]
      PROVE  LedgerInv'
  <2>1. WrittenCovered'
    BY <1>2, <1>3, <1>4, WrittenKept
  <2>2. LedgerCovered'
    <3> SUFFICES ASSUME NEW k \in ledger
                 PROVE  \E j \in Ids : /\ place'[j] \in {"queue", "dead"} /\ Work(j)' = k
                                       /\ \A d \in Consumers : j \notin scanned[d]
      BY <1>2 DEF LedgerCovered
    <3>1. CASE k = Work(i)
      BY <1>4, <3>1
    <3>2. CASE k # Work(i)
      <4>1. PICK j \in Ids : /\ place[j] \in {"queue", "dead"} /\ Work(j) = k
                             /\ \A d \in Consumers : j \notin scanned[d]
        BY DEF LedgerCovered
      <4>2. j # i
        BY <3>2, <4>1
      <4>3. place'[j] \in {"queue", "dead"} /\ Work(j)' = k
        BY <1>4, <4>1, <4>2 DEF WorkStays
      <4> QED BY <4>1, <4>3
    <3> QED BY <3>1, <3>2
  <2> QED BY <1>1, <1>3, <2>1, <2>2
<1>5. ASSUME NEW j \in Queued, Work(j) = Work(i), row[j].attempts = 0, Remove(done, "none")
      PROVE  LedgerInv'
  <2>1. Holders(j) = {} /\ j \in Ids /\ place[j] = "queue"
    BY <1>5, UnstartedUnheld DEF Queued, QueueInv
  <2>2. j # i /\ \A d \in Consumers : j \notin scanned[d]
    BY <1>2, <2>1 DEF Holders, ScannedHeld
  <2>3. WorkStays /\ \A x \in Ids : x # i => place'[x] = place[x]
    BY <1>5 DEF Remove, WorkStays, Work, NewRow
  <2>4. place'[j] = "queue" /\ Work(j)' = Work(i)
    BY <1>5, <2>1, <2>2, <2>3 DEF WorkStays
  <2>5. \A x \in Ids : x # i /\ place[x] \in {"queue", "dead"} => place'[x] \in {"queue", "dead"}
    BY <2>3
  <2> QED BY <1>4, <2>1, <2>2, <2>3, <2>4, <2>5
<1>6. ASSUME NEW n \in Tags, next_id \in Ids,
             row' = [row EXCEPT ![next_id] = NewRow(row[i].tenant, row[i].payload, n)],
             place' = [j \in Ids |-> IF j = next_id THEN "queue"
                                     ELSE IF j \in done THEN "none" ELSE place[j]]
      PROVE  LedgerInv'
  <2> DEFINE r == NewRow(row[i].tenant, row[i].payload, n)
  <2>1. r.tenant = row[i].tenant /\ r.payload = row[i].payload /\ row' = [row EXCEPT ![next_id] = r]
    BY <1>6 DEF NewRow
  <2> HIDE DEF r
  <2>2. WorkStays /\ row'[next_id] = r /\ \A d \in Consumers : next_id \notin held[d]
    BY <1>6, <2>1, InsertKeeps
  <2>3. PICK j \in Ids : j = next_id
    BY <1>6
  <2>4. Work(j)' = Work(i) /\ place'[j] = "queue"
    BY <1>6, <2>1, <2>2, <2>3 DEF Work
  <2>5. \A d \in Consumers : j \notin scanned[d]
    BY <2>2, <2>3 DEF ScannedHeld
  <2>6. \A x \in Ids : x # i /\ place[x] \in {"queue", "dead"} => place'[x] \in {"queue", "dead"}
    BY <1>6
  <2> QED BY <1>4, <2>2, <2>4, <2>5, <2>6
<1> QED BY <1>5, <1>6 DEF Continue

\* Claims, heartbeats and time leave jobs and ledger alone; a job of the DLQ gets a new row.
LEMMA QueueOnlyKeeps ==
    ASSUME LedgerInv, QueueOnly
    PROVE  LedgerInv'
<1> USE DEF LedgerInv
<1>0. scanned' = scanned /\ ledger' = ledger /\ written' = written /\ DOMAIN written = Producers
  BY DEF QueueOnly, WrittenCovered
<1>1. QueueInv'
  BY ClaimInv, VisibilityInv, RequeueInv DEF QueueOnly
<1>2. tx' = tx
  BY DEF QueueOnly, Claim, Extend, VisibleAgain, RequeueDead
<1>3. WorkStays => WrittenCovered'
  BY <1>0, <1>2, WrittenKept
<1>4. WorkStays /\ JobsStay => LedgerCovered'
  BY <1>0, LedgerKept
<1>5. ASSUME NEW c \in Consumers, NEW picked \in SUBSET Ids, Claim(c, picked)
      PROVE  LedgerInv'
  <2>1. /\ place' = place /\ held' = [held EXCEPT ![c] = picked] /\ held[c] = {}
        /\ row' = [i \in Ids |-> IF i \in picked
                                 THEN [row[i] EXCEPT !.attempts = @ + 1, !.visible = FALSE]
                                 ELSE row[i]]
    BY <1>5 DEF Claim
  <2>2. ScannedHeld'
    BY <1>0, <2>1 DEF ScannedHeld, QueueInv, TypeOK
  <2>3. \A i \in Ids : row'[i].tenant = row[i].tenant /\ row'[i].payload = row[i].payload
    BY <2>1 DEF QueueInv, TypeOK, Row
  <2>4. WorkStays /\ JobsStay
    BY <2>1, <2>3 DEF WorkStays, JobsStay, Work
  <2> QED BY <1>1, <1>3, <1>4, <2>2, <2>4
<1>6. ASSUME NEW i \in Ids, VisibleAgain(i) \/ \E c \in Consumers : Extend(c, i)
      PROVE  LedgerInv'
  <2>1. PICK b : row' = [row EXCEPT ![i].visible = b]
    BY <1>6 DEF VisibleAgain, Extend
  <2>2. place' = place /\ held' = held
    BY <1>6 DEF VisibleAgain, Extend
  <2>3. WorkStays /\ JobsStay
    BY <2>1, <2>2 DEF WorkStays, JobsStay, Work, QueueInv, TypeOK, Row
  <2>4. ScannedHeld'
    BY <1>0, <2>2 DEF ScannedHeld
  <2> QED BY <1>1, <1>3, <1>4, <2>3, <2>4
<1>7. ASSUME NEW i \in Ids, NEW n \in Tags, RequeueDead(i, n)
      PROVE  LedgerInv'
  <2> DEFINE r == NewRow(row[i].tenant, row[i].payload, n)
  <2>1. /\ r.tenant = row[i].tenant /\ r.payload = row[i].payload /\ row' = [row EXCEPT ![next_id] = r]
        /\ next_id \in Ids /\ held' = held /\ place[i] = "dead"
        /\ place' = [place EXCEPT ![i] = "none", ![next_id] = "queue"]
    BY <1>7 DEF NewRow, RequeueDead
  <2> HIDE DEF r
  <2>2. WorkStays /\ row'[next_id] = r /\ \A d \in Consumers : next_id \notin held[d]
    BY <2>1, InsertKeeps
  <2>3. PICK j \in Ids : j = next_id
    BY <2>1
  <2>4. Work(j)' = Work(i) /\ place'[j] = "queue"
    BY <2>1, <2>2, <2>3 DEF Work, QueueInv, TypeOK
  <2>5. \A d \in Consumers : j \notin scanned[d]
    BY <2>2, <2>3 DEF ScannedHeld
  <2>6. \A x \in Ids : x # i /\ place[x] \in {"queue", "dead"} => place'[x] \in {"queue", "dead"}
    BY <2>1 DEF QueueInv, TypeOK
  <2>7. LedgerCovered'
    <3> SUFFICES ASSUME NEW k \in ledger
                 PROVE  \E x \in Ids : /\ place'[x] \in {"queue", "dead"} /\ Work(x)' = k
                                       /\ \A d \in Consumers : x \notin scanned[d]
      BY <1>0 DEF LedgerCovered
    <3>1. PICK x \in Ids : /\ place[x] \in {"queue", "dead"} /\ Work(x) = k
                           /\ \A d \in Consumers : x \notin scanned[d]
      BY DEF LedgerCovered
    <3>2. CASE x = i
      BY <2>4, <2>5, <3>1, <3>2
    <3>3. CASE x # i
      BY <2>2, <2>6, <3>1, <3>3 DEF WorkStays
    <3> QED BY <3>2, <3>3
  <2>8. ScannedHeld'
    BY <1>0, <2>1 DEF ScannedHeld
  <2> QED BY <1>1, <1>3, <2>2, <2>7, <2>8
<1> QED BY <1>5, <1>6, <1>7 DEF QueueOnly

LEMMA LedgerNextInv == LedgerInv /\ [LedgerNext]_ledgerVars => LedgerInv'
<1> SUFFICES ASSUME LedgerInv, [LedgerNext]_ledgerVars PROVE LedgerInv'
  OBVIOUS
<1>1. CASE UNCHANGED ledgerVars
  <2>1. QueueInv'
    BY <1>1, NextInv DEF LedgerInv, ledgerVars
  <2> QED BY <1>1, <2>1 DEF LedgerInv, ledgerVars, vars, ScannedHeld, WrittenCovered, LedgerCovered, Work
<1>2. CASE LedgerNext
  BY <1>2, WriteKeeps, LedgerEndKeeps, ScanKeeps, LedgerSettleKeeps, ContinueKeeps, LedgerCrashKeeps,
     LedgerEraseKeeps, QueueOnlyKeeps DEF LedgerNext
<1> QED BY <1>1, <1>2

(* Thinning out the jobs of a ledger loses no work, however writers,         *)
(* deliveries, retries, crashes and erasures interleave: what is committed   *)
(* has a job that nobody has read the ledger for (enqueue_unless_pending_on, *)
(* enqueue_op, consume_index_job_once).                                      *)
THEOREM LedgerIsCovered == LedgerSpec => []LedgerCovered
<1>1. LedgerInv => LedgerCovered
  BY DEF LedgerInv
<1> QED BY <1>1, LedgerInitInv, LedgerNextInv, PTL DEF LedgerSpec

(* The job a transaction leans on stays queued and unstarted until it ends,  *)
(* also when jobs hand over the rest of their ledger (LockedStaysPending).   *)
THEOREM LedgerLocksHold == LedgerSpec => []LockedStaysPending
<1>1. LedgerInv => LockedStaysPending
  BY DEF LedgerInv, QueueInv
<1> QED BY <1>1, LedgerInitInv, LedgerNextInv, PTL DEF LedgerSpec

-----------------------------------------------------------------------------
(* Fairness *)

\* What is recorded of a later job that is delivered first.
Rec(j) == [id |-> j, tenant |-> row[j].tenant, fair_seq |-> row[j].fair_seq, mark |-> mark[j].id]
Live(j) == place[j] \in {"queue", "tx"}

FairTypes ==
    /\ mark \in [Ids -> [id : Nat, vt : Nat]]
    /\ overtakers \in [Ids -> SUBSET [id : Ids, tenant : Tenants, fair_seq : Nat, mark : Nat]]

\* A row was committed before now, and nothing is recorded of rows that are not queued.
MarksPast == \A i \in Queued : i < mark[i].id /\ mark[i].id <= next_id /\ mark[i].vt <= vt
NoneBefore == \A i \in Ids \ Queued : overtakers[i] = {}

\* Jobs enqueued after a row was committed start no earlier than virtual time
\* was then, and those of its tenant start after it.
TagsAhead ==
    \A i \in Queued, j \in Ids : Live(j) /\ j >= mark[i].id =>
        /\ row[j].fair_seq >= mark[i].vt
        /\ row[j].tenant = row[i].tenant => row[j].fair_seq > row[i].fair_seq

\* Virtual time is past the jobs that were delivered.
RecordsPast ==
    \A i \in Queued : \A o \in overtakers[i] :
        /\ o.id < next_id /\ place[o.id] # "tx" /\ o.fair_seq < vt
        /\ o.id \in Queued => o = Rec(o.id)

\* Jobs enqueued after a recorded one was committed start after it, and a
\* recorded one starts after those committed before it was enqueued.
RecordsAhead ==
    \A i \in Queued : \A o \in overtakers[i], j \in Ids : row[j].tenant = o.tenant =>
        /\ Live(j) /\ j >= o.mark => row[j].fair_seq > o.fair_seq
        /\ j \in Queued /\ mark[j].id <= o.id => o.fair_seq > row[j].fair_seq

RecordsOrdered ==
    \A i \in Queued : \A o, q \in overtakers[i] :
        /\ o.tenant = q.tenant /\ o.id < q.id /\ o.mark <= q.id => o.fair_seq < q.fair_seq
        /\ o.id = q.id => o = q

FairInv ==
    /\ QueueInv /\ FairTypes /\ MarksPast /\ NoneBefore /\ TagsAhead
    /\ RecordsPast /\ RecordsAhead /\ RecordsOrdered /\ OvertakeWindow /\ TenantFifo

LEMMA FairInitInv == FairInit => FairInv
<1> SUFFICES ASSUME FairInit PROVE FairInv
  OBVIOUS
<1>1. QueueInv
  BY InitInv DEF FairInit
<1>2. Queued = {}
  BY DEF FairInit, Init, Queued
<1>3. FairTypes
  BY DEF FairInit, FairTypes
<1> QED
  BY <1>1, <1>2, <1>3 DEF FairInit, FairInv, MarksPast, NoneBefore, TagsAhead, RecordsPast, RecordsAhead,
     RecordsOrdered, OvertakeWindow, TenantFifo

\* What the types say of a row, a mark and a record.
LEMMA FairFields ==
    ASSUME QueueInv, FairTypes
    PROVE  /\ vt \in Nat /\ next_id \in Nat
           /\ \A i \in Ids : /\ i \in Nat /\ row[i].fair_seq \in Nat /\ row[i].tenant \in Tenants
                             /\ mark[i].id \in Nat /\ mark[i].vt \in Nat
           /\ \A i \in Ids : \A o \in overtakers[i] :
                 o.id \in Ids /\ o.id \in Nat /\ o.fair_seq \in Nat /\ o.mark \in Nat /\ o.tenant \in Tenants
<1>1. vt \in Nat /\ next_id \in Nat
  BY QueueAssumption DEF QueueInv, TypeOK
<1>2. \A i \in Ids : i \in Nat
  BY QueueAssumption DEF Ids
<1>3. \A i \in Ids : row[i].fair_seq \in Nat /\ row[i].tenant \in Tenants
  BY DEF QueueInv, TypeOK, Row
<1>4. \A i \in Ids : mark[i].id \in Nat /\ mark[i].vt \in Nat
  BY DEF FairTypes
<1>5. \A i \in Ids : \A o \in overtakers[i] : o.id \in Ids /\ o.fair_seq \in Nat /\ o.mark \in Nat /\ o.tenant \in Tenants
  BY DEF FairTypes
<1> QED BY <1>1, <1>2, <1>3, <1>4, <1>5

\* A step after which no row is live that was not live before, with the same tag.
Shrinks ==
    /\ next_id' = next_id /\ vt' = vt
    /\ \A j \in Ids : /\ row'[j].tenant = row[j].tenant
                      /\ Live(j)' => place'[j] = place[j] /\ row'[j].fair_seq = row[j].fair_seq

LEMMA ShrinksKeeps ==
    ASSUME FairInv, QueueInv', Shrinks, Forget
    PROVE  FairInv'
<1> USE DEF FairInv
<1>1. \A i \in Ids : i \in Queued' =>
         /\ i \in Queued /\ mark'[i] = mark[i] /\ overtakers'[i] = overtakers[i]
         /\ row'[i].fair_seq = row[i].fair_seq /\ row'[i].tenant = row[i].tenant
  BY DEF Shrinks, Forget, Queued, Live
<1>2. Queued' \subseteq Ids /\ Queued \subseteq Ids
  BY DEF Queued
<1>3. FairTypes'
  <2>1. \A i \in Ids : mark[i] \in [id : Nat, vt : Nat] /\ [id |-> 0, vt |-> 0] \in [id : Nat, vt : Nat]
    BY DEF FairTypes
  <2> QED BY <2>1 DEF FairTypes, Forget
<1>4. MarksPast'
  BY <1>1, <1>2 DEF MarksPast, Shrinks
<1>5. NoneBefore'
  BY DEF NoneBefore, Forget, Queued
<1>6. \A j \in Ids : /\ row'[j].tenant = row[j].tenant
                     /\ Live(j)' => Live(j) /\ row'[j].fair_seq = row[j].fair_seq
  BY DEF Shrinks, Live
<1>7. TagsAhead'
  <2> SUFFICES ASSUME NEW i \in Queued', NEW j \in Ids, Live(j)', j >= mark'[i].id
               PROVE  /\ row'[j].fair_seq >= mark'[i].vt
                      /\ row'[j].tenant = row'[i].tenant => row'[j].fair_seq > row'[i].fair_seq
    BY DEF TagsAhead
  <2>1. /\ i \in Queued /\ mark'[i] = mark[i] /\ row'[i].fair_seq = row[i].fair_seq
        /\ row'[i].tenant = row[i].tenant
    BY <1>1, <1>2
  <2>2. Live(j) /\ row'[j].fair_seq = row[j].fair_seq /\ row'[j].tenant = row[j].tenant
    BY <1>6
  <2> QED BY <2>1, <2>2 DEF TagsAhead
<1>8. RecordsPast'
  <2> SUFFICES ASSUME NEW i \in Queued', NEW o \in overtakers'[i]
               PROVE  /\ o.id < next_id /\ place'[o.id] # "tx" /\ o.fair_seq < vt
                      /\ o.id \in Queued' => o = Rec(o.id)'
    BY DEF RecordsPast, Shrinks
  <2>1. i \in Queued /\ o \in overtakers[i]
    BY <1>1, <1>2
  <2>2. /\ o.id < next_id /\ place[o.id] # "tx" /\ o.fair_seq < vt
        /\ o.id \in Queued => o = Rec(o.id)
    BY <2>1 DEF RecordsPast
  <2>3. o.id \in Ids
    BY <1>2, <2>1 DEF FairTypes
  <2>4. place'[o.id] # "tx"
    BY <2>2, <2>3 DEF Shrinks, Live
  <2>5. o.id \in Queued' => o.id \in Queued /\ Rec(o.id)' = Rec(o.id)
    BY <1>1, <2>3 DEF Rec
  <2> QED BY <2>2, <2>4, <2>5
<1>9. RecordsAhead'
  <2> SUFFICES ASSUME NEW i \in Queued', NEW o \in overtakers'[i], NEW j \in Ids, row'[j].tenant = o.tenant
               PROVE  /\ Live(j)' /\ j >= o.mark => row'[j].fair_seq > o.fair_seq
                      /\ j \in Queued' /\ mark'[j].id <= o.id => o.fair_seq > row'[j].fair_seq
    BY DEF RecordsAhead
  <2>1. i \in Queued /\ o \in overtakers[i] /\ row[j].tenant = o.tenant
    BY <1>1, <1>2, <1>6
  <2>2. /\ Live(j) /\ j >= o.mark => row[j].fair_seq > o.fair_seq
        /\ j \in Queued /\ mark[j].id <= o.id => o.fair_seq > row[j].fair_seq
    BY <2>1 DEF RecordsAhead
  <2> QED BY <1>1, <1>6, <2>2
<1>10. RecordsOrdered'
  BY <1>1, <1>2 DEF RecordsOrdered
<1>11. OvertakeWindow' /\ TenantFifo'
  BY <1>1, <1>2 DEF OvertakeWindow, TenantFifo
<1> QED BY <1>3, <1>4, <1>5, <1>7, <1>8, <1>9, <1>10, <1>11

\* Rows leave the queue or change only in what they have to do with deliveries.
LEMMA FairOtherKeeps ==
    ASSUME FairInv, FairOther
    PROVE  FairInv'
<1> USE DEF FairInv
<1>1. QueueInv'
  BY EndTxInv, SettleInv, VisibilityInv, DeleteTenantInv DEF FairOther
<1>2. next_id' = next_id /\ vt' = vt
  BY DEF FairOther, Rollback, EndTx, Ack, Fail, Defer, Kill, Settle, VisibleAgain, DeleteTenant
<1>3. ASSUME NEW S, NEW where \in {"none", "dead"}, Remove(S, where)
      PROVE  Shrinks
  BY <1>2, <1>3 DEF Remove, Shrinks, Live, NewRow
<1>4. ASSUME NEW i \in Ids, place' = place, NEW a, NEW b, row' = [row EXCEPT ![i].visible = b, ![i].attempts = a]
      PROVE  Shrinks
  BY <1>2, <1>4 DEF Shrinks, Live, QueueInv, TypeOK, Row
<1>5. ASSUME NEW i \in Ids, place' = place, NEW b, row' = [row EXCEPT ![i].visible = b]
      PROVE  Shrinks
  BY <1>2, <1>5 DEF Shrinks, Live, QueueInv, TypeOK, Row
<1>7. ASSUME NEW i \in Ids, NEW c \in Consumers, Defer(c, i), i \in Queued
      PROVE  Shrinks
  <2>1. PICK a : row' = [row EXCEPT ![i].visible = FALSE, ![i].attempts = a]
    BY <1>7 DEF Defer, QueueInv, TypeOK, Row
  <2> QED BY <1>4, <1>7, <2>1 DEF Defer
<1>8. Shrinks
  <2>1. CASE \E p \in Producers : Rollback(p)
    BY <1>3, <2>1 DEF Rollback
  <2>2. ASSUME NEW c \in Consumers, NEW i \in Ids, Ack(c, i) \/ Fail(c, i) \/ Defer(c, i) \/ Kill(c, i)
        PROVE  Shrinks
    <3>1. CASE Ack(c, i) \/ Kill(c, i)
      BY <1>3, <3>1 DEF Ack, Kill
    <3>2. CASE Fail(c, i)
      <4>1. CASE Remove({i} \cap Queued, "dead")
        BY <1>3, <4>1
      <4>2. CASE place' = place /\ row' = [row EXCEPT ![i].visible = FALSE]
        BY <1>5, <4>2
      <4>3. CASE place' = place /\ row' = row
        BY <1>2, <4>3 DEF Shrinks, Live
      <4> QED BY <3>2, <4>1, <4>2, <4>3 DEF Fail
    <3>3. CASE Defer(c, i)
      <4>1. CASE i \notin Queued
        BY <1>2, <3>3, <4>1 DEF Defer, Shrinks, Live
      <4> QED BY <1>7, <3>3, <4>1
    <3> QED BY <2>2, <3>1, <3>2, <3>3
  <2>3. CASE \E i \in Ids : VisibleAgain(i)
    BY <1>5, <2>3 DEF VisibleAgain
  <2>4. CASE \E t \in Tenants : DeleteTenant(t)
    BY <1>3, <2>4 DEF DeleteTenant
  <2> QED BY <2>1, <2>2, <2>3, <2>4 DEF FairOther
<1> QED BY <1>1, <1>8, ShrinksKeeps DEF FairOther

\* A new row, whose tag is what fair_seq_expr! computes.
LEMMA AddedKeeps ==
    ASSUME FairInv, QueueInv', next_id \in Ids, next_id' = next_id + 1, vt' = vt, overtakers' = overtakers,
           NEW own, NEW t, NEW n \in Nat, IsFairSeq(t, own, n),
           NEW r, r.tenant = t, r.fair_seq = n, row' = [row EXCEPT ![next_id] = r],
           place'[next_id] \in {"tx", "queue"},
           \A j \in Ids : j # next_id => place'[j] = place[j] \/ (place[j] = "dead" /\ place'[j] = "none"),
           mark' = [i \in Ids |-> IF i = next_id /\ place'[next_id] = "queue"
                                  THEN [id |-> next_id + 1, vt |-> vt] ELSE mark[i]]
    PROVE  FairInv'
<1> USE DEF FairInv
<1> DEFINE e == next_id
<1>1. /\ vt \in Nat /\ next_id \in Nat /\ e \in Ids
      /\ \A i \in Ids : /\ i \in Nat /\ row[i].fair_seq \in Nat /\ row[i].tenant \in Tenants
                        /\ mark[i].id \in Nat /\ mark[i].vt \in Nat
      /\ \A i \in Ids : \A o \in overtakers[i] :
            o.id \in Ids /\ o.id \in Nat /\ o.fair_seq \in Nat /\ o.mark \in Nat /\ o.tenant \in Tenants
  BY FairFields
<1>2. place[e] = "none" /\ \A j \in Ids : place[j] # "none" => j < e
  BY DEF QueueInv, FreshIds, TypeOK, Ids
<1>3. /\ row'[e] = r /\ \A j \in Ids : j # e => row'[j] = row[j]
  BY DEF QueueInv, TypeOK
<1>4. Queued' \subseteq Queued \cup {e} /\ Queued \subseteq Ids /\ e \notin Queued /\ Queued' \subseteq Ids
  BY <1>2 DEF Queued
<1>5. /\ vt <= n /\ \A i \in Queued : row[i].tenant = t => row[i].fair_seq + 1 <= n
  BY DEF IsFairSeq, Seen
<1>6. \A j \in Ids : j # e => mark'[j] = mark[j] /\ (Live(j)' => Live(j)) /\ (j \in Queued' => j \in Queued)
  BY DEF Live, Queued
<1>7. e \in Queued' => mark'[e] = [id |-> e + 1, vt |-> vt]
  BY DEF Queued
<1>8. overtakers[e] = {}
  BY <1>1, <1>4 DEF NoneBefore
<1> HIDE DEF e
<1>9. FairTypes'
  <2>1. [id |-> next_id + 1, vt |-> vt] \in [id : Nat, vt : Nat]
    BY <1>1
  <2>2. mark' \in [Ids -> [id : Nat, vt : Nat]]
    BY <2>1 DEF FairTypes
  <2> QED BY <2>2 DEF FairTypes
<1>10. MarksPast'
  <2> SUFFICES ASSUME NEW i \in Queued'
               PROVE  i < mark'[i].id /\ mark'[i].id <= next_id + 1 /\ mark'[i].vt <= vt
    BY DEF MarksPast
  <2>1. CASE i = e
    <3>1. mark'[i].id = e + 1 /\ mark'[i].vt = vt
      BY <1>7, <2>1
    <3> QED BY <1>1, <2>1, <3>1 DEF e
  <2>2. CASE i # e
    <3>1. i \in Queued /\ i \in Ids /\ mark'[i] = mark[i]
      BY <1>4, <1>6, <2>2
    <3>2. i < mark[i].id /\ mark[i].id <= next_id /\ mark[i].vt <= vt
      BY <3>1 DEF MarksPast
    <3> QED BY <1>1, <3>1, <3>2
  <2> QED BY <2>1, <2>2
<1>11. NoneBefore'
  <2> SUFFICES ASSUME NEW i \in Ids, i \notin Queued'
               PROVE  overtakers[i] = {}
    BY DEF NoneBefore
  <2>1. i \notin Queued
    BY <1>4 DEF Queued, e
  <2> QED BY <2>1 DEF NoneBefore
<1>12. TagsAhead'
  <2> SUFFICES ASSUME NEW i \in Queued', NEW j \in Ids, Live(j)', j >= mark'[i].id
               PROVE  /\ row'[j].fair_seq >= mark'[i].vt
                      /\ row'[j].tenant = row'[i].tenant => row'[j].fair_seq > row'[i].fair_seq
    BY DEF TagsAhead
  <2>1. i # e
    <3> SUFFICES ASSUME i = e PROVE FALSE
      OBVIOUS
    <3>1. j >= e + 1
      BY <1>7
    <3>2. j # e /\ j \in Nat /\ e \in Nat
      BY <1>1, <3>1
    <3>3. place[j] # "none"
      BY <1>6, <3>2 DEF Live
    <3> QED BY <1>2, <3>1, <3>2, <3>3
  <2>2. i \in Queued /\ i \in Ids /\ mark'[i] = mark[i] /\ row'[i] = row[i]
    BY <1>3, <1>4, <1>6, <2>1
  <2>3. CASE j = e
    <3>1. row'[j].fair_seq = n /\ row'[j].tenant = t
      BY <1>3, <2>3
    <3>2. mark[i].vt <= vt
      BY <2>2 DEF MarksPast
    <3>3. row[i].tenant = t => row[i].fair_seq + 1 <= n
      BY <1>5, <2>2
    <3> QED BY <1>1, <1>5, <2>2, <3>1, <3>2, <3>3
  <2>4. CASE j # e
    <3>1. Live(j) /\ row'[j] = row[j]
      BY <1>3, <1>6, <2>4
    <3> QED BY <2>2, <3>1 DEF TagsAhead
  <2> QED BY <2>3, <2>4
<1>13. RecordsPast'
  <2> SUFFICES ASSUME NEW i \in Queued', NEW o \in overtakers[i]
               PROVE  /\ o.id < next_id + 1 /\ place'[o.id] # "tx" /\ o.fair_seq < vt
                      /\ o.id \in Queued' => o = Rec(o.id)'
    BY DEF RecordsPast
  <2>1. i \in Queued /\ i \in Ids /\ o.id \in Ids /\ o.id \in Nat
    BY <1>1, <1>4, <1>8
  <2>2. /\ o.id < next_id /\ place[o.id] # "tx" /\ o.fair_seq < vt
        /\ o.id \in Queued => o = Rec(o.id)
    BY <2>1 DEF RecordsPast
  <2>3. o.id # e
    BY <1>1, <2>1, <2>2 DEF e
  <2>4. place'[o.id] # "tx"
    BY <2>1, <2>2, <2>3 DEF e
  <2>5. o.id \in Queued' => o = Rec(o.id)'
    BY <1>3, <1>6, <2>1, <2>2, <2>3 DEF Rec
  <2> QED BY <1>1, <2>1, <2>2, <2>4, <2>5
<1>14. RecordsAhead'
  <2> SUFFICES ASSUME NEW i \in Queued', NEW o \in overtakers[i], NEW j \in Ids, row'[j].tenant = o.tenant
               PROVE  /\ Live(j)' /\ j >= o.mark => row'[j].fair_seq > o.fair_seq
                      /\ j \in Queued' /\ mark'[j].id <= o.id => o.fair_seq > row'[j].fair_seq
    BY DEF RecordsAhead
  <2>1. i \in Queued /\ i \in Ids /\ o.id \in Nat /\ o.fair_seq \in Nat
    BY <1>1, <1>4, <1>8
  <2>2. o.id < next_id /\ o.fair_seq < vt
    BY <2>1 DEF RecordsPast
  <2>3. CASE j = e
    <3>1. row'[j].fair_seq = n
      BY <1>3, <2>3
    <3>2. j \in Queued' => mark'[j].id = e + 1
      BY <1>7, <2>3
    <3>3. ~(e + 1 <= o.id)
      BY <1>1, <2>1, <2>2 DEF e
    <3>4. n > o.fair_seq
      BY <1>1, <1>5, <2>1, <2>2
    <3> QED BY <3>1, <3>2, <3>3, <3>4
  <2>4. CASE j # e
    <3>1. /\ row'[j] = row[j] /\ mark'[j] = mark[j] /\ (Live(j)' => Live(j)) /\ (j \in Queued' => j \in Queued)
      BY <1>3, <1>6, <2>4
    <3>2. /\ Live(j) /\ j >= o.mark => row[j].fair_seq > o.fair_seq
          /\ j \in Queued /\ mark[j].id <= o.id => o.fair_seq > row[j].fair_seq
      BY <2>1, <3>1 DEF RecordsAhead
    <3> QED BY <3>1, <3>2
  <2> QED BY <2>3, <2>4
<1>15. \A i \in Queued' : overtakers[i] # {} => i \in Queued /\ row'[i] = row[i] /\ mark'[i] = mark[i]
  BY <1>3, <1>4, <1>6, <1>8
<1>16. RecordsOrdered'
  BY <1>15 DEF RecordsOrdered
<1>17. OvertakeWindow' /\ TenantFifo'
  BY <1>15 DEF OvertakeWindow, TenantFifo
<1> QED BY <1>9, <1>10, <1>11, <1>12, <1>13, <1>14, <1>16, <1>17

\* A transaction enqueues.
LEMMA FairEnqueueKeeps ==
    ASSUME FairInv, FairEnqueue
    PROVE  FairInv'
<1>1. PICK p \in Producers, t \in Tenants, w \in Payloads, n \in Tags : Enqueue(p, t, w, n)
  BY DEF FairEnqueue
<1>2. QueueInv'
  BY <1>1, EnqueueInv DEF FairInv
<1> DEFINE r == NewRow(t, w, n)
<1>3. /\ next_id \in Ids /\ next_id' = next_id + 1 /\ vt' = vt /\ overtakers' = overtakers /\ mark' = mark
      /\ IsFairSeq(t, tx[p].rows, n) /\ row' = [row EXCEPT ![next_id] = r]
      /\ place' = [place EXCEPT ![next_id] = "tx"]
  BY <1>1 DEF FairEnqueue, Enqueue, Insert
<1>4. r.tenant = t /\ r.fair_seq = n /\ n \in Nat
  BY DEF NewRow, Tags
<1>5. place'[next_id] = "tx" /\ \A j \in Ids : j # next_id => place'[j] = place[j]
  BY <1>3 DEF FairInv, QueueInv, TypeOK
<1>6. mark' = [i \in Ids |-> IF i = next_id /\ place'[next_id] = "queue"
                             THEN [id |-> next_id + 1, vt |-> vt] ELSE mark[i]]
  BY <1>3, <1>5 DEF FairInv, FairTypes
<1> HIDE DEF r
<1> QED BY <1>2, <1>3, <1>4, <1>5, <1>6, AddedKeeps

\* A job of the DLQ is queued again.
LEMMA FairRequeueKeeps ==
    ASSUME FairInv, FairCommit, NEW i \in Ids, NEW n \in Tags, RequeueDead(i, n)
    PROVE  FairInv'
<1>2. QueueInv'
  BY RequeueInv DEF FairInv
<1> DEFINE t == row[i].tenant
           r == NewRow(row[i].tenant, row[i].payload, n)
<1>3. /\ next_id \in Ids /\ next_id' = next_id + 1 /\ vt' = vt /\ overtakers' = overtakers
      /\ IsFairSeq(t, {}, n) /\ row' = [row EXCEPT ![next_id] = r] /\ place[i] = "dead"
      /\ place' = [place EXCEPT ![i] = "none", ![next_id] = "queue"]
  BY DEF FairCommit, RequeueDead
<1>4. r.tenant = t /\ r.fair_seq = n /\ n \in Nat
  BY DEF NewRow, Tags
<1>5. place[next_id] = "none"
  BY <1>3 DEF FairInv, QueueInv, FreshIds, TypeOK, Ids
<1>6. /\ place'[next_id] = "queue"
      /\ \A j \in Ids : j # next_id => place'[j] = place[j] \/ (place[j] = "dead" /\ place'[j] = "none")
      /\ \A j \in Ids : j # next_id /\ place'[j] = "queue" => place[j] = "queue"
  BY <1>3, <1>5 DEF FairInv, QueueInv, TypeOK
<1>7. Committed = {next_id}
  BY <1>3, <1>5, <1>6 DEF Committed
<1>8. mark' = [j \in Ids |-> IF j = next_id /\ place'[next_id] = "queue"
                             THEN [id |-> next_id + 1, vt |-> vt] ELSE mark[j]]
  BY <1>3, <1>6, <1>7 DEF FairCommit
<1> HIDE DEF r, t
<1> QED BY <1>2, <1>3, <1>4, <1>6, <1>8, AddedKeeps

\* A transaction commits: nothing was delivered before its rows yet, and every
\* later row will see the mark they get.
LEMMA FairCommitKeeps ==
    ASSUME FairInv, FairCommit, NEW p \in Producers, Commit(p)
    PROVE  FairInv'
<1> USE DEF FairInv
<1>1. /\ vt \in Nat /\ next_id \in Nat
      /\ \A i \in Ids : /\ i \in Nat /\ row[i].fair_seq \in Nat /\ row[i].tenant \in Tenants
                        /\ mark[i].id \in Nat /\ mark[i].vt \in Nat
      /\ \A i \in Ids : \A o \in overtakers[i] :
            o.id \in Ids /\ o.id \in Nat /\ o.fair_seq \in Nat /\ o.mark \in Nat /\ o.tenant \in Tenants
  BY FairFields
<1>2. QueueInv'
  BY EndTxInv
<1>3. /\ next_id' = next_id /\ vt' = vt /\ row' = row /\ overtakers' = overtakers
      /\ place' = [i \in Ids |-> IF i \in tx[p].rows THEN "queue" ELSE place[i]]
      /\ mark' = [i \in Ids |-> IF i \in Committed THEN [id |-> next_id, vt |-> vt] ELSE mark[i]]
  BY DEF FairCommit, Commit, EndTx
<1>4. \A j \in Ids : Live(j)' => Live(j) /\ j < next_id
  BY <1>3 DEF Live, QueueInv, TxRowsPrivate, FreshIds
<1>5. /\ Queued \subseteq Ids /\ Queued' \subseteq Ids /\ Queued \subseteq Queued'
      /\ Committed = Queued' \ Queued /\ \A i \in Committed : place[i] = "tx"
  BY <1>3 DEF Queued, Committed, QueueInv, TxRowsPrivate
<1>6. \A i \in Queued' : i \notin Queued =>
         /\ overtakers[i] = {} /\ mark'[i].id = next_id /\ mark'[i].vt = vt
         /\ place[i] = "tx" /\ i < next_id
  <2> SUFFICES ASSUME NEW i \in Queued', i \notin Queued
               PROVE  /\ overtakers[i] = {} /\ mark'[i].id = next_id /\ mark'[i].vt = vt
                      /\ place[i] = "tx" /\ i < next_id
    OBVIOUS
  <2>1. i \in Ids /\ i \in Committed /\ place[i] = "tx"
    BY <1>5
  <2>2. mark'[i] = [id |-> next_id, vt |-> vt]
    BY <1>3, <2>1
  <2>3. overtakers[i] = {}
    BY <2>1 DEF NoneBefore
  <2>4. i < next_id
    BY <2>1 DEF QueueInv, FreshIds
  <2> QED BY <2>1, <2>2, <2>3, <2>4
<1>7. \A i \in Ids : i \in Queued => mark'[i] = mark[i]
  BY <1>3, <1>5
<1>8. FairTypes'
  <2>1. [id |-> next_id, vt |-> vt] \in [id : Nat, vt : Nat]
    BY <1>1
  <2> QED BY <1>3, <2>1 DEF FairTypes
<1>9. MarksPast'
  <2> SUFFICES ASSUME NEW i \in Queued'
               PROVE  i < mark'[i].id /\ mark'[i].id <= next_id /\ mark'[i].vt <= vt
    BY <1>3 DEF MarksPast
  <2>1. CASE i \in Queued
    BY <1>5, <1>7, <2>1 DEF MarksPast
  <2>2. CASE i \notin Queued
    BY <1>1, <1>6, <2>2
  <2> QED BY <2>1, <2>2
<1>10. NoneBefore'
  BY <1>3, <1>5 DEF NoneBefore
<1>11. TagsAhead'
  <2> SUFFICES ASSUME NEW i \in Queued', NEW j \in Ids, Live(j)', j >= mark'[i].id
               PROVE  /\ row[j].fair_seq >= mark'[i].vt
                      /\ row[j].tenant = row[i].tenant => row[j].fair_seq > row[i].fair_seq
    BY <1>3 DEF TagsAhead
  <2>1. Live(j) /\ j < next_id
    BY <1>4
  <2>2. i \in Queued
    BY <1>1, <1>6, <2>1
  <2> QED BY <1>5, <1>7, <2>1, <2>2 DEF TagsAhead
<1>12. RecordsPast'
  <2> SUFFICES ASSUME NEW i \in Queued', NEW o \in overtakers[i]
               PROVE  /\ o.id < next_id /\ place'[o.id] # "tx" /\ o.fair_seq < vt
                      /\ o.id \in Queued' => o = Rec(o.id)'
    BY <1>3 DEF RecordsPast
  <2>1. i \in Queued /\ i \in Ids /\ o.id \in Ids
    BY <1>1, <1>5, <1>6
  <2>2. /\ o.id < next_id /\ place[o.id] # "tx" /\ o.fair_seq < vt
        /\ o.id \in Queued => o = Rec(o.id)
    BY <2>1 DEF RecordsPast
  <2>3. place'[o.id] # "tx" /\ (o.id \in Queued' => o.id \in Queued)
    BY <1>3, <1>6, <2>1, <2>2
  <2>4. o.id \in Queued => Rec(o.id)' = Rec(o.id)
    BY <1>3, <1>7, <2>1 DEF Rec
  <2> QED BY <2>2, <2>3, <2>4
<1>13. RecordsAhead'
  <2> SUFFICES ASSUME NEW i \in Queued', NEW o \in overtakers[i], NEW j \in Ids, row[j].tenant = o.tenant
               PROVE  /\ Live(j)' /\ j >= o.mark => row[j].fair_seq > o.fair_seq
                      /\ j \in Queued' /\ mark'[j].id <= o.id => o.fair_seq > row[j].fair_seq
    BY <1>3 DEF RecordsAhead
  <2>1. i \in Queued /\ i \in Ids /\ o.id \in Nat
    BY <1>1, <1>5, <1>6
  <2>2. o.id < next_id
    BY <2>1 DEF RecordsPast
  <2>3. j \in Queued' /\ mark'[j].id <= o.id => j \in Queued /\ mark[j].id <= o.id
    BY <1>1, <1>6, <1>7, <2>1, <2>2
  <2>4. Live(j)' => Live(j)
    BY <1>4
  <2> QED BY <2>1, <2>3, <2>4 DEF RecordsAhead
<1>14. \A i \in Queued' : overtakers[i] # {} => i \in Queued /\ mark'[i] = mark[i]
  BY <1>5, <1>6, <1>7
<1>15. RecordsOrdered'
  BY <1>3, <1>14 DEF RecordsOrdered
<1>16. OvertakeWindow' /\ TenantFifo'
  BY <1>3, <1>14 DEF OvertakeWindow, TenantFifo
<1> QED BY <1>2, <1>8, <1>9, <1>10, <1>11, <1>12, <1>13, <1>15, <1>16

\* A claim: what it newly records are queued rows, delivered in claim order.
LEMMA FairClaimKeeps ==
    ASSUME FairInv, NEW c \in Consumers, FairClaim(c)
    PROVE  FairInv'
<1> USE DEF FairInv
<1>1. /\ vt \in Nat /\ next_id \in Nat
      /\ \A i \in Ids : /\ i \in Nat /\ row[i].fair_seq \in Nat /\ row[i].tenant \in Tenants
                        /\ mark[i].id \in Nat /\ mark[i].vt \in Nat
      /\ \A i \in Ids : \A o \in overtakers[i] :
            o.id \in Ids /\ o.id \in Nat /\ o.fair_seq \in Nat /\ o.mark \in Nat /\ o.tenant \in Tenants
  BY FairFields
<1>2. PICK picked \in SUBSET Ids :
         /\ Claim(c, picked)
         /\ overtakers' = [i \in Ids |->
                IF i \in Claimable \ picked /\ row[i].attempts = 0
                THEN overtakers[i] \cup
                     {Rec(j) : j \in {k \in picked : row[k].attempts = 0 /\ k >= mark[i].id}}
                ELSE overtakers[i]]
  BY DEF FairClaim, Rec
<1>3. QueueInv'
  BY <1>2, ClaimInv
<1>4. next_id' = next_id /\ place' = place /\ mark' = mark
  BY <1>2 DEF FairClaim, Claim
<1>5. \A i \in Ids : row'[i].tenant = row[i].tenant /\ row'[i].fair_seq = row[i].fair_seq
  BY <1>2 DEF Claim, QueueInv, TypeOK, Row
<1>6. vt' \in Nat /\ vt <= vt' /\ \A k \in picked : row[k].fair_seq < vt'
  <2>1. PICK m \in picked : /\ \A j \in picked : row[j].fair_seq <= row[m].fair_seq
                            /\ vt' = IF vt < row[m].fair_seq + 1 THEN row[m].fair_seq + 1 ELSE vt
    BY <1>2 DEF Claim, AdvanceVt
  <2>2. row[m].fair_seq \in Nat /\ \A k \in picked : row[k].fair_seq \in Nat
    BY <1>1
  <2> QED BY <1>1, <2>1, <2>2
<1>7. /\ Queued' = Queued /\ Queued \subseteq Ids /\ picked \subseteq Queued /\ Claimable \subseteq Queued
      /\ \A j \in Ids : Live(j)' = Live(j)
      /\ \A j \in Queued : Live(j) /\ j < next_id /\ place[j] # "tx"
  BY <1>2, <1>4 DEF Queued, Live, Claim, IsPicked, Claimable, QueueInv, FreshIds
\* The new records.
<1> DEFINE New(i, k) == /\ k \in Queued /\ k >= mark[i].id
                        /\ mark[i].vt <= row[k].fair_seq /\ row[k].fair_seq < row[i].fair_seq
                        /\ row[k].tenant # row[i].tenant /\ row[k].fair_seq < vt'
<1>8. ASSUME NEW i \in Queued, NEW o \in overtakers'[i], o \notin overtakers[i]
      PROVE  \E k \in Queued : o = Rec(k) /\ New(i, k)
  <2>1. /\ i \in Claimable \ picked
        /\ o \in {Rec(j) : j \in {k \in picked : row[k].attempts = 0 /\ k >= mark[i].id}}
    BY <1>2, <1>7, <1>8
  <2>2. PICK k \in picked : o = Rec(k) /\ k >= mark[i].id
    BY <2>1
  <2>3. k \in Queued /\ Live(k) /\ k \in Ids /\ i \in Ids
    BY <1>7
  <2>4. i < mark[i].id
    BY DEF MarksPast
  <2>5. Before(k, i)
    BY <1>2, <2>1 DEF Claim, IsPicked
  <2>6. row[k].fair_seq < row[i].fair_seq
    BY <1>1, <2>2, <2>3, <2>4, <2>5 DEF Before
  <2>7. /\ row[k].fair_seq >= mark[i].vt
        /\ row[k].tenant = row[i].tenant => row[k].fair_seq > row[i].fair_seq
    BY <2>2, <2>3 DEF TagsAhead
  <2>8. row[k].fair_seq < vt'
    BY <1>6
  <2> QED BY <1>1, <2>2, <2>3, <2>6, <2>7, <2>8
<1> HIDE DEF New
<1>9. \A k \in Ids : Rec(k).id = k /\ Rec(k).tenant = row[k].tenant /\ Rec(k).fair_seq = row[k].fair_seq
                      /\ Rec(k).mark = mark[k].id /\ Rec(k)' = Rec(k)
  BY <1>4, <1>5 DEF Rec
<1>10. FairTypes'
  <2>1. \A k \in Ids : Rec(k) \in [id : Ids, tenant : Tenants, fair_seq : Nat, mark : Nat]
    BY <1>1 DEF Rec
  <2>2. overtakers' \in [Ids -> SUBSET [id : Ids, tenant : Tenants, fair_seq : Nat, mark : Nat]]
    BY <1>2, <2>1 DEF FairTypes
  <2> QED BY <1>4, <2>2 DEF FairTypes
<1>11. MarksPast'
  <2> SUFFICES ASSUME NEW i \in Queued
               PROVE  i < mark[i].id /\ mark[i].id <= next_id /\ mark[i].vt <= vt'
    BY <1>4, <1>7 DEF MarksPast
  <2>1. i \in Ids /\ i < mark[i].id /\ mark[i].id <= next_id /\ mark[i].vt <= vt
    BY <1>7 DEF MarksPast
  <2> QED BY <1>1, <1>6, <2>1
<1>12. NoneBefore'
  BY <1>2, <1>7 DEF NoneBefore
<1>13. TagsAhead'
  <2> SUFFICES ASSUME NEW i \in Queued, NEW j \in Ids, Live(j), j >= mark[i].id
               PROVE  /\ row'[j].fair_seq >= mark[i].vt
                      /\ row'[j].tenant = row'[i].tenant => row'[j].fair_seq > row'[i].fair_seq
    BY <1>4, <1>7 DEF TagsAhead
  <2> QED BY <1>5, <1>7 DEF TagsAhead
<1>14. RecordsPast'
  <2> SUFFICES ASSUME NEW i \in Queued, NEW o \in overtakers'[i]
               PROVE  /\ o.id < next_id /\ place[o.id] # "tx" /\ o.fair_seq < vt'
                      /\ o.id \in Queued => o = Rec(o.id)'
    BY <1>4, <1>7 DEF RecordsPast
  <2>1. CASE o \in overtakers[i]
    <3>1. i \in Ids /\ o.id \in Ids /\ o.fair_seq \in Nat
      BY <1>1, <1>7, <2>1
    <3>2. /\ o.id < next_id /\ place[o.id] # "tx" /\ o.fair_seq < vt
          /\ o.id \in Queued => o = Rec(o.id)
      BY <2>1 DEF RecordsPast
    <3>3. o.fair_seq < vt'
      BY <1>1, <1>6, <3>1, <3>2
    <3> QED BY <1>9, <3>1, <3>2, <3>3
  <2>2. CASE o \notin overtakers[i]
    <3>1. PICK k \in Queued : o = Rec(k) /\ New(i, k)
      BY <1>8, <2>2
    <3> QED BY <1>7, <1>9, <3>1 DEF New
  <2> QED BY <2>1, <2>2
<1>15. RecordsAhead'
  <2> SUFFICES ASSUME NEW i \in Queued, NEW o \in overtakers'[i], NEW j \in Ids, row[j].tenant = o.tenant
               PROVE  /\ Live(j) /\ j >= o.mark => row[j].fair_seq > o.fair_seq
                      /\ j \in Queued /\ mark[j].id <= o.id => o.fair_seq > row[j].fair_seq
    <3>1. RecordsAhead' <=>
            \A i_1 \in Queued : \A o_1 \in overtakers'[i_1], j_1 \in Ids : row'[j_1].tenant = o_1.tenant =>
               /\ Live(j_1) /\ j_1 >= o_1.mark => row'[j_1].fair_seq > o_1.fair_seq
               /\ j_1 \in Queued /\ mark[j_1].id <= o_1.id => o_1.fair_seq > row'[j_1].fair_seq
      BY <1>4, <1>7 DEF RecordsAhead
    <3> QED BY <1>5, <3>1
  <2>1. CASE o \in overtakers[i]
    BY <2>1 DEF RecordsAhead
  <2>2. CASE o \notin overtakers[i]
    <3>1. PICK k \in Queued : o = Rec(k) /\ New(i, k)
      BY <1>8, <2>2
    <3>2. /\ k \in Ids /\ Live(k) /\ o.id = k /\ o.tenant = row[k].tenant /\ o.fair_seq = row[k].fair_seq
          /\ o.mark = mark[k].id
      BY <1>7, <1>9, <3>1
    <3>3. Live(j) /\ j >= mark[k].id => row[j].fair_seq > row[k].fair_seq
      BY <3>1, <3>2 DEF TagsAhead
    <3>4. ASSUME j \in Queued, mark[j].id <= k
          PROVE  row[k].fair_seq > row[j].fair_seq
      <4>1. k >= mark[j].id
        BY <1>1, <3>2, <3>4
      <4> QED BY <3>2, <3>4, <4>1 DEF TagsAhead
    <3> QED BY <3>2, <3>3, <3>4
  <2> QED BY <2>1, <2>2
<1>16. RecordsOrdered'
  <2> SUFFICES ASSUME NEW i \in Queued, NEW o \in overtakers'[i], NEW q \in overtakers'[i]
               PROVE  /\ o.tenant = q.tenant /\ o.id < q.id /\ o.mark <= q.id => o.fair_seq < q.fair_seq
                      /\ o.id = q.id => o = q
    BY <1>7 DEF RecordsOrdered
  <2>0. i \in Ids
    BY <1>7
  <2>1. CASE o \in overtakers[i] /\ q \in overtakers[i]
    BY <2>1 DEF RecordsOrdered
  <2>2. CASE o \in overtakers[i] /\ q \notin overtakers[i]
    <3>1. PICK k \in Queued : q = Rec(k) /\ New(i, k)
      BY <1>8, <2>2
    <3>2. /\ k \in Ids /\ Live(k) /\ q.id = k /\ q.tenant = row[k].tenant /\ q.fair_seq = row[k].fair_seq
      BY <1>7, <1>9, <3>1
    <3>3. o.id = k => o = Rec(k)
      BY <2>2, <3>1 DEF RecordsPast
    <3>4. row[k].tenant = o.tenant /\ k >= o.mark => row[k].fair_seq > o.fair_seq
      BY <2>2, <3>2 DEF RecordsAhead
    <3>5. o.fair_seq \in Nat /\ o.mark \in Nat /\ row[k].fair_seq \in Nat /\ k \in Nat
      BY <1>1, <2>0, <2>2, <3>2
    <3> QED BY <3>1, <3>2, <3>3, <3>4, <3>5
  <2>3. CASE o \notin overtakers[i] /\ q \in overtakers[i]
    <3>1. PICK k \in Queued : o = Rec(k) /\ New(i, k)
      BY <1>8, <2>3
    <3>2. /\ k \in Ids /\ Live(k) /\ o.id = k /\ o.tenant = row[k].tenant /\ o.fair_seq = row[k].fair_seq
          /\ o.mark = mark[k].id
      BY <1>7, <1>9, <3>1
    <3>3. q.id = k => q = Rec(k)
      BY <2>3, <3>1 DEF RecordsPast
    <3>4. row[k].tenant = q.tenant /\ mark[k].id <= q.id => q.fair_seq > row[k].fair_seq
      BY <2>3, <3>1, <3>2 DEF RecordsAhead
    <3>5. q.fair_seq \in Nat /\ row[k].fair_seq \in Nat
      BY <1>1, <2>0, <2>3, <3>2
    <3> QED BY <3>1, <3>2, <3>3, <3>4, <3>5
  <2>4. CASE o \notin overtakers[i] /\ q \notin overtakers[i]
    <3>1. PICK k \in Queued : o = Rec(k) /\ New(i, k)
      BY <1>8, <2>4
    <3>2. PICK m \in Queued : q = Rec(m) /\ New(i, m)
      BY <1>8, <2>4
    <3>3. /\ k \in Ids /\ o.id = k /\ o.tenant = row[k].tenant /\ o.fair_seq = row[k].fair_seq
          /\ o.mark = mark[k].id
      BY <1>7, <1>9, <3>1
    <3>4. m \in Ids /\ Live(m) /\ q.id = m /\ q.tenant = row[m].tenant /\ q.fair_seq = row[m].fair_seq
      BY <1>7, <1>9, <3>2
    <3>5. m >= mark[k].id /\ row[m].tenant = row[k].tenant => row[m].fair_seq > row[k].fair_seq
      BY <3>1, <3>4 DEF TagsAhead
    <3>6. row[k].fair_seq \in Nat /\ row[m].fair_seq \in Nat /\ m \in Nat /\ mark[k].id \in Nat
      BY <1>1, <3>3, <3>4
    <3> QED BY <3>1, <3>2, <3>3, <3>4, <3>5, <3>6
  <2> QED BY <2>1, <2>2, <2>3, <2>4
<1>17. ASSUME NEW i \in Queued, NEW o \in overtakers'[i]
       PROVE  /\ mark[i].vt <= o.fair_seq /\ o.fair_seq < row[i].fair_seq
              /\ o.tenant # row[i].tenant
  <2>1. CASE o \in overtakers[i]
    BY <2>1 DEF OvertakeWindow, TenantFifo
  <2>2. CASE o \notin overtakers[i]
    <3>1. PICK k \in Queued : o = Rec(k) /\ New(i, k)
      BY <1>8, <2>2
    <3> QED BY <1>7, <1>9, <3>1 DEF New
  <2> QED BY <2>1, <2>2
<1>18. OvertakeWindow' /\ TenantFifo'
  BY <1>4, <1>5, <1>7, <1>17 DEF OvertakeWindow, TenantFifo
<1> QED BY <1>3, <1>10, <1>11, <1>12, <1>13, <1>14, <1>15, <1>16, <1>18

LEMMA FairNextInv == FairInv /\ [FairNext]_fairVars => FairInv'
<1> SUFFICES ASSUME FairInv, [FairNext]_fairVars PROVE FairInv'
  OBVIOUS
<1>1. CASE FairEnqueue
  BY <1>1, FairEnqueueKeeps
<1>2. CASE FairCommit
  <2>1. CASE \E p \in Producers : Commit(p)
    BY <1>2, <2>1, FairCommitKeeps
  <2>2. CASE \E i \in Ids, n \in Tags : RequeueDead(i, n)
    BY <1>2, <2>2, FairRequeueKeeps
  <2> QED BY <1>2, <2>1, <2>2 DEF FairCommit
<1>3. CASE \E c \in Consumers : FairClaim(c)
  BY <1>3, FairClaimKeeps
<1>4. CASE FairOther
  BY <1>4, FairOtherKeeps
<1>5. CASE UNCHANGED fairVars
  <2>1. QueueInv'
    BY <1>5, NextInv DEF FairInv, fairVars
  <2>2. UNCHANGED <<place, row, next_id, vt, mark, overtakers>> /\ Queued' = Queued
    BY <1>5 DEF fairVars, vars, Queued
  <2>3. \A j : Live(j)' = Live(j) /\ Rec(j)' = Rec(j)
    BY <2>2 DEF Live, Rec
  <2> QED
    BY <2>1, <2>2, <2>3 DEF FairInv, FairTypes, MarksPast, NoneBefore, TagsAhead, RecordsPast,
       RecordsAhead, RecordsOrdered, OvertakeWindow, TenantFifo
<1> QED BY <1>1, <1>2, <1>3, <1>4, <1>5 DEF FairNext

LEMMA FairInvariant == FairSpec => []FairInv
  BY FairInitInv, FairNextInv, PTL DEF FairSpec

(* Start tags: a waiting job is passed only by later jobs whose tag lies     *)
(* between the virtual time at its commit and its own tag.                   *)
THEOREM TagsBoundOvertaking == FairSpec => []OvertakeWindow
<1>1. FairInv => OvertakeWindow
  BY DEF FairInv
<1> QED BY <1>1, FairInvariant, PTL

(* First deliveries within a tenant keep the order of enqueueing.            *)
THEOREM TenantsAreFifo == FairSpec => []TenantFifo
<1>1. FairInv => TenantFifo
  BY DEF FairInv
<1> QED BY <1>1, FairInvariant, PTL

\* The tags of serial jobs of one tenant are distinct and lie in the window.
LEMMA ShareBounded ==
    ASSUME FairInv PROVE FairShare
<1> USE DEF FairInv
<1> SUFFICES ASSUME NEW i \in Queued, NEW t \in Tenants, NEW S \in SUBSET {o \in overtakers[i] : o.tenant = t},
                    Serial(S), S # {}
             PROVE  Cardinality(S) <= row[i].fair_seq - mark[i].vt
  BY DEF FairShare
<1>1. i \in Ids /\ row[i].fair_seq \in Nat /\ mark[i].vt \in Nat
  BY FairFields DEF Queued
<1>2. \A o \in S : o \in overtakers[i] /\ o.tenant = t /\ o.fair_seq \in Nat /\ o.id \in Nat
  BY <1>1, FairFields
<1> DEFINE a == mark[i].vt
           b == row[i].fair_seq - 1
           W == a .. b
           f == [o \in S |-> o.fair_seq]
<1>3. a \in Int /\ b \in Int
  BY <1>1
<1>4. \A o \in S : o.fair_seq \in W
  <2> SUFFICES ASSUME NEW o \in S PROVE o.fair_seq \in W
    OBVIOUS
  <2>1. mark[i].vt <= o.fair_seq /\ o.fair_seq < row[i].fair_seq
    BY <1>2 DEF OvertakeWindow
  <2> QED BY <1>1, <1>2, <2>1
<1>5. \A o, q \in S : o.fair_seq = q.fair_seq => o = q
  <2> SUFFICES ASSUME NEW o \in S, NEW q \in S, o.fair_seq = q.fair_seq PROVE o = q
    OBVIOUS
  <2>1. /\ o \in overtakers[i] /\ q \in overtakers[i] /\ o.tenant = q.tenant
        /\ o.id \in Nat /\ q.id \in Nat /\ o.fair_seq \in Nat /\ q.fair_seq \in Nat
    BY <1>2
  <2>2. CASE o.id < q.id
    <3>1. o.mark <= q.id
      BY <2>2 DEF Serial
    <3>2. o.fair_seq < q.fair_seq
      BY <2>1, <2>2, <3>1 DEF RecordsOrdered
    <3> QED BY <2>1, <3>2
  <2>3. CASE q.id < o.id
    <3>1. q.mark <= o.id
      BY <2>3 DEF Serial
    <3>2. q.fair_seq < o.fair_seq
      BY <2>1, <2>3, <3>1 DEF RecordsOrdered
    <3> QED BY <2>1, <3>2
  <2>4. CASE o.id = q.id
    BY <2>1, <2>4 DEF RecordsOrdered
  <2> QED BY <2>1, <2>2, <2>3, <2>4
<1>6. PICK o \in S : TRUE
  OBVIOUS
<1>7. a <= b
  BY <1>1, <1>2, <1>4, <1>6
<1>8. IsFiniteSet(W) /\ Cardinality(W) = b - a + 1
  BY <1>3, <1>7, FS_Interval
<1> HIDE DEF W, a, b
<1>9. f \in Injection(S, W)
  BY <1>4, <1>5 DEF Injection, IsInjective
<1>10. IsFiniteSet(S) /\ Cardinality(S) <= Cardinality(W)
  BY <1>8, <1>9, FS_Injection
<1> QED BY <1>1, <1>8, <1>10 DEF a, b

(* Fairness between tenants, as FairShare states it.                         *)
THEOREM TenantsShareFairly == FairSpec => []FairShare
<1>1. FairInv => FairShare
  BY ShareBounded
<1> QED BY <1>1, FairInvariant, PTL
=============================================================================
