------------------------ MODULE OutboxDelivery_proofs ------------------------
(***************************************************************************)
(* For every set of events, consumers, relays and collectors: no           *)
(* registered consumer loses an event to the GC, and registrations skip    *)
(* exactly the backlog.                                                    *)
(***************************************************************************)
EXTENDS OutboxDelivery, TLAPS

Before == {"off", "inserted", "locked", "copied"}

\* Who works under GC_LOCK_KEY holds it.
Locking ==
    /\ \A c \in Consumers : reg[c] \in {"locked", "copied"} => lock = c
    /\ \A g \in Collectors : gc[g].pc \in {"locked", "read"} => lock = g

\* A collector that has read the registrations waits for all there are.
Waiting == \A g \in Collectors : gc[g].pc = "read" => registered \subseteq gc[g].wait

\* Before its registration ends a consumer has nothing.
Starting ==
    \A c \in Consumers :
        /\ reg[c] \in Before =>
              /\ c \notin registered /\ ledger[c] = {} /\ handled[c] = {} /\ backlog[c] = {}
              /\ \A r \in Relays : ConsumerOf[r] = c => relay[r] = NoBatch
        /\ c \in registered => reg[c] = "running"
        /\ c \notin registered => owed[c] = {}

\* Ledger and batches hold existing events, which the backlog and the debts tell apart.
Booked ==
    /\ \A c \in Consumers :
          /\ ledger[c] \subseteq Live
          /\ \A e \in backlog[c] \cup owed[c] : ev[e] \in {"live", "gone"}
    /\ \A r \in Relays : relay[r].batch \subseteq Live
    /\ \A c \in registered :
          /\ backlog[c] \cap Live \subseteq ledger[c]
          /\ backlog[c] \cap owed[c] = {}
          /\ \A r \in Relays : ConsumerOf[r] = c =>
                relay[r].todo \cap backlog[c] = {} /\ relay[r].batch \cap backlog[c] = {}

IInv ==
    /\ TypeOK /\ Locking /\ Waiting /\ Starting /\ Booked
    /\ OwedDelivered /\ BacklogSkipped /\ BacklogStays

\* An outbox without events and consumers satisfies the invariant.
LEMMA InitHolds == Init => IInv
<1> SUFFICES ASSUME Init PROVE IInv
  OBVIOUS
<1> USE OutboxAssumption DEF Init, NoCycle, NoBatch, Free, Live, Before
<1>1. TypeOK
  BY DEF TypeOK
<1>2. Locking /\ Waiting /\ Starting
  BY DEF Locking, Waiting, Starting
<1>3. Booked
  BY DEF Booked
<1>4. OwedDelivered /\ BacklogSkipped /\ BacklogStays
  BY DEF OwedDelivered, BacklogSkipped, BacklogStays
<1> QED BY <1>1, <1>2, <1>3, <1>4 DEF IInv

\* An emitted event keeps the invariant.
LEMMA EmitKeeps ==
    ASSUME IInv, NEW e \in Ids, Emit(e)
    PROVE  IInv'
<1> USE OutboxAssumption DEF IInv, Emit, tables, procs, history, NoCycle, NoBatch, Free, Live, Claimed, Before
<1>1. TypeOK'
  BY DEF TypeOK
<1>2. Locking'
  BY DEF TypeOK, Locking
<1>3. Waiting'
  BY DEF TypeOK, Waiting, Locking
<1>4. Starting'
  BY DEF TypeOK, Starting
<1>5. Booked'
  BY DEF TypeOK, Booked, Starting, Locking, BacklogStays
<1>6. OwedDelivered'
  BY DEF TypeOK, OwedDelivered, Starting, Booked, BacklogSkipped, Waiting
<1>7. BacklogSkipped'
  BY DEF TypeOK, BacklogSkipped, Starting, Booked
<1>8. BacklogStays'
  BY DEF TypeOK, BacklogStays, Locking
<1> QED BY <1>1, <1>2, <1>3, <1>4, <1>5, <1>6, <1>7, <1>8

\* A committed event: registered consumers are owed it keeps the invariant.
LEMMA CommitWriteKeeps ==
    ASSUME IInv, NEW e \in Ids, CommitWrite(e)
    PROVE  IInv'
<1> USE OutboxAssumption DEF IInv, CommitWrite, tables, procs, history, NoCycle, NoBatch, Free, Live, Claimed, Before
<1>1. TypeOK'
  BY DEF TypeOK
<1>2. Locking'
  BY DEF TypeOK, Locking
<1>3. Waiting'
  BY DEF TypeOK, Waiting, Locking
<1>4. Starting'
  BY DEF TypeOK, Starting
<1>5. Booked'
  BY DEF TypeOK, Booked, Starting, Locking, BacklogStays
<1>6. OwedDelivered'
  BY DEF TypeOK, OwedDelivered, Starting, Booked, BacklogSkipped, Waiting
<1>7. BacklogSkipped'
  BY DEF TypeOK, BacklogSkipped, Starting, Booked
<1>8. BacklogStays'
  BY DEF TypeOK, BacklogStays, Locking
<1> QED BY <1>1, <1>2, <1>3, <1>4, <1>5, <1>6, <1>7, <1>8

\* The start of a registration keeps the invariant.
LEMMA RegisterInsertKeeps ==
    ASSUME IInv, NEW c \in Consumers, RegisterInsert(c)
    PROVE  IInv'
<1> USE OutboxAssumption DEF IInv, RegisterInsert, tables, procs, history, NoCycle, NoBatch, Free, Live, Claimed, Before
<1>1. TypeOK'
  BY DEF TypeOK
<1>2. Locking'
  BY DEF TypeOK, Locking
<1>3. Waiting'
  BY DEF TypeOK, Waiting, Locking
<1>4. Starting'
  BY DEF TypeOK, Starting
<1>5. Booked'
  BY DEF TypeOK, Booked, Starting, Locking, BacklogStays
<1>6. OwedDelivered'
  BY DEF TypeOK, OwedDelivered, Starting, Booked, BacklogSkipped, Waiting
<1>7. BacklogSkipped'
  BY DEF TypeOK, BacklogSkipped, Starting, Booked
<1>8. BacklogStays'
  BY DEF TypeOK, BacklogStays, Locking
<1> QED BY <1>1, <1>2, <1>3, <1>4, <1>5, <1>6, <1>7, <1>8

\* A registration that gets the lock keeps the invariant.
LEMMA RegisterLockKeeps ==
    ASSUME IInv, NEW c \in Consumers, RegisterLock(c)
    PROVE  IInv'
<1> USE OutboxAssumption DEF IInv, RegisterLock, tables, procs, history, NoCycle, NoBatch, Free, Live, Claimed, Before
<1>1. TypeOK'
  BY DEF TypeOK
<1>2. Locking'
  BY DEF TypeOK, Locking
<1>3. Waiting'
  BY DEF TypeOK, Waiting, Locking
<1>4. Starting'
  BY DEF TypeOK, Starting
<1>5. Booked'
  BY DEF TypeOK, Booked, Starting, Locking, BacklogStays
<1>6. OwedDelivered'
  BY DEF TypeOK, OwedDelivered, Starting, Booked, BacklogSkipped, Waiting
<1>7. BacklogSkipped'
  BY DEF TypeOK, BacklogSkipped, Starting, Booked
<1>8. BacklogStays'
  BY DEF TypeOK, BacklogStays, Locking
<1> QED BY <1>1, <1>2, <1>3, <1>4, <1>5, <1>6, <1>7, <1>8

\* The copy of the backlog keeps the invariant.
LEMMA FastForwardKeeps ==
    ASSUME IInv, NEW c \in Consumers, FastForward(c)
    PROVE  IInv'
<1> USE OutboxAssumption DEF IInv, FastForward, tables, procs, history, NoCycle, NoBatch, Free, Live, Claimed, Before
<1>1. TypeOK'
  BY DEF TypeOK
<1>2. Locking'
  BY DEF TypeOK, Locking
<1>3. Waiting'
  BY DEF TypeOK, Waiting, Locking
<1>4. Starting'
  BY DEF TypeOK, Starting
<1>5. Booked'
  BY DEF TypeOK, Booked, Starting, Locking, BacklogStays
<1>6. OwedDelivered'
  BY DEF TypeOK, OwedDelivered, Starting, Booked, BacklogSkipped, Waiting
<1>7. BacklogSkipped'
  BY DEF TypeOK, BacklogSkipped, Starting, Booked
<1>8. BacklogStays'
  BY DEF TypeOK, BacklogStays, Locking
<1> QED BY <1>1, <1>2, <1>3, <1>4, <1>5, <1>6, <1>7, <1>8

\* The end of a registration keeps the invariant.
LEMMA RegisterCommitKeeps ==
    ASSUME IInv, NEW c \in Consumers, RegisterCommit(c)
    PROVE  IInv'
<1> USE OutboxAssumption DEF IInv, RegisterCommit, tables, procs, history, NoCycle, NoBatch, Free, Live, Claimed, Before
<1>1. TypeOK'
  BY DEF TypeOK
<1>2. Locking'
  BY DEF TypeOK, Locking
<1>3. Waiting'
  BY DEF TypeOK, Waiting, Locking
<1>4. Starting'
  BY DEF TypeOK, Starting
<1>5. Booked'
  BY DEF TypeOK, Booked, Starting, Locking, BacklogStays
<1>6. OwedDelivered'
  BY DEF TypeOK, OwedDelivered, Starting, Booked, BacklogSkipped, Waiting
<1>7. BacklogSkipped'
  BY DEF TypeOK, BacklogSkipped, Starting, Booked
<1>8. BacklogStays'
  BY DEF TypeOK, BacklogStays, Locking
<1> QED BY <1>1, <1>2, <1>3, <1>4, <1>5, <1>6, <1>7, <1>8

\* A failed registration keeps the invariant.
LEMMA RegisterFailsKeeps ==
    ASSUME IInv, NEW c \in Consumers, RegisterFails(c)
    PROVE  IInv'
<1> USE OutboxAssumption DEF IInv, RegisterFails, tables, procs, history, NoCycle, NoBatch, Free, Live, Claimed, Before
<1>1. TypeOK'
  BY DEF TypeOK
<1>2. Locking'
  BY DEF TypeOK, Locking
<1>3. Waiting'
  BY DEF TypeOK, Waiting, Locking
<1>4. Starting'
  BY DEF TypeOK, Starting
<1>5. Booked'
  BY DEF TypeOK, Booked, Starting, Locking, BacklogStays
<1>6. OwedDelivered'
  BY DEF TypeOK, OwedDelivered, Starting, Booked, BacklogSkipped, Waiting
<1>7. BacklogSkipped'
  BY DEF TypeOK, BacklogSkipped, Starting, Booked
<1>8. BacklogStays'
  BY DEF TypeOK, BacklogStays, Locking
<1> QED BY <1>1, <1>2, <1>3, <1>4, <1>5, <1>6, <1>7, <1>8

\* The end of a consumer keeps the invariant.
LEMMA UnregisterKeeps ==
    ASSUME IInv, NEW c \in Consumers, Unregister(c)
    PROVE  IInv'
<1> USE OutboxAssumption DEF IInv, Unregister, tables, procs, history, NoCycle, NoBatch, Free, Live, Claimed, Before
<1>1. TypeOK'
  BY DEF TypeOK
<1>2. Locking'
  BY DEF TypeOK, Locking
<1>3. Waiting'
  BY DEF TypeOK, Waiting, Locking
<1>4. Starting'
  BY DEF TypeOK, Starting
<1>5. Booked'
  BY DEF TypeOK, Booked, Starting, Locking, BacklogStays
<1>6. OwedDelivered'
  BY DEF TypeOK, OwedDelivered, Starting, Booked, BacklogSkipped, Waiting
<1>7. BacklogSkipped'
  BY DEF TypeOK, BacklogSkipped, Starting, Booked
<1>8. BacklogStays'
  BY DEF TypeOK, BacklogStays, Locking
<1> QED BY <1>1, <1>2, <1>3, <1>4, <1>5, <1>6, <1>7, <1>8

\* The snapshot of a claim keeps the invariant.
LEMMA ScanKeeps ==
    ASSUME IInv, NEW r \in Relays, Scan(r)
    PROVE  IInv'
<1> USE OutboxAssumption DEF IInv, Scan, tables, procs, history, NoCycle, NoBatch, Free, Live, Claimed, Before
<1>1. TypeOK'
  BY DEF TypeOK
<1>2. Locking'
  BY DEF TypeOK, Locking
<1>3. Waiting'
  BY DEF TypeOK, Waiting, Locking
<1>4. Starting'
  BY ZenonT(40) DEF TypeOK, Starting
<1>5. Booked'
  BY DEF TypeOK, Booked, Starting, Locking, BacklogStays
<1>6. OwedDelivered'
  BY DEF TypeOK, OwedDelivered, Starting, Booked, BacklogSkipped, Waiting
<1>7. BacklogSkipped'
  BY DEF TypeOK, BacklogSkipped, Starting, Booked
<1>8. BacklogStays'
  BY DEF TypeOK, BacklogStays, Locking
<1> QED BY <1>1, <1>2, <1>3, <1>4, <1>5, <1>6, <1>7, <1>8

\* The locks of a claim keeps the invariant.
LEMMA ClaimKeeps ==
    ASSUME IInv, NEW r \in Relays, Claim(r)
    PROVE  IInv'
<1> USE OutboxAssumption DEF IInv, Claim, tables, procs, history, NoCycle, NoBatch, Free, Live, Claimed, Before
<1>1. TypeOK'
  BY DEF TypeOK
<1>2. Locking'
  BY DEF TypeOK, Locking
<1>3. Waiting'
  BY DEF TypeOK, Waiting, Locking
<1>4. Starting'
  <2>1. ConsumerOf[r] \in Consumers /\ reg[ConsumerOf[r]] \notin Before
    <3>1. ConsumerOf[r] \in Consumers
      OBVIOUS
    <3>2. relay[r] # NoBatch
      OBVIOUS
    <3>3. reg[ConsumerOf[r]] \in Before => relay[r] = NoBatch
      BY <3>1 DEF Starting
    <3> QED BY <3>1, <3>2, <3>3
  <2>2. ASSUME NEW q \in Relays, ConsumerOf[q] # ConsumerOf[r] PROVE relay'[q] = relay[q]
    BY <2>2 DEF TypeOK
  <2>3. ASSUME NEW c \in Consumers, reg[c] \in Before
        PROVE  /\ c \notin registered /\ ledger'[c] = {} /\ handled'[c] = {} /\ backlog[c] = {}
               /\ \A q \in Relays : ConsumerOf[q] = c => relay'[q] = NoBatch
    BY <2>1, <2>2, <2>3 DEF Starting, TypeOK
  <2> QED BY <2>3 DEF Starting, TypeOK
<1>5. Booked'
  BY DEF TypeOK, Booked, Starting, Locking, BacklogStays
<1>6. OwedDelivered'
  BY DEF TypeOK, OwedDelivered, Starting, Booked, BacklogSkipped, Waiting
<1>7. BacklogSkipped'
  BY DEF TypeOK, BacklogSkipped, Starting, Booked
<1>8. BacklogStays'
  BY DEF TypeOK, BacklogStays, Locking
<1> QED BY <1>1, <1>2, <1>3, <1>4, <1>5, <1>6, <1>7, <1>8

\* A delivered batch keeps the invariant.
LEMMA DeliverKeeps ==
    ASSUME IInv, NEW r \in Relays, Deliver(r)
    PROVE  IInv'
<1> USE OutboxAssumption DEF IInv, Deliver, tables, procs, history, NoCycle, NoBatch, Free, Live, Claimed, Before
<1>1. TypeOK'
  BY DEF TypeOK
<1>2. Locking'
  BY DEF TypeOK, Locking
<1>3. Waiting'
  BY DEF TypeOK, Waiting, Locking
<1>4. Starting'
  <2>1. ConsumerOf[r] \in Consumers /\ reg[ConsumerOf[r]] \notin Before
    <3>1. ConsumerOf[r] \in Consumers
      OBVIOUS
    <3>2. relay[r] # NoBatch
      OBVIOUS
    <3>3. reg[ConsumerOf[r]] \in Before => relay[r] = NoBatch
      BY <3>1 DEF Starting
    <3> QED BY <3>1, <3>2, <3>3
  <2>2. ASSUME NEW q \in Relays, ConsumerOf[q] # ConsumerOf[r] PROVE relay'[q] = relay[q]
    BY <2>2 DEF TypeOK
  <2>3. ASSUME NEW c \in Consumers, reg[c] \in Before
        PROVE  /\ c \notin registered /\ ledger'[c] = {} /\ handled'[c] = {} /\ backlog[c] = {}
               /\ \A q \in Relays : ConsumerOf[q] = c => relay'[q] = NoBatch
    BY <2>1, <2>2, <2>3 DEF Starting, TypeOK
  <2> QED BY <2>3 DEF Starting, TypeOK
<1>5. Booked'
  BY DEF TypeOK, Booked, Starting, Locking, BacklogStays
<1>6. OwedDelivered'
  BY DEF TypeOK, OwedDelivered, Starting, Booked, BacklogSkipped, Waiting
<1>7. BacklogSkipped'
  BY DEF TypeOK, BacklogSkipped, Starting, Booked
<1>8. BacklogStays'
  BY DEF TypeOK, BacklogStays, Locking
<1> QED BY <1>1, <1>2, <1>3, <1>4, <1>5, <1>6, <1>7, <1>8

\* A batch that rolls back keeps the invariant.
LEMMA AbortKeeps ==
    ASSUME IInv, NEW r \in Relays, Abort(r)
    PROVE  IInv'
<1> USE OutboxAssumption DEF IInv, Abort, tables, procs, history, NoCycle, NoBatch, Free, Live, Claimed, Before
<1>1. TypeOK'
  BY DEF TypeOK
<1>2. Locking'
  BY DEF TypeOK, Locking
<1>3. Waiting'
  BY DEF TypeOK, Waiting, Locking
<1>4. Starting'
  BY DEF TypeOK, Starting
<1>5. Booked'
  BY DEF TypeOK, Booked, Starting, Locking, BacklogStays
<1>6. OwedDelivered'
  BY DEF TypeOK, OwedDelivered, Starting, Booked, BacklogSkipped, Waiting
<1>7. BacklogSkipped'
  BY DEF TypeOK, BacklogSkipped, Starting, Booked
<1>8. BacklogStays'
  BY DEF TypeOK, BacklogStays, Locking
<1> QED BY <1>1, <1>2, <1>3, <1>4, <1>5, <1>6, <1>7, <1>8

\* The registration of the RAG relay keeps the invariant.
LEMMA RegisterAckKeeps ==
    ASSUME IInv, RegisterAck
    PROVE  IInv'
<1> USE OutboxAssumption DEF IInv, RegisterAck, tables, procs, history, NoCycle, NoBatch, Free, Live, Claimed, Before
<1>1. TypeOK'
  BY DEF TypeOK
<1>2. Locking'
  BY DEF TypeOK, Locking
<1>3. Waiting'
  BY DEF TypeOK, Waiting, Locking
<1>4. Starting'
  BY DEF TypeOK, Starting
<1>5. Booked'
  BY DEF TypeOK, Booked, Starting, Locking, BacklogStays
<1>6. OwedDelivered'
  BY DEF TypeOK, OwedDelivered, Starting, Booked, BacklogSkipped, Waiting
<1>7. BacklogSkipped'
  BY DEF TypeOK, BacklogSkipped, Starting, Booked
<1>8. BacklogStays'
  BY DEF TypeOK, BacklogStays, Locking
<1> QED BY <1>1, <1>2, <1>3, <1>4, <1>5, <1>6, <1>7, <1>8

\* A batch of the RAG relay keeps the invariant.
LEMMA RagClaimKeeps ==
    ASSUME IInv, RagClaim
    PROVE  IInv'
<1> USE OutboxAssumption DEF IInv, RagClaim, tables, procs, history, NoCycle, NoBatch, Free, Live, Claimed, Before
<1>1. TypeOK'
  BY DEF TypeOK
<1>2. Locking'
  BY DEF TypeOK, Locking
<1>3. Waiting'
  BY DEF TypeOK, Waiting, Locking
<1>4. Starting'
  BY DEF TypeOK, Starting
<1>5. Booked'
  BY DEF TypeOK, Booked, Starting, Locking, BacklogStays
<1>6. OwedDelivered'
  BY DEF TypeOK, OwedDelivered, Starting, Booked, BacklogSkipped, Waiting
<1>7. BacklogSkipped'
  BY DEF TypeOK, BacklogSkipped, Starting, Booked
<1>8. BacklogStays'
  BY DEF TypeOK, BacklogStays, Locking
<1> QED BY <1>1, <1>2, <1>3, <1>4, <1>5, <1>6, <1>7, <1>8

\* Its acknowledgement keeps the invariant.
LEMMA RagCommitKeeps ==
    ASSUME IInv, RagCommit
    PROVE  IInv'
<1> USE OutboxAssumption DEF IInv, RagCommit, tables, procs, history, NoCycle, NoBatch, Free, Live, Claimed, Before
<1>1. TypeOK'
  BY DEF TypeOK
<1>2. Locking'
  BY DEF TypeOK, Locking
<1>3. Waiting'
  BY DEF TypeOK, Waiting, Locking
<1>4. Starting'
  BY DEF TypeOK, Starting
<1>5. Booked'
  BY DEF TypeOK, Booked, Starting, Locking, BacklogStays
<1>6. OwedDelivered'
  BY DEF TypeOK, OwedDelivered, Starting, Booked, BacklogSkipped, Waiting
<1>7. BacklogSkipped'
  BY DEF TypeOK, BacklogSkipped, Starting, Booked
<1>8. BacklogStays'
  BY DEF TypeOK, BacklogStays, Locking
<1> QED BY <1>1, <1>2, <1>3, <1>4, <1>5, <1>6, <1>7, <1>8

\* Its rollback keeps the invariant.
LEMMA RagAbortKeeps ==
    ASSUME IInv, RagAbort
    PROVE  IInv'
<1> USE OutboxAssumption DEF IInv, RagAbort, tables, procs, history, NoCycle, NoBatch, Free, Live, Claimed, Before
<1>1. TypeOK'
  BY DEF TypeOK
<1>2. Locking'
  BY DEF TypeOK, Locking
<1>3. Waiting'
  BY DEF TypeOK, Waiting, Locking
<1>4. Starting'
  BY DEF TypeOK, Starting
<1>5. Booked'
  BY DEF TypeOK, Booked, Starting, Locking, BacklogStays
<1>6. OwedDelivered'
  BY DEF TypeOK, OwedDelivered, Starting, Booked, BacklogSkipped, Waiting
<1>7. BacklogSkipped'
  BY DEF TypeOK, BacklogSkipped, Starting, Booked
<1>8. BacklogStays'
  BY DEF TypeOK, BacklogStays, Locking
<1> QED BY <1>1, <1>2, <1>3, <1>4, <1>5, <1>6, <1>7, <1>8

\* A collector that gets the lock keeps the invariant.
LEMMA GcLockKeeps ==
    ASSUME IInv, NEW g \in Collectors, GcLock(g)
    PROVE  IInv'
<1> USE OutboxAssumption DEF IInv, GcLock, tables, procs, history, NoCycle, NoBatch, Free, Live, Claimed, Before
<1>1. TypeOK'
  BY DEF TypeOK
<1>2. Locking'
  BY DEF TypeOK, Locking
<1>3. Waiting'
  BY DEF TypeOK, Waiting, Locking
<1>4. Starting'
  BY DEF TypeOK, Starting
<1>5. Booked'
  BY DEF TypeOK, Booked, Starting, Locking, BacklogStays
<1>6. OwedDelivered'
  BY DEF TypeOK, OwedDelivered, Starting, Booked, BacklogSkipped, Waiting
<1>7. BacklogSkipped'
  BY DEF TypeOK, BacklogSkipped, Starting, Booked
<1>8. BacklogStays'
  BY DEF TypeOK, BacklogStays, Locking
<1> QED BY <1>1, <1>2, <1>3, <1>4, <1>5, <1>6, <1>7, <1>8

\* A collector that reads the registrations, which cannot change until it is done keeps the invariant.
LEMMA GcReadKeeps ==
    ASSUME IInv, NEW g \in Collectors, GcRead(g)
    PROVE  IInv'
<1> USE OutboxAssumption DEF IInv, GcRead, tables, procs, history, NoCycle, NoBatch, Free, Live, Claimed, Before
<1>1. TypeOK'
  BY DEF TypeOK
<1>2. Locking'
  BY DEF TypeOK, Locking
<1>3. Waiting'
  BY DEF TypeOK, Waiting, Locking
<1>4. Starting'
  BY DEF TypeOK, Starting
<1>5. Booked'
  BY DEF TypeOK, Booked, Starting, Locking, BacklogStays
<1>6. OwedDelivered'
  BY DEF TypeOK, OwedDelivered, Starting, Booked, BacklogSkipped, Waiting
<1>7. BacklogSkipped'
  BY DEF TypeOK, BacklogSkipped, Starting, Booked
<1>8. BacklogStays'
  BY DEF TypeOK, BacklogStays, Locking
<1> QED BY <1>1, <1>2, <1>3, <1>4, <1>5, <1>6, <1>7, <1>8

\* A deletion keeps the invariant.
LEMMA GcDeleteKeeps ==
    ASSUME IInv, NEW g \in Collectors, GcDelete(g)
    PROVE  IInv'
<1> USE OutboxAssumption DEF IInv, GcDelete, tables, procs, history, NoCycle, NoBatch, Free, Live, Claimed, Before, Deletable
<1>1. TypeOK'
  BY DEF TypeOK
<1>2. Locking'
  BY DEF TypeOK, Locking
<1>3. Waiting'
  BY DEF TypeOK, Waiting, Locking
<1>4. Starting'
  BY DEF TypeOK, Starting
<1>5. Booked'
  BY DEF TypeOK, Booked, Starting, Locking, BacklogStays
<1>6. OwedDelivered'
  BY DEF TypeOK, OwedDelivered, Starting, Booked, BacklogSkipped, Waiting
<1>7. BacklogSkipped'
  BY DEF TypeOK, BacklogSkipped, Starting, Booked
<1>8. BacklogStays'
  BY DEF TypeOK, BacklogStays, Locking
<1> QED BY <1>1, <1>2, <1>3, <1>4, <1>5, <1>6, <1>7, <1>8

\* A step of something else keeps the invariant.
LEMMA StutterKeeps ==
    ASSUME IInv, UNCHANGED vars
    PROVE  IInv'
<1> USE OutboxAssumption DEF IInv, vars, tables, procs, history, NoCycle, NoBatch, Free, Live, Claimed, Before
<1>1. TypeOK'
  BY DEF TypeOK
<1>2. Locking'
  BY DEF TypeOK, Locking
<1>3. Waiting'
  BY DEF TypeOK, Waiting, Locking
<1>4. Starting'
  BY DEF TypeOK, Starting
<1>5. Booked'
  BY DEF TypeOK, Booked, Starting, Locking, BacklogStays
<1>6. OwedDelivered'
  BY DEF TypeOK, OwedDelivered, Starting, Booked, BacklogSkipped, Waiting
<1>7. BacklogSkipped'
  BY DEF TypeOK, BacklogSkipped, Starting, Booked
<1>8. BacklogStays'
  BY DEF TypeOK, BacklogStays, Locking
<1> QED BY <1>1, <1>2, <1>3, <1>4, <1>5, <1>6, <1>7, <1>8

\* Every step keeps the invariant.
LEMMA NextKeeps == IInv /\ [Next]_vars => IInv'
<1> SUFFICES ASSUME IInv, [Next]_vars PROVE IInv'
  OBVIOUS
<1>1. CASE UNCHANGED vars
  BY <1>1, StutterKeeps
<1>2. ASSUME NEW e \in Ids, Emit(e) \/ CommitWrite(e) PROVE IInv'
  BY <1>2, EmitKeeps, CommitWriteKeeps
<1>3. ASSUME NEW c \in Consumers, RegisterStep(c) \/ RegisterFails(c) \/ Unregister(c) PROVE IInv'
  BY <1>3, RegisterInsertKeeps, RegisterLockKeeps, FastForwardKeeps, RegisterCommitKeeps,
     RegisterFailsKeeps, UnregisterKeeps DEF RegisterStep
<1>4. ASSUME NEW r \in Relays, RelayStep(r) \/ Abort(r) PROVE IInv'
  BY <1>4, ScanKeeps, ClaimKeeps, DeliverKeeps, AbortKeeps DEF RelayStep
<1>5. CASE RegisterAck \/ RagClaim \/ RagCommit \/ RagAbort
  BY <1>5, RegisterAckKeeps, RagClaimKeeps, RagCommitKeeps, RagAbortKeeps
<1>6. ASSUME NEW g \in Collectors, GcStep(g) PROVE IInv'
  BY <1>6, GcLockKeeps, GcReadKeeps, GcDeleteKeeps DEF GcStep
<1> QED BY <1>1, <1>2, <1>3, <1>4, <1>5, <1>6 DEF Next

(* The invariant of the outbox holds in every state.                        *)
THEOREM OutboxInvariant == Spec => []IInv
BY InitHolds, NextKeeps, PTL DEF Spec

(* No registered consumer loses an event: reading the registrations under   *)
(* GC_LOCK_KEY, which gc_delivered_registered does, is enough.              *)
THEOREM NoEventLost == Spec => []OwedDelivered
<1>1. IInv => OwedDelivered
  BY DEF IInv
<1> QED BY <1>1, OutboxInvariant, PTL

(* A registration skips the backlog and nothing but the backlog.            *)
THEOREM BacklogIsSkipped == Spec => []BacklogSkipped
<1>1. IInv => BacklogSkipped
  BY DEF IInv
<1> QED BY <1>1, OutboxInvariant, PTL

(* No registration fails on a row that a collector deletes.                 *)
THEOREM CopiedRowsStay == Spec => []BacklogStays
<1>1. IInv => BacklogStays
  BY DEF IInv
<1> QED BY <1>1, OutboxInvariant, PTL

-----------------------------------------------------------------------------
(* The contract of the outbox: every step is one of the contract or leaves   *)
(* what the contract sees as it is.                                          *)

\* The steps that the contract does not see leave its variables alone.
LEMMA HiddenSteps ==
    ASSUME IInv,
           \/ UNCHANGED vars
           \/ \E e \in Ids : Emit(e)
           \/ \E c \in Consumers : RegisterInsert(c) \/ RegisterLock(c) \/ FastForward(c) \/ RegisterFails(c)
           \/ \E r \in Relays : Scan(r) \/ Claim(r) \/ Abort(r)
           \/ RegisterAck \/ RagClaim \/ RagCommit \/ RagAbort
           \/ \E g \in Collectors : GcLock(g) \/ GcRead(g)
    PROVE  UNCHANGED Contract!vars
<1>1. UNCHANGED <<registered, owed, handled>>
  BY DEF vars, tables, procs, history, Emit, RegisterInsert, RegisterLock, FastForward, RegisterFails,
         Scan, Claim, Abort, RegisterAck, RagClaim, RagCommit, RagAbort, GcLock, GcRead
<1>2. \A c \in Consumers : c \in registered => backlog'[c] = backlog[c]
  <2>1. CASE \E c \in Consumers : RegisterFails(c)
    <3>1. PICK c \in Consumers : RegisterFails(c)
      BY <2>1
    <3>2. c \notin registered
      BY <3>1 DEF IInv, Starting, RegisterFails
    <3> QED BY <3>1, <3>2 DEF RegisterFails, IInv, TypeOK
  <2>2. CASE UNCHANGED backlog
    BY <2>2
  <2> QED
    BY <2>1, <2>2 DEF vars, tables, procs, history, Emit, RegisterInsert, RegisterLock, FastForward,
           Scan, Claim, Abort, RegisterAck, RagClaim, RagCommit, RagAbort, GcLock, GcRead
<1>3. \A e \in Ids : (IF ev'[e] = "open" THEN "new" ELSE ev'[e]) = (IF ev[e] = "open" THEN "new" ELSE ev[e])
  <2>1. CASE \E e \in Ids : Emit(e)
    BY <2>1 DEF Emit, IInv, TypeOK
  <2>2. CASE UNCHANGED ev
    BY <2>2
  <2> QED
    BY <2>1, <2>2 DEF vars, tables, procs, history, RegisterInsert, RegisterLock, FastForward, RegisterFails,
           Scan, Claim, Abort, RegisterAck, RagClaim, RagCommit, RagAbort, GcLock, GcRead
<1> QED
  BY <1>1, <1>2, <1>3 DEF Contract!vars

\* A commit is a Publish.
LEMMA CommitPublishes ==
    ASSUME IInv, NEW e \in Ids, CommitWrite(e)
    PROVE  Contract!Publish(e)
BY DEF IInv, TypeOK, CommitWrite, procs, Contract!Publish

\* The end of a registration is a Join that spares the copied backlog.
LEMMA RegistrationJoins ==
    ASSUME IInv, NEW c \in Consumers, RegisterCommit(c)
    PROVE  \E E \in SUBSET Ids : Contract!Join(c, E)
<1>1. c \notin registered
  BY DEF IInv, Starting, Before, RegisterCommit
<1>2. copy[c] \subseteq Live
  BY DEF IInv, BacklogStays, RegisterCommit
<1>3. PICK E \in SUBSET Ids : E = copy[c]
  BY <1>2 DEF Live
<1>4. Contract!Join(c, E)
  BY <1>1, <1>2, <1>3 DEF IInv, TypeOK, RegisterCommit, Live, Contract!Join, Contract!Present
<1> QED BY <1>4

\* The end of a consumer is a Leave.
LEMMA UnregistrationLeaves ==
    ASSUME IInv, NEW c \in Consumers, Unregister(c)
    PROVE  Contract!Leave(c)
BY DEF IInv, TypeOK, Unregister, Contract!Leave

\* A delivered batch is a Receive of events that are still there.
LEMMA DeliveryReceives ==
    ASSUME IInv, NEW r \in Relays, Deliver(r)
    PROVE  Contract!Receive(ConsumerOf[r], relay[r].batch) /\ relay[r].batch \in SUBSET Ids
<1>1. ConsumerOf[r] \in Consumers /\ relay[r].batch \subseteq Live
  BY OutboxAssumption DEF IInv, Booked
<1>2. ConsumerOf[r] \in registered => relay[r].batch \cap backlog[ConsumerOf[r]] = {}
  BY <1>1 DEF IInv, Booked
<1> QED
  BY <1>1, <1>2 DEF IInv, TypeOK, Deliver, Live, Contract!Receive, Contract!Present

\* A collection is a Remove of events that nobody is owed any more.
LEMMA CollectionRemoves ==
    ASSUME IInv, NEW g \in Collectors, GcDelete(g)
    PROVE  \E E \in SUBSET Ids : Contract!Remove(E)
<1> DEFINE D == Deletable(gc[g].wait, gc[g].ack)
<1>1. D \subseteq Live
  BY DEF Deletable
<1>2. registered \subseteq gc[g].wait
  BY DEF IInv, Waiting, GcDelete
<1>3. \A c \in registered : D \cap owed[c] \subseteq handled[c]
  <2> SUFFICES ASSUME NEW c \in registered, NEW e \in D, e \in owed[c] PROVE e \in handled[c]
    OBVIOUS
  <2>1. c \in Consumers /\ e \in ledger[c] /\ e \in Live
    BY <1>1, <1>2 DEF Deletable, IInv, TypeOK
  <2>2. e \in backlog[c] \cup handled[c]
    BY <2>1 DEF IInv, BacklogSkipped
  <2>3. e \notin backlog[c]
    BY <2>1 DEF IInv, Booked
  <2> QED BY <2>2, <2>3
<1>4. PICK E \in SUBSET Ids : E = D
  BY <1>1 DEF Live
<1>5. Contract!Remove(E)
  BY <1>1, <1>3, <1>4 DEF IInv, TypeOK, GcDelete, history, Live, Contract!Remove, Contract!Present
<1> QED BY <1>5

(* The outbox implements its contract, for every number of events,          *)
(* consumers, relays and collectors: KeepsContract.                         *)
THEOREM ContractKept == Spec => KeepsContract
<1>1. Init => Contract!Init
  BY DEF Init, Contract!Init, Contract!Nothing
<1>2. IInv /\ [Next]_vars => [Contract!Next]_Contract!vars
  <2> SUFFICES ASSUME IInv, [Next]_vars PROVE Contract!Next \/ UNCHANGED Contract!vars
    OBVIOUS
  <2>1. ASSUME NEW e \in Ids, CommitWrite(e) PROVE Contract!Next
    BY <2>1, CommitPublishes DEF Contract!Next
  <2>2. ASSUME NEW c \in Consumers, RegisterCommit(c) PROVE Contract!Next
    BY <2>2, RegistrationJoins DEF Contract!Next
  <2>3. ASSUME NEW c \in Consumers, Unregister(c) PROVE Contract!Next
    BY <2>3, UnregistrationLeaves DEF Contract!Next
  <2>4. ASSUME NEW r \in Relays, Deliver(r) PROVE Contract!Next
    BY <2>4, DeliveryReceives, OutboxAssumption DEF Contract!Next
  <2>5. ASSUME NEW g \in Collectors, GcDelete(g) PROVE Contract!Next
    BY <2>5, CollectionRemoves DEF Contract!Next
  <2> QED
    BY <2>1, <2>2, <2>3, <2>4, <2>5, HiddenSteps DEF Next, RegisterStep, RelayStep, GcStep
<1> QED BY <1>1, <1>2, OutboxInvariant, PTL DEF Spec, KeepsContract, Contract!Spec
=============================================================================
