-------------------------- MODULE TriggerScheduler --------------------------
(***************************************************************************)
(* How triggers become runs (crates/workflow-engine/src/scheduler): the    *)
(* leader's tick fires the due occurrences of a schedule trigger and       *)
(* relays outbox events to an event trigger.  A key is an occurrence       *)
(* (a time) or an event (an outbox id); its row of schedule_occurrence or  *)
(* trigger_firing records the run it started.                              *)
(*                                                                         *)
(* The row is locked in one transaction while the launcher creates the run *)
(* in another one, so each is a step of its own, and a scheduler may fail  *)
(* or stop between any two of them.  The lease of the leader carries no    *)
(* token: a slow leader goes on with its tick after another took over.     *)
(***************************************************************************)
EXTENDS Integers, FiniteSets

CONSTANTS
    Schedulers,   \* instances that run the scheduler loop
    Times,        \* the occurrences of the cron expression, in minutes
    Events,       \* outbox ids of events that match the event trigger
    LiveGap,      \* MAX_LIVE_TICK_GAP
    Grace,        \* ON_TIME_GRACE
    MaxTime,      \* bound on the clock
    MaxFails      \* bound: crashes, errors and launches that fail

ASSUME SchedulerAssumption ==
    /\ Times \subseteq 1..MaxTime /\ Events \subseteq Nat /\ Times \cap Events = {}
    /\ LiveGap \in Nat /\ Grace \in Nat /\ MaxTime \in Nat /\ MaxFails \in Nat

Keys == Times \cup Events
None == "none"

VARIABLES
    catchup,     \* the schedule trigger's spec.catchup
    clock,       \* the time
    lease,       \* scheduler_lease: [owner, valid]
    watermark,   \* workflow_trigger.last_planned_at
    high,        \* history: the highest watermark so far
    outbox,      \* committed events
    delivered,   \* outbox_delivery rows of the consumer "workflow"
    row,         \* key -> "absent", "null" (run_id is NULL) or "run"
    tick,        \* scheduler -> where its tick is
    runs,        \* history: key -> runs created for it
    unrecorded,  \* history: key -> runs whose record was lost with the transaction
    fails        \* failures so far

db == <<watermark, high, outbox, delivered, row>>
schedulerVars == <<catchup, clock, lease, db, tick, runs, unrecorded, fails>>

Steps == {"idle", "plan", "fire", "launch", "record", "relay", "scan"}
NoKey == -1
TickState == [pc : Steps, now : 0..MaxTime, events : BOOLEAN, todo : SUBSET Keys,
              batch : SUBSET Events, key : Keys \cup {NoKey}, launched : BOOLEAN]
Idle == [pc |-> "idle", now |-> 0, events |-> FALSE, todo |-> {}, batch |-> {}, key |-> NoKey,
         launched |-> FALSE]

SchedulerInit ==
    /\ catchup \in {"skip", "none", "all"}
    /\ clock = 0
    /\ lease = [owner |-> None, valid |-> FALSE]
    /\ watermark = 0 /\ high = 0    \* the trigger was created at time 0
    /\ outbox = {} /\ delivered = {}
    /\ row = [k \in Keys |-> "absent"]
    /\ tick = [s \in Schedulers |-> Idle]
    /\ runs = [k \in Keys |-> 0] /\ unrecorded = [k \in Keys |-> 0]
    /\ fails = 0

-----------------------------------------------------------------------------
(* The occurrences a tick at time "now" fires, the trigger having been      *)
(* evaluated up to "after".                                                 *)

Latest(S) == {k \in S : \A j \in S : j <= k}

\* Faulty variant: an interval evaluated late is dropped as a whole.
Due_dropped(after, now) ==
    LET between == {k \in Times : after < k /\ k <= now}
    IN  IF now - after <= 1 THEN Latest(between) ELSE {}

Due(after, now) ==
    LET between == {k \in Times : after < k /\ k <= now}
    IN  CASE catchup = "all"  -> between
          [] catchup = "skip" -> Latest(between)
          [] catchup = "none" -> {k \in Latest(between) : now - after <= LiveGap \/ now - k <= Grace}

-----------------------------------------------------------------------------
(* One tick of a scheduler *)

\* acquire_or_renew: the holder renews, anyone takes an expired lease.
Acquire(s) ==
    /\ tick[s].pc = "idle"
    /\ lease.owner = s \/ ~lease.valid
    /\ lease' = [owner |-> s, valid |-> TRUE]
    /\ tick' = [tick EXCEPT ![s] = [Idle EXCEPT !.pc = "plan", !.now = clock]]
    /\ UNCHANGED <<catchup, clock, db, runs, unrecorded, fails>>

\* tick_schedules reads the trigger and computes its due occurrences.
Plan(s) ==
    /\ tick[s].pc = "plan"
    /\ tick' = [tick EXCEPT ![s].pc = "fire", ![s].todo = Due(watermark, tick[s].now)]
    /\ UNCHANGED <<catchup, clock, lease, db, runs, unrecorded, fails>>

\* Another scheduler's transaction holds the row of k.
Locked(k, s) == \E t \in Schedulers \ {s} : tick[t].pc \in {"launch", "record"} /\ tick[t].key = k

\* The next key in order.
IsNext(s, k) == k \in tick[s].todo /\ \A j \in tick[s].todo : k <= j

\* Faulty variant: the row is read without FOR UPDATE.
Reserve_unlocked(s, k) ==
    /\ tick[s].pc = "fire" /\ IsNext(s, k)
    /\ IF row[k] = "run"
       THEN tick' = [tick EXCEPT ![s].todo = @ \ {k}]
       ELSE tick' = [tick EXCEPT ![s].pc = "launch", ![s].key = k]
    /\ UNCHANGED <<catchup, clock, lease, db, runs, unrecorded, fails>>

\* fire_occurrence and match_event: occupy and lock the row; a key that has a run is done.
Reserve(s, k) ==
    /\ tick[s].pc = "fire" /\ IsNext(s, k) /\ ~Locked(k, s)
    /\ IF row[k] = "run"
       THEN tick' = [tick EXCEPT ![s].todo = @ \ {k}]
       ELSE tick' = [tick EXCEPT ![s].pc = "launch", ![s].key = k]
    /\ UNCHANGED <<catchup, clock, lease, db, runs, unrecorded, fails>>

\* launch: the run is created and committed.
Launch(s) ==
    /\ tick[s].pc = "launch"
    /\ tick' = [tick EXCEPT ![s].pc = "record", ![s].launched = TRUE]
    /\ runs' = [runs EXCEPT ![tick[s].key] = @ + 1]
    /\ UNCHANGED <<catchup, clock, lease, db, unrecorded, fails>>

\* launch returns None: an error, an invalid delegation, or too many runs.
LaunchNothing(s) ==
    /\ tick[s].pc = "launch" /\ fails < MaxFails
    /\ tick' = [tick EXCEPT ![s].pc = "record", ![s].launched = FALSE]
    /\ fails' = fails + 1
    /\ UNCHANGED <<catchup, clock, lease, db, runs, unrecorded>>

\* run_id is written and the row committed.
Record(s) ==
    /\ tick[s].pc = "record"
    /\ row' = [row EXCEPT ![tick[s].key] = IF tick[s].launched THEN "run" ELSE "null"]
    /\ tick' = [tick EXCEPT ![s].pc = "fire", ![s].todo = @ \ {tick[s].key}, ![s].key = NoKey,
                            ![s].launched = FALSE]
    /\ UNCHANGED <<catchup, clock, lease, watermark, high, outbox, delivered, runs, unrecorded, fails>>

\* Faulty variant: the watermark is the time at which it is written.
AdvanceWatermark_late(s) ==
    /\ tick[s].pc = "fire" /\ ~tick[s].events /\ tick[s].todo = {}
    /\ watermark' = clock
    /\ high' = IF high < clock THEN clock ELSE high
    /\ tick' = [tick EXCEPT ![s] = [Idle EXCEPT !.pc = "relay"]]
    /\ UNCHANGED <<catchup, clock, lease, outbox, delivered, row, runs, unrecorded, fails>>

\* advance_watermark: to the time of this tick, even if it is behind.
AdvanceWatermark(s) ==
    /\ tick[s].pc = "fire" /\ ~tick[s].events /\ tick[s].todo = {}
    /\ watermark' = tick[s].now
    /\ high' = IF high < tick[s].now THEN tick[s].now ELSE high
    /\ tick' = [tick EXCEPT ![s] = [Idle EXCEPT !.pc = "relay"]]
    /\ UNCHANGED <<catchup, clock, lease, outbox, delivered, row, runs, unrecorded, fails>>

\* relay_events: the snapshot of the claim, with the events that have no delivery row.
Scan(s) ==
    /\ tick[s].pc = "relay"
    /\ tick' = [tick EXCEPT ![s].pc = "scan", ![s].todo = outbox \ delivered]
    /\ UNCHANGED <<catchup, clock, lease, db, runs, unrecorded, fails>>

\* It locks the rows nobody has locked: also one that was delivered since the snapshot,
\* because the row itself did not change.
ClaimEvents(s) ==
    /\ tick[s].pc = "scan"
    /\ LET free == tick[s].todo \ UNION {tick[t].batch : t \in Schedulers}
       IN  tick' = [tick EXCEPT ![s] = IF free = {} THEN Idle
                                       ELSE [Idle EXCEPT !.pc = "fire", !.events = TRUE,
                                                         !.todo = free, !.batch = free]]
    /\ UNCHANGED <<catchup, clock, lease, db, runs, unrecorded, fails>>

\* mark_delivered and commit of the batch.
MarkDelivered(s) ==
    /\ tick[s].pc = "fire" /\ tick[s].events /\ tick[s].todo = {}
    /\ delivered' = delivered \cup tick[s].batch
    /\ tick' = [tick EXCEPT ![s] = Idle]
    /\ UNCHANGED <<catchup, clock, lease, watermark, high, outbox, row, runs, unrecorded, fails>>

\* An error or a crash: the open transactions roll back.  After an error of
\* tick_schedules the tick goes on with the relay.
Fail(s) ==
    /\ tick[s].pc # "idle" /\ fails < MaxFails
    /\ fails' = fails + 1
    /\ unrecorded' = [k \in Keys |-> IF tick[s].launched /\ tick[s].key = k
                                     THEN unrecorded[k] + 1 ELSE unrecorded[k]]
    /\ \/ tick' = [tick EXCEPT ![s] = Idle]
       \/ /\ ~tick[s].events /\ tick[s].pc \notin {"relay", "scan"}
          /\ tick' = [tick EXCEPT ![s] = [Idle EXCEPT !.pc = "relay"]]
    /\ UNCHANGED <<catchup, clock, lease, db, runs>>

-----------------------------------------------------------------------------
(* The environment *)

LeaseExpires ==
    /\ lease.valid
    /\ lease' = [lease EXCEPT !.valid = FALSE]
    /\ UNCHANGED <<catchup, clock, db, tick, runs, unrecorded, fails>>

Clock ==
    /\ clock < MaxTime /\ clock' = clock + 1
    /\ UNCHANGED <<catchup, lease, db, tick, runs, unrecorded, fails>>

\* A write commits its event.
Emit(e) ==
    /\ e \notin outbox /\ outbox' = outbox \cup {e}
    /\ UNCHANGED <<catchup, clock, lease, watermark, high, delivered, row, tick, runs, unrecorded, fails>>

TickStep(s) ==
    \/ Acquire(s) \/ Plan(s) \/ (\E k \in Keys : Reserve(s, k))
    \/ Launch(s) \/ Record(s) \/ AdvanceWatermark(s) \/ Scan(s) \/ ClaimEvents(s) \/ MarkDelivered(s)

SchedulerNext ==
    \/ \E s \in Schedulers : TickStep(s) \/ LaunchNothing(s) \/ Fail(s)
    \/ LeaseExpires \/ Clock \/ \E e \in Events : Emit(e)

SchedulerSpec == SchedulerInit /\ [][SchedulerNext]_schedulerVars

\* Every instance runs its loop (a failed tick is followed by another one) and time passes.
LiveSchedulerSpec == SchedulerSpec /\ (\A s \in Schedulers : WF_schedulerVars(TickStep(s))) /\ WF_schedulerVars(Clock)

-----------------------------------------------------------------------------
(* Properties *)

\* The tables and the ticks have their shapes; the watermark never passes the highest it had.
SchedulerTypes ==
    /\ catchup \in {"skip", "none", "all"} /\ clock \in 0..MaxTime
    /\ lease \in [owner : Schedulers \cup {None}, valid : BOOLEAN]
    /\ watermark \in 0..high /\ high \in 0..MaxTime
    /\ outbox \subseteq Events /\ delivered \subseteq Events
    /\ row \in [Keys -> {"absent", "null", "run"}]
    /\ tick \in [Schedulers -> TickState]
    /\ runs \in [Keys -> Nat] /\ unrecorded \in [Keys -> Nat] /\ fails \in Nat

(* One run per occurrence and per event, but for runs whose record was lost: *)
(* neither two leaders at once, nor a watermark that moves back, nor the     *)
(* redelivery of an event starts a second one (fire_occurrence).             *)
LaunchedOnce == \A k \in Keys : runs[k] <= 1 + unrecorded[k]

(* Nothing is passed over: up to the highest watermark every occurrence has  *)
(* its row under catchup "all"; under "skip" it or a later one has, and      *)
(* under "none" too if it was on time.  Every delivered event has its row.   *)
(* Overlapping ticks, a watermark that moves back and ticks that fail half   *)
(* way change nothing in this (tick_schedules, relay_events_batch).          *)
Wanted(k, now) == k <= now /\ (catchup = "none" => now - k <= Grace)
Covered(k) ==
    IF catchup = "all" THEN row[k] # "absent"
    ELSE \E j \in Times : k <= j /\ row[j] # "absent"
NonePassedOver ==
    /\ \A k \in Times : Wanted(k, high) => Covered(k)
    /\ \A e \in delivered : row[e] # "absent"

\* The last occurrence of a schedule that catches up, and every event, gets its row.
TriggersFire ==
    /\ catchup # "none" => <>(\A k \in Latest(Times) : row[k] # "absent")
    /\ \A e \in Events : e \in outbox ~> e \in delivered /\ row[e] # "absent"

-----------------------------------------------------------------------------
(* What comments of the code say and the code does not keep *)

\* scheduler/store.rs:68: a crash and restart does not start a second run.
AtMostOneRun == \A k \in Keys : runs[k] <= 1

\* launcher.rs:237: a launch that failed is tried again by the next tick, so it
\* is not behind the watermark, nor delivered.
FailedLaunchRetried ==
    \A k \in Keys : row[k] = "null" => k \notin delivered /\ (k \in Times => watermark < k)
=============================================================================
