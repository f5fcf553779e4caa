-------------------------- MODULE MiniappTriggers --------------------------
(***************************************************************************)
(* The functions that mini apps start on events (event_tick in             *)
(* crates/api/src/miniapp_triggers.rs), on top of the hinted claims of     *)
(* OutboxClaims: the relay and the other replica of that module are two    *)
(* processes of the api, each in its loop.  A batch is claimed, matched    *)
(* with the subscriptions, and committed as delivered; only then are the   *)
(* functions called, one after the other, from the process's memory.       *)
(***************************************************************************)
EXTENDS OutboxClaims

CONSTANTS
    Functions,
    Subscribed    \* writer -> functions subscribed to its event that it concerns

ASSUME MiniappAssumption == Subscribed \in [Writers -> SUBSET Functions]

VARIABLES
    todo,       \* dispatches of the relay: <<writer, function>>
    otherTodo,  \* those of the other replica
    calls,      \* <<writer, function>> -> how often invoke_service was called
    lost        \* history: dispatches a process had in memory when it died

memory == <<todo, otherTodo, calls, lost>>
allVars == <<vars, memory>>

Pairs == Writers \X Functions
MInit ==
    /\ Init
    /\ todo = {} /\ otherTodo = {} /\ calls = [p \in Pairs |-> 0]
    /\ lost = {}

\* The subscriptions of a batch, those of events that are not the app's left out.
Dispatches(batch) == {p \in Pairs : tx[p[1]].id \in batch /\ p[2] \in Subscribed[p[1]]}

-----------------------------------------------------------------------------
(* Outside of the loops *)

Elsewhere ==
    /\ \/ \E w \in Writers : Begin(w) \/ TakeId(w) \/ Insert(w) \/ Finish(w)
       \/ Unrelated \/ SweepTimer \/ FullTimer
    /\ UNCHANGED memory

-----------------------------------------------------------------------------
(* event_tick of the relay *)

\* The loop is at its beginning.
Idles == todo = {}

Claim ==
    /\ \/ Idles /\ Snapshot
       \/ Plan
       \/ ClaimRows
    /\ UNCHANGED memory

Commit ==
    /\ Deliver
    /\ todo' = Dispatches(relay.batch)
    /\ UNCHANGED <<otherTodo, calls, lost>>

\* A statement or the commit fails: the tick returns its error.
Fails ==
    /\ Abort
    /\ UNCHANGED memory

\* invoke_service: an error is logged, and the call is not made again.
Invoke(p) ==
    /\ p \in todo
    /\ todo' = todo \ {p} /\ calls' = [calls EXCEPT ![p] = @ + 1]
    /\ UNCHANGED <<vars, otherTodo, lost>>

\* The process dies and starts again: without its dispatches and with new ClaimHints.
Restart ==
    /\ fails < MaxFails /\ fails' = fails + 1
    /\ lost' = lost \cup todo /\ todo' = {}
    /\ relay' = Idle
    /\ tail' = 0 /\ floor' = NoFloor /\ first' = NoProbe /\ sweepDue' = FALSE /\ fullDue' = FALSE
    /\ UNCHANGED <<db, basis, passed, otherTodo, calls>>

-----------------------------------------------------------------------------
(* event_tick of the other replica *)

OtherTick ==
    \/ /\ otherTodo = {} /\ OtherClaim
       /\ UNCHANGED memory
    \/ /\ OtherEnds
       /\ otherTodo' = IF delivered' = delivered THEN {} ELSE Dispatches(other)
       /\ UNCHANGED <<todo, calls, lost>>

OtherInvoke(p) ==
    /\ p \in otherTodo
    /\ otherTodo' = otherTodo \ {p} /\ calls' = [calls EXCEPT ![p] = @ + 1]
    /\ UNCHANGED <<vars, todo, lost>>

OtherRestart ==
    /\ otherTodo # {} /\ fails < MaxFails /\ fails' = fails + 1
    /\ lost' = lost \cup otherTodo /\ otherTodo' = {}
    /\ UNCHANGED <<db, relay, hints, basis, passed, todo, calls>>

-----------------------------------------------------------------------------
Loop == Claim \/ Commit \/ \E p \in Pairs : Invoke(p)
OtherLoop == (OtherTick /\ other # {}) \/ \E p \in Pairs : OtherInvoke(p)

MNext ==
    \/ Elsewhere
    \/ Loop \/ Fails \/ Restart
    \/ OtherTick \/ (\E p \in Pairs : OtherInvoke(p)) \/ OtherRestart

MSpec == MInit /\ [][MNext]_allVars

\* The loops go on, the clock too.
MLiveSpec == MSpec /\ WF_allVars(Loop) /\ WF_allVars(OtherLoop) /\ WF_allVars(FullTimer /\ UNCHANGED memory)

-----------------------------------------------------------------------------
(* Properties *)

(* A function is called at most once for an event, whatever rolls back,      *)
(* restarts, or is claimed by two processes (the ledger, SKIP LOCKED, and    *)
(* the commit before the calls).                                             *)
AtMostOnce ==
    /\ \A p \in Pairs : calls[p] <= (IF p \in todo \cup otherTodo THEN 0 ELSE 1)
    /\ todo \cap otherTodo = {}

(* And it is called for every event it is subscribed to, unless a process    *)
(* dies between the commit and the call (spawn_miniapp_triggers).            *)
CalledOrLost ==
    \A p \in Pairs : (tx[p[1]].pc = "committed" /\ p[2] \in Subscribed[p[1]]) ~> (calls[p] > 0 \/ p \in lost)

-----------------------------------------------------------------------------
(* What the documentation says and the code does not keep *)

\* miniapp_triggers.rs:5: an event is acknowledged after the calls.
CalledThenMarked ==
    \A p \in Pairs : (tx[p[1]].id \in delivered /\ p[2] \in Subscribed[p[1]]) => calls[p] > 0
=============================================================================
