--------------------------- MODULE MCWorkflowRun ---------------------------
(* Instances of WorkflowRun: small graphs that meet the hard cases. *)
EXTENDS WorkflowRun

Ok(ports) == [kind |-> "ok", ports |-> ports]
Not(kind) == [kind |-> kind, ports |-> {}]
E(a, p, b) == [from |-> a, port |-> p, to |-> b]

\* a fans out to b, which can fail, and to c, which waits for an event; j joins.
ForkNodes == {"a", "b", "c", "j"}
ForkEdges == {E("a", "out", "b"), E("a", "out", "c"), E("b", "out", "j"), E("c", "out", "j")}
ForkResults ==
    [n \in ForkNodes |->
        CASE n = "b" -> {Ok({"out"}), Not("rate_limited"), Not("retryable")}
          [] n = "c" -> {Not("event")}
          [] OTHER -> {Ok({"out"})}]

\* a branches to b, whose failure goes to h, or to c, which waits for a timer;
\* j continues with the first branch to arrive, k waits for an event after h.
BranchNodes == {"a", "b", "c", "h", "j", "k"}
BranchEdges == {E("a", "true", "b"), E("a", "false", "c"), E("b", "out", "j"),
                E("b", "error", "h"), E("c", "out", "j"), E("h", "out", "k")}
BranchResults ==
    [n \in BranchNodes |->
        CASE n = "a" -> {Ok({"true"}), Ok({"false"})}
          [] n = "b" -> {Ok({"out"}), Not("retryable"), Not("permanent")}
          [] n = "c" -> {Not("timer")}
          [] n = "k" -> {Not("event")}
          [] OTHER -> {Ok({"out"})}]

\* Two independent roots, one of which can fail.
PairNodes == {"a", "b"}
PairResults == [n \in PairNodes |-> {Ok({"out"}), Not("retryable")}]
=============================================================================
