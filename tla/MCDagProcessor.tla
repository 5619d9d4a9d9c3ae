--------------------------- MODULE MCDagProcessor ---------------------------
(* Graphs and computes for the configurations of DagProcessor. *)
EXTENDS DagProcessor

\* Two inputs and one node that reads both.
PairDeps == [n \in {"u", "w", "a"} |-> IF n = "a" THEN {"u", "w"} ELSE {}]
PairOrder == <<"a">>
PairCompute == [d \in {"a"} |->
    [b \in [{"u", "w"} -> Values] |-> IF b["u"] >= b["w"] THEN b["u"] ELSE b["w"]]]
PairUnset == [n \in {"u", "w"} |-> IF n = "u" THEN Pending ELSE 0]

\* One input; a rounds it, b reads a and the input.
TriDeps == [n \in {"u", "a", "b"} |->
    CASE n = "a" -> {"u"} [] n = "b" -> {"a", "u"} [] OTHER -> {}]
TriOrder == <<"a", "b">>
TriCompute == [d \in {"a", "b"} |->
    IF d = "a" THEN [b \in [{"u"} -> Values] |-> IF b["u"] = 0 THEN 0 ELSE 1]
               ELSE [b \in [{"a", "u"} -> Values] |-> (b["a"] + b["u"]) % 3]]
TriInitial == [n \in {"u"} |-> 0]
TriUnset == [n \in {"u"} |-> Pending]

\* One input, a chain of two.
ChainDeps == [n \in {"u", "a", "b"} |->
    CASE n = "a" -> {"u"} [] n = "b" -> {"a"} [] OTHER -> {}]
ChainOrder == <<"a", "b">>
ChainCompute == [d \in {"a", "b"} |->
    IF d = "a" THEN [b \in [{"u"} -> Values] |-> b["u"]]
               ELSE [b \in [{"a"} -> Values] |-> b["a"]]]
ChainInitial == [n \in {"u"} |-> 0]

\* A flush that drains the queue beside the loop strands no pending node, and no node comes to
\* read as fresh that is not, unless it depends on one that both drains computed at a time: such
\* a node may be queued though it is fresh, and a dependent that is put off behind it is stamped
\* as if it had been computed (scheduler.py, process_pending; derived_node.py, refresh).
FlushIsHarmless == NoFalseFreshness /\ PendingIsOwned
=============================================================================
