------------------------------ MODULE Evaluation ------------------------------
(***************************************************************************)
(* What a graph of nodes comes to: the conditional nodes, the cascade of   *)
(* refreshes after an edit, the what-if evaluation that must agree with it *)
(* (dag/evaluate.py), the sweep at startup that recomputes what older code *)
(* left (dag/regenerate.py), and the fingerprint that tells old code from  *)
(* new (dag/derived_node.py).  The nodes of a graph are 1..n, and a node   *)
(* depends on nodes before it.                                             *)
(***************************************************************************)
EXTENDS Integers, Sequences, FiniteSets
LOCAL INSTANCE SequencesExt

CONSTANTS
    Graphs,        \* the graphs and programs to be tried
    NoGraph,
    Settings       \* what an input may be set to; 0 stands for an empty value

VARIABLE graph

-----------------------------------------------------------------------------
(***************************************************************************)
(* Attempts: a value, one not yet known, or a failure with the node whose  *)
(* own reason is shown for it.                                             *)
(***************************************************************************)
Succeeded(v) == [is |-> "succeeded", value |-> v]
Pending == [is |-> "pending"]
Impossible(reason) == [is |-> "impossible", reason |-> reason]

Holds(a) == a.is = "succeeded" /\ a.value # 0

(***************************************************************************)
(* Nodes                                                                   *)
(***************************************************************************)
Input == [kind |-> "input", deps |-> << >>]
\* A node that adds its dependencies up; a fragile one raises when they come to nothing.
SumOf(deps, fragile) == [kind |-> "sum", deps |-> deps, fragile |-> fragile]
\* BestAddressNode: the first of its sources that has a value.
FirstValued(deps) == [kind |-> "best", deps |-> deps]
\* IfThenElseNode: 0 stands for no else-branch.
IfThenElse(cond, then, else) ==
    [kind |-> "if", deps |-> <<cond, then>> \o (IF else = 0 THEN << >> ELSE <<else>>),
     then |-> then, else |-> else]

Size(g) == Len(g.nodes)
Deps(g, i) == g.nodes[i].deps
DepSet(g, i) == {Deps(g, i)[k] : k \in DOMAIN Deps(g, i)}

\* _get_active_deps: what this evaluation depends on, of the attempts seen now.
Active(g, i, att) ==
    LET n == g.nodes[i] IN
    CASE n.kind = "best" -> SelectSeq(n.deps, LAMBDA d : Holds(att[d]))
      [] n.kind = "if" -> IF Holds(att[n.deps[1]]) THEN <<n.deps[1], n.then>>
                          ELSE IF n.else # 0 THEN <<n.deps[1], n.else>> ELSE <<n.deps[1]>>
      [] OTHER -> n.deps

\* compute, over the active dependencies: all of them have succeeded.
Compute(g, i, att) ==
    LET n == g.nodes[i]
        bound == Active(g, i, att)
        total == FoldLeft(LAMBDA sum, d : sum + att[d].value, 0, bound)
    IN  CASE n.kind = "best" -> IF bound = << >> THEN Pending ELSE att[Head(bound)]
          [] n.kind = "if" -> IF Len(bound) = 2 THEN att[bound[2]] ELSE Succeeded(0)
          [] OTHER -> IF n.fragile /\ total = 0 THEN Impossible(i) ELSE Succeeded(total)

\* Build a sequence up from its first element.
BuildUp(n, Step(_, _)) ==
    LET upTo[i \in 0..n] == IF i = 0 THEN << >> ELSE Append(upTo[i - 1], Step(i, upTo[i - 1])) IN upTo[n]

\* refresh: a failed dependency fails the node with the first failure's reason, a pending one
\* leaves it as it was.
Refresh(g, i, att, old) ==
    LET bound == Active(g, i, att)
        failed == SelectSeq(bound, LAMBDA d : att[d].is = "impossible")
    IN  IF failed # << >> THEN Impossible(att[Head(failed)].reason)
        ELSE IF \E k \in DOMAIN bound : att[bound[k]] = Pending THEN old
        ELSE Compute(g, i, att)

\* What the nodes come to when everything is computed afresh from the inputs.
IsInput(g, i) == g.nodes[i].kind = "input"
Settled(g, given) ==
    BuildUp(Size(g), LAMBDA i, att : IF IsInput(g, i) THEN given[i] ELSE Refresh(g, i, att, Pending))

-----------------------------------------------------------------------------
(***************************************************************************)
(* The cascade: some nodes are due; a node that moved signals the nodes    *)
(* that depend on it, and each of those asks whether it is stale.          *)
(***************************************************************************)
Kept(a) == [att |-> a, wrote |-> FALSE, moved |-> FALSE]
\* The tail of refresh: the same value is written again without a signal, and so is a
\* result that is still pending.
Written(a, old) == [att |-> a, wrote |-> TRUE, moved |-> a # Pending /\ ~(a.is = "succeeded" /\ a = old)]
Attempts(cells) == [i \in DOMAIN cells |-> cells[i].att]

\* _on_dep_changed is sent by every dependency; _is_stale looks at the active ones.
Signalled(g, i, cells) == \E d \in DepSet(g, i) : cells[d].moved
Stale(g, i, cells, old) ==
    LET active == Active(g, i, Attempts(cells))
    IN  old = Pending \/ \E k \in DOMAIN active : cells[active[k]].wrote

Cascade(g, old, given, due) ==
    BuildUp(Size(g), LAMBDA i, cells :
        IF IsInput(g, i) THEN IF given[i] = old[i] THEN Kept(old[i]) ELSE Written(given[i], old[i])
        ELSE IF i \notin due /\ ~(Signalled(g, i, cells) /\ Stale(g, i, cells, old[i])) THEN Kept(old[i])
        ELSE LET att == Attempts(cells)
                 active == Active(g, i, att)
                 waits == \E k \in DOMAIN active : att[active[k]] = Pending
                 fails == \E k \in DOMAIN active : att[active[k]].is = "impossible"
             IN  IF waits /\ ~fails THEN Kept(old[i]) ELSE Written(Refresh(g, i, att, old[i]), old[i]))

-----------------------------------------------------------------------------
(***************************************************************************)
(* evaluate: the overridden inputs and whatever depends on them are staged *)
(* beside the real attempts.                                               *)
(***************************************************************************)
Unstaged(a) == [att |-> a, staged |-> FALSE]
Staged(a) == [att |-> a, staged |-> TRUE]

\* _stage_node
StageNode(g, i, cells, real) ==
    LET att == Attempts(cells)
        active == Active(g, i, att)
        Dep(k) == att[active[k]]
    IN  IF ~ \E k \in DOMAIN active : cells[active[k]].staged THEN Unstaged(real)
        ELSE IF \E k \in DOMAIN active : Dep(k) = Pending THEN Staged(Pending)
        ELSE IF \E k \in DOMAIN active : Dep(k).is = "impossible" THEN Staged(Impossible(i))
        ELSE Staged(Compute(g, i, att))

Evaluate(g, real, overrides) ==
    BuildUp(Size(g), LAMBDA i, cells :
        IF i \in DOMAIN overrides THEN Staged(Succeeded(overrides[i]))
        ELSE IF IsInput(g, i) THEN Unstaged(real[i])
        ELSE StageNode(g, i, cells, real[i]))

-----------------------------------------------------------------------------
(***************************************************************************)
(* The startup sweep                                                       *)
(***************************************************************************)
NoVersion == "none"
\* code_is_stale: "none" was never persisted; "" is a row without a fingerprint, or code
\* that has none.
CodeIsStale(persisted, current) ==
    /\ persisted # NoVersion
    /\ IF current # "" THEN persisted # current ELSE persisted # ""

\* Everything reached from a set in a relation given as a function to sets.
Reach(from, next) ==
    LET within[k \in 0..Cardinality(DOMAIN next)] ==
            IF k = 0 THEN from ELSE within[k - 1] \cup UNION {next[x] : x \in within[k - 1]}
    IN  within[Cardinality(DOMAIN next)]

SweepActive(g, roots, att, persisted, current) ==
    {i \in Reach(roots, [j \in 1..Size(g) |-> Range(Active(g, j, att))]) :
        ~IsInput(g, i) /\ (CodeIsStale(persisted[i], current) \/ att[i] = Pending)}
\* schedule_code_stale_nodes: the walk follows every dependency, not the active ones.
ScheduleCodeStale(g, roots, att, persisted, current) ==
    {i \in Reach(roots, [j \in 1..Size(g) |-> DepSet(g, j)]) :
        ~IsInput(g, i) /\ (CodeIsStale(persisted[i], current) \/ att[i] = Pending)}

\* What older code left: the nodes that it broke have failed.
LeftBy(g, given, broken) ==
    BuildUp(Size(g), LAMBDA i, att :
        IF IsInput(g, i) THEN given[i]
        ELSE IF i \in broken THEN Impossible(i)
        ELSE Refresh(g, i, att, Pending))

-----------------------------------------------------------------------------
(***************************************************************************)
(* The fingerprint of a compute: a program gives, for each function, the   *)
(* functions it calls by plain name, through a module, and on self; and    *)
(* the names that compute binds itself.                                    *)
(***************************************************************************)
\* _call_targets: a name bound in compute is not the module's function of that name.
Called(g) == g.plain["compute"] \ g.bound
\* _FunctionHelperIndex.sources: the methods compute calls on self, and whatever plain calls
\* lead to from there.
Helpers(g) ==
    LET methods == g.own["compute"]
        queue == Called(g) \cup g.qualified["compute"] \cup UNION {g.plain[m] : m \in methods}
    IN  methods \cup Reach(queue, g.plain)
\* _compute_code_version
Fingerprinted(g) == {"compute", "__init__", "_get_active_deps"} \cup Helpers(g)

-----------------------------------------------------------------------------
(***************************************************************************)
(* Properties                                                              *)
(***************************************************************************)
IsGraph == graph # NoGraph /\ graph.is = "graph"
InputsOf(g) == {i \in 1..Size(g) : IsInput(g, i)}
Givens(g) == [InputsOf(g) -> {Pending} \cup {Succeeded(v) : v \in Settings}]
Agree(a, b) == a.is = b.is /\ (a.is = "succeeded" => a.value = b.value)

\* A dependency that was active and no longer is, of a node that does not otherwise look
\* at it: such a node is not recomputed (its own signal finds it fresh).
Narrowed(g, before, after, i) ==
    \E j \in 1..i : ~IsInput(g, j) /\ g.nodes[j].kind = "best" /\
        ~(Range(Active(g, j, before)) \subseteq Range(Active(g, j, after)))
AnyPending(att, i) == \E j \in 1..i : att[j] = Pending

\* A what-if comes to what saving the same values and refreshing would (evaluate.py:45-49
\* "mirrors the refresh path"), wherever it comes to an answer.
EvaluateIsRefresh ==
    IsGraph => \A given \in Givens(graph), i \in InputsOf(graph), v \in Settings :
        LET real == Settled(graph, given)
            whatIf == Attempts(Evaluate(graph, real, [j \in {i} |-> v]))
            saved == Attempts(Cascade(graph, real, [given EXCEPT ![i] = Succeeded(v)], {}))
        IN  \A n \in 1..Size(graph) : ~AnyPending(whatIf, n) => Agree(whatIf[n], saved[n])

\* One edit at a time, the cascade ends where computing everything afresh would, unless a
\* node lost a dependency or still waits for one.
CascadeSettles ==
    IsGraph => \A given \in Givens(graph), i \in InputsOf(graph), v \in Settings :
        LET real == Settled(graph, given)
            now == [given EXCEPT ![i] = Succeeded(v)]
            saved == Attempts(Cascade(graph, real, now, {}))
            afresh == Settled(graph, now)
        IN  \A n \in 1..Size(graph) :
                ~Narrowed(graph, real, afresh, n) /\ ~AnyPending(afresh, n) => Agree(saved[n], afresh[n])

\* After the startup sweep nothing that older code broke is left, however the graph hides it
\* (regenerate.py:82-94); and a failure shown is the reason of the node that failed.
SweepHeals ==
    IsGraph => \A given \in Givens(graph), broken \in SUBSET (1..Size(graph) \ InputsOf(graph)),
                  mark \in {<<"", "v1">>, <<"v0", "v1">>, <<"v0", "">>} :
        LET stored == LeftBy(graph, given, broken)
            persisted == [i \in 1..Size(graph) |-> IF i \in broken THEN mark[1] ELSE mark[2]]
            due == ScheduleCodeStale(graph, {Size(graph)}, stored, persisted, mark[2])
            healed == Attempts(Cascade(graph, stored, given, due))
            afresh == Settled(graph, given)
            seen == Reach({Size(graph)}, [j \in 1..Size(graph) |-> DepSet(graph, j)])
        IN  \A n \in seen : ~Narrowed(graph, stored, afresh, n) /\ ~AnyPending(afresh, n) =>
                /\ Agree(healed[n], afresh[n])
                /\ healed[n].is = "impossible" => graph.nodes[healed[n].reason].kind = "sum"

\* Whatever function a compute runs is in its fingerprint, unless it is run from a helper
\* through a module or on self; and no other function is, so that an edit elsewhere
\* recomputes nothing.
FingerprintCovers ==
    graph # NoGraph /\ graph.is = "program" =>
        LET calls == [f \in DOMAIN graph.plain |->
                         (IF f = "compute" THEN Called(graph) ELSE graph.plain[f])
                             \cup graph.qualified[f] \cup graph.own[f]]
            runs == Reach({"compute"}, calls)
            indirect == UNION {graph.qualified[f] \cup graph.own[f] : f \in runs \ {"compute"}}
        IN  /\ runs \ Reach(indirect, calls) \subseteq Fingerprinted(graph)
            /\ Fingerprinted(graph) \subseteq runs \cup {"__init__", "_get_active_deps"}

\* A graph comes to the same however it is asked.
EvaluationsAgree == EvaluateIsRefresh /\ CascadeSettles /\ SweepHeals /\ FingerprintCovers

\* The violated reading of CascadeSettles, without its exceptions.
EveryEditIsSeen ==
    IsGraph => \A given \in Givens(graph), i \in InputsOf(graph), v \in Settings :
        LET now == [given EXCEPT ![i] = Succeeded(v)]
        IN  \A n \in 1..Size(graph) :
                Agree(Cascade(graph, Settled(graph, given), now, {})[n].att, Settled(graph, now)[n])
=============================================================================
