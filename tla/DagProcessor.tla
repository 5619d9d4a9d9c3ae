---------------------------- MODULE DagProcessor ----------------------------
(***************************************************************************)
(* The DAG library's recompute pipeline: input nodes pushed by request     *)
(* handlers (dag/user_input_node.py), derived nodes that recompute when    *)
(* stale (dag/derived_node.py), the rows they persist (dag/node.py,        *)
(* dag/persistence.py) and the one refresh queue the processor thread      *)
(* drains (dag/scheduler.py).                                              *)
(*                                                                         *)
(* The processor thread runs an asyncio loop, so a step here is what it    *)
(* does between two suspensions: a refresh is Begin (pop the event, bind   *)
(* the inputs) and Succeed or Fail (the compute is over: persist, notify). *)
(* Other coroutines run in between: submitted pushes, and a flush, which   *)
(* drains the same queue a second time.                                    *)
(*                                                                         *)
(* A timestamp of a row is its place in the order of all rows written; 0   *)
(* stands for the empty stamp of a node that has no row.                   *)
(***************************************************************************)
EXTENDS Integers, Sequences, FiniteSets, SequencesExt

CONSTANTS
    Inputs,       \* UserInputNodes
    Derived,      \* DerivedNodes
    Deps,         \* Deps[n]: the nodes n computes from ({} for an input)
    Order,        \* the derived nodes in the order they are constructed
    Compute,      \* Compute[d][bound]: the value d computes from bound
    Values,       \* values of succeeded attempts
    Initial,      \* Initial[u]: the stored value of u, or Pending
    Pending, Impossible,   \* the two other outcomes of an attempt
    Flaky,        \* derived nodes whose compute calls a service
    FailureKinds, \* how a service fails: "transient", "throttled", "broken"
    Registered,   \* how many nodes the queue has registered, these included
    MaxRetries,   \* Node._max_retries
    Callers,      \* who pushes: "handler", "processor"
    Drains,       \* who drains the queue: "loop", "flush"
    Overlap,      \* whether an edit may come before the last one has settled
    Crashes,      \* whether a restart may lose submitted work
    MaxPushes, MaxFlushes, MaxRestarts,  \* bounds
    MaxStamp      \* bound: no Retry-After answer once so many rows exist

Nodes == Inputs \cup Derived

ASSUME GraphAssumption ==
    /\ Inputs \cap Derived = {}
    /\ Deps \in [Nodes -> SUBSET Nodes]
    /\ \A u \in Inputs : Deps[u] = {}
    /\ \A n \in Nodes : n \notin Deps[n]
    /\ Order \in Seq(Derived) /\ Derived \subseteq ToSet(Order)
    /\ Flaky \subseteq Derived /\ "none" \notin Derived

ASSUME ValueAssumption ==
    /\ {Pending, Impossible} \cap Values = {}
    /\ Pending # Impossible
    /\ Initial \in [Inputs -> Values \cup {Pending}]
    /\ \A d \in Derived : Compute[d] \in [[Deps[d] -> Values] -> Values]

ASSUME BoundsAssumption ==
    /\ MaxRetries \in Nat \ {0}
    /\ Registered \in Nat \ {0}
    /\ MaxPushes \in Nat /\ MaxFlushes \in Nat /\ MaxRestarts \in Nat
    /\ MaxStamp \in Nat
    /\ Drains \subseteq {"loop", "flush"}

VARIABLES
    node,         \* node[n]: the node object in memory
    row,          \* row[n]: what the latest row of n would load as
    clock,        \* the latest timestamp given to a row
    ready,        \* past-due events of the queue, in scheduled_at order
    later,        \* future events (retries), in scheduled_at order
    requeues,     \* requeues[d]: _requeue_counts
    drain,        \* drain[p]: the refresh drain p is suspended in
    flushing,     \* process_pending is running under flush_processor
    horizon,      \* how many events of ready were due when it started
    submissions,  \* calls handed to the processor loop, oldest first
    pushes, flushes, restarts,  \* counters for the bounds
    strayed,      \* history: the inputs whose memory may have left their row for good
    shared        \* history: the derived nodes that two drains computed at a time

queueVars == <<ready, later, requeues, horizon>>
bounds == <<pushes, flushes, restarts>>
history == <<strayed, shared>>
vars == <<node, row, clock, queueVars, drain, flushing, submissions, bounds, history>>

Outcomes == Values \cup {Pending, Impossible}

\* value: _value / _attempt; stamp: _db_created_at, _persisted_at and
\* _computed_at; basis: _loaded_dep_timestamps; retry: _retry_at is set;
\* retries: _retry_count.
Record(n) == [value : Outcomes, stamp : Nat, basis : [Deps[n] -> Nat],
              retry : BOOLEAN, retries : 0..MaxRetries]

\* live: the event is the one _scheduled holds for its node.
Event == [node : Derived, live : BOOLEAN]
Live(d) == [node |-> d, live |-> TRUE]

Idle == [node |-> "none"]
Suspended(d) == [node : {d}, bound : [Deps[d] -> Values], stamps : [Deps[d] -> Nat]]

Submission == [kind : {"apply", "push"}, node : Inputs,
               value : Values \cup {Impossible}]

StateOK ==
    /\ DOMAIN node = Nodes /\ DOMAIN row = Nodes
    /\ \A n \in Nodes : node[n] \in Record(n) /\ row[n] \in Record(n)
    /\ clock \in Nat
    /\ ready \in Seq(Event) /\ later \in Seq(Event)
    /\ requeues \in [Derived -> 0..Registered]
    /\ DOMAIN drain = Drains
    /\ \A p \in Drains :
          drain[p] = Idle \/ \E d \in Derived : drain[p] \in Suspended(d)
    /\ flushing \in BOOLEAN
    /\ horizon \in 0..Len(ready)
    /\ submissions \in Seq(Submission)

HistoryOK == strayed \subseteq Inputs /\ shared \subseteq Derived

TypeOK == StateOK /\ HistoryOK

-----------------------------------------------------------------------------
(***************************************************************************)
(* The queue and the signals, as functions of the nodes ns and of the two  *)
(* halves rdy and ltr of the queue.                                        *)
(***************************************************************************)

\* d in self._scheduled
Scheduled(d, rdy, ltr) == Live(d) \in ToSet(rdy) \cup ToSet(ltr)

\* self._scheduled.pop(d): the events of d stay in the heap
Forget(q, d) ==
    [i \in DOMAIN q |-> [q[i] EXCEPT !.live = @ /\ q[i].node # d]]

\* Mutant of Stale: the stamps of the last calculation are not compared.
StaleByClock(d, ns) ==
    \/ ns[d].retry
    \/ ns[d].value = Pending
    \/ \E m \in Deps[d] : ns[m].stamp > ns[d].stamp

\* _is_stale
Stale(d, ns) ==
    \/ ns[d].retry
    \/ ns[d].value = Pending
    \/ \E m \in Deps[d] :
          \/ ns[m].stamp > ns[d].stamp
          \/ ns[d].basis[m] # 0 /\ ns[m].stamp \notin {0, ns[d].basis[m]}

\* changed.emit(): every dependent runs _on_dep_changed, in connection order.
Notified(n, ns) ==
    [m \in Nodes |-> IF n \in Deps[m] THEN [ns[m] EXCEPT !.retries = 0] ELSE ns[m]]

\* The event of each node of S, in construction order.
Events(S) ==
    LET among[i \in 0..Len(Order)] ==
            IF i = 0 THEN <<>>
            ELSE IF Order[i] \in S THEN Append(among[i - 1], Live(Order[i]))
            ELSE among[i - 1]
    IN  among[Len(Order)]

Woken(n, ns, rdy, ltr) ==
    Events({d \in Derived : n \in Deps[d] /\ Stale(d, ns) /\ ~Scheduled(d, rdy, ltr)})

\* Mutant of LiveDeps: a deferred event is dropped.
NoLiveDeps(d, q) == {}

LiveDeps(d, q) == {i \in DOMAIN q : q[i].live /\ q[i].node \in Deps[d]}
LastOf(S) == CHOOSE i \in S : \A j \in S : j <= i

MayRequeue(d) == requeues[d] < Registered

\* Mutant of Settle: every node that is still pending goes back to the queue.
SettleRequeues(p, d, ns, rdy, ltr, h) ==
    /\ node' = ns
    /\ ready' = IF ns[d].value = Pending THEN Append(Forget(rdy, d), Live(d)) ELSE rdy
    /\ later' = ltr /\ horizon' = h
    /\ UNCHANGED requeues

\* _settle_event, for the drain p that has refreshed d: a node still pending
\* goes back right behind the last of its queued deps.
Settle(p, d, ns, rdy, ltr, h) ==
    LET inReady == LiveDeps(d, rdy)
        inLater == LiveDeps(d, ltr)
        behind  == inReady \cup inLater # {}
    IN
    /\ node' = ns
    /\ \/ /\ ns[d].value # Pending
          /\ requeues' = [requeues EXCEPT ![d] = 0]
          /\ ready' = rdy /\ later' = ltr /\ horizon' = h
       \/ /\ ns[d].value = Pending /\ ~behind
          /\ ready' = rdy /\ later' = ltr /\ horizon' = h
          /\ UNCHANGED requeues
       \/ /\ ns[d].value = Pending /\ behind
          /\ MayRequeue(d)
          /\ requeues' = [requeues EXCEPT ![d] = @ + 1]
          /\ \/ /\ inLater # {}
                /\ ready' = Forget(rdy, d)
                /\ later' = InsertAt(Forget(ltr, d), LastOf(inLater) + 1, Live(d))
                /\ horizon' = h
             \/ /\ inLater = {}
                /\ ready' = InsertAt(Forget(rdy, d), LastOf(inReady) + 1, Live(d))
                /\ later' = Forget(ltr, d)
                /\ horizon' = IF LastOf(inReady) <= h THEN h + 1 ELSE h
       \/ /\ ns[d].value = Pending /\ behind        \* raise RuntimeError
          /\ ~MayRequeue(d)
          /\ requeues' = [requeues EXCEPT ![d] = 0]
          /\ ready' = rdy /\ later' = ltr
          /\ horizon' = IF p = "flush" THEN 0 ELSE h

-----------------------------------------------------------------------------
(***************************************************************************)
(* Rows                                                                    *)
(***************************************************************************)

\* What the row just written for d will load as: a retry count is kept only
\* beside a retry time.
Loadable(rec) == [rec EXCEPT !.retries = IF rec.retry THEN @ ELSE 0]

\* Mutant of Persist: a pending attempt is not written.
PersistResults(d, rec) ==
    /\ clock' = clock + 1
    /\ row' = IF rec.value = Pending THEN row ELSE [row EXCEPT ![d] = Loadable(rec)]

\* _persist: rec of d becomes the latest row, stamped now.
Persist(d, rec) ==
    /\ clock' = clock + 1
    /\ row' = [row EXCEPT ![d] = Loadable(rec)]

\* Mutant of Fresh: the row does not record what it was calculated from.
FreshWithoutBasis(d, v, stamps, retry, retries) ==
    [value |-> v, stamp |-> clock + 1, basis |-> [m \in Deps[d] |-> 0],
     retry |-> retry, retries |-> retries]

\* Mutant of Fresh: a retry time, once set, is kept.
FreshKeepsRetry(d, v, stamps, retry, retries) ==
    [value |-> v, stamp |-> clock + 1, basis |-> stamps,
     retry |-> retry \/ node[d].retry, retries |-> retries]

\* The record of d after a calculation that returned v.
Fresh(d, v, stamps, retry, retries) ==
    [value |-> v, stamp |-> clock + 1, basis |-> stamps,
     retry |-> retry, retries |-> retries]

\* _complete_refresh with an attempt that is not pending: persist and emit.
Complete(p, d, v, stamps, retries, rdy, ltr, h) ==
    LET rec == Fresh(d, v, stamps, FALSE, retries)
        ns  == [node EXCEPT ![d] = rec]
    IN  /\ Persist(d, rec)
        /\ Settle(p, d, Notified(d, ns), rdy \o Woken(d, ns, rdy, ltr), ltr, h)

-----------------------------------------------------------------------------
(***************************************************************************)
(* Edits.  push replaces the value in the caller's thread and submits the  *)
(* rest; a call that already runs on the processor pushes inline.          *)
(***************************************************************************)

Quiet ==
    /\ ready = <<>> /\ later = <<>> /\ submissions = <<>> /\ ~flushing
    /\ \A p \in Drains : drain[p] = Idle

MayEdit ==
    /\ pushes < MaxPushes
    /\ pushes' = pushes + 1
    /\ Overlap \/ Quiet

Submitted(n) == \E i \in DOMAIN submissions : submissions[i].node = n
PushWaits(u) == \E i \in DOMAIN submissions : submissions[i].node = u /\ submissions[i].kind = "push"

\* UserInputNode.push, or .fail, in a request handler.  A push that waits on the processor
\* will overwrite the value in memory but not the row, which is written later.
Push(u, v) ==
    /\ "handler" \in Callers
    /\ MayEdit
    /\ node' = [node EXCEPT ![u].value = v]
    /\ submissions' = Append(submissions, [kind |-> "apply", node |-> u, value |-> v])
    /\ strayed' = IF PushWaits(u) THEN strayed \cup {u} ELSE strayed
    /\ UNCHANGED <<row, clock, queueVars, drain, flushing, flushes, restarts, shared>>

\* run_on_processor(_seed): a call that will push u once it runs
SubmitPush(u, v) ==
    /\ "processor" \in Callers
    /\ MayEdit
    /\ submissions' = Append(submissions, [kind |-> "push", node |-> u, value |-> v])
    /\ UNCHANGED <<node, row, clock, queueVars, drain, flushing, flushes, restarts, history>>

\* The processor runs the oldest submitted call: _apply_result, preceded by
\* the assignment of push when that call is the push itself.
RunSubmission ==
    /\ submissions # <<>>
    /\ LET s   == Head(submissions)
           u   == s.node
           mem == IF s.kind = "push" THEN s.value ELSE node[u].value
           ns  == [node EXCEPT ![u].value = mem, ![u].stamp = clock + 1]
       IN  /\ Persist(u, [ns[u] EXCEPT !.value = s.value])
           /\ node' = Notified(u, ns)
           /\ ready' = ready \o Woken(u, ns, ready, later)
    /\ submissions' = Tail(submissions)
    /\ UNCHANGED <<later, requeues, horizon, drain, flushing, bounds, history>>

-----------------------------------------------------------------------------
(***************************************************************************)
(* The drains: _background_loop, and process_pending under a flush.        *)
(***************************************************************************)

\* Drain p pops the head event, of node d, and runs refresh as far as it gets
\* without suspending.
Begin(p, d) ==
    LET rdy == Forget(Tail(ready), d)
        ltr == Forget(later, d)
        h   == IF horizon > 0 THEN horizon - 1 ELSE 0
        stamps == [m \in Deps[d] |-> node[m].stamp]
        DepIs(v) == \E m \in Deps[d] : node[m].value = v
        depQueued == \E m \in Deps[d] \cap Derived : Scheduled(m, rdy, ltr)
    IN
    /\ drain[p] = Idle
    /\ ready # <<>> /\ Head(ready).node = d
    /\ p = "flush" => horizon > 0
    /\ \/ /\ ~Stale(d, node)                           \* nothing to do
          /\ Settle(p, d, node, rdy, ltr, h)
          /\ UNCHANGED <<row, clock, drain>>
       \/ /\ Stale(d, node) /\ DepIs(Impossible)       \* dep failed
          /\ Complete(p, d, Impossible, stamps, 0, rdy, ltr, h)
          /\ UNCHANGED drain
       \/ /\ Stale(d, node) /\ ~DepIs(Impossible) /\ depQueued   \* defer
          /\ LET rec == [node[d] EXCEPT !.stamp = clock + 1, !.basis = stamps]
             IN  /\ Persist(d, rec)
                 /\ Settle(p, d, [node EXCEPT ![d] = rec], rdy, ltr, h)
          /\ UNCHANGED drain
       \/ /\ Stale(d, node) /\ ~DepIs(Impossible) /\ ~depQueued
          /\ DepIs(Pending)                            \* wait for the input
          /\ Settle(p, d, node, rdy, ltr, h)
          /\ UNCHANGED <<row, clock, drain>>
       \/ /\ Stale(d, node) /\ ~DepIs(Impossible) /\ ~depQueued /\ ~DepIs(Pending)
          /\ drain' = [drain EXCEPT ![p] =
                 [node |-> d, bound |-> [m \in Deps[d] |-> node[m].value],
                  stamps |-> stamps]]
          /\ ready' = rdy /\ later' = ltr /\ horizon' = h
          /\ UNCHANGED <<node, row, clock, requeues>>
    /\ shared' = IF \E q \in Drains : drain[q].node = d THEN shared \cup {d} ELSE shared
    /\ UNCHANGED <<flushing, submissions, bounds, strayed>>

\* The compute that drain p awaits is over; the rest of refresh runs.
Succeed(p) ==
    LET d == drain[p].node
        v == Compute[d][drain[p].bound]
        rec == [node[d] EXCEPT !.stamp = clock + 1, !.basis = drain[p].stamps]
    IN
    /\ drain[p] # Idle
    /\ drain' = [drain EXCEPT ![p] = Idle]
    /\ \/ /\ node[d].value = v /\ node[d].basis = drain[p].stamps
          /\ Settle(p, d, node, ready, later, horizon)
          /\ UNCHANGED <<row, clock>>
       \/ /\ node[d].value = v /\ node[d].basis # drain[p].stamps
          /\ Persist(d, rec)
          /\ Settle(p, d, [node EXCEPT ![d] = rec], ready, later, horizon)
       \/ /\ node[d].value # v
          /\ Complete(p, d, v, drain[p].stamps, 0, ready, later, horizon)
    /\ UNCHANGED <<flushing, submissions, bounds, history>>

\* _retry_delay_from: a Retry-After answer does not count as a retry.
RetriesAfter(kind, n) ==
    IF kind = "throttled" \/ n = MaxRetries THEN n ELSE n + 1

\* The compute raised, or returned an impossible attempt.
Fail(p, kind) ==
    LET d == drain[p].node
        n == RetriesAfter(kind, node[d].retries)
        rec == Fresh(d, Pending, drain[p].stamps, TRUE, n)
    IN
    /\ drain[p] # Idle
    /\ d \in Flaky
    /\ kind = "throttled" => clock < MaxStamp
    /\ drain' = [drain EXCEPT ![p] = Idle]
    /\ \/ /\ kind # "broken" /\ n < MaxRetries         \* schedule_retry
          /\ Persist(d, rec)
          /\ \E i \in 1..(Len(later) + 1) :
                Settle(p, d, [node EXCEPT ![d] = rec], ready,
                       IF Scheduled(d, ready, later) THEN later
                       ELSE InsertAt(later, i, Live(d)), horizon)
       \/ /\ kind # "broken" /\ n = MaxRetries         \* retry exhausted
          /\ Complete(p, d, Impossible, drain[p].stamps, n, ready, later, horizon)
       \/ /\ kind = "broken"
          /\ Complete(p, d, Impossible, drain[p].stamps, node[d].retries,
                      ready, later, horizon)
    /\ UNCHANGED <<flushing, submissions, bounds, history>>

\* The first retry falls due.
Tick ==
    /\ later # <<>>
    /\ ready' = Append(ready, Head(later))
    /\ later' = Tail(later)
    /\ UNCHANGED <<node, row, clock, requeues, horizon, drain, flushing,
                   submissions, bounds, history>>

\* run_on_processor(flush_processor): process_pending reads the time once, so
\* it drains the events that are due now and no others.
StartFlush ==
    /\ "flush" \in Drains /\ ~flushing
    /\ flushes < MaxFlushes
    /\ Overlap \/ submissions = <<>>
    /\ flushing' = TRUE
    /\ horizon' = Len(ready)
    /\ flushes' = flushes + 1
    /\ UNCHANGED <<node, row, clock, ready, later, requeues, drain,
                   submissions, pushes, restarts, history>>

EndFlush ==
    /\ flushing /\ horizon = 0 /\ drain["flush"] = Idle
    /\ flushing' = FALSE
    /\ UNCHANGED <<node, row, clock, queueVars, drain, submissions, bounds, history>>

-----------------------------------------------------------------------------
(***************************************************************************)
(* A restart: every node is built again from its latest row and registers  *)
(* with the queue, in construction order.  A stopping server drains the    *)
(* submissions first, a crashing one does not; a refresh that is suspended *)
(* is cancelled either way.  What was computed from a write that is lost   *)
(* has its row, so it comes back.                                          *)
(***************************************************************************)
\* Mutant of Register: a node that has a row is taken to be up to date.
RegisterPending(ns, waiting) ==
    /\ ready' = Events({d \in Derived \ waiting : ns[d].value = Pending})
    /\ later' = Events(waiting)

\* AsyncRefreshQueue.register, of every derived node in turn
Register(ns, waiting) ==
    /\ ready' = Events({d \in Derived \ waiting : Stale(d, ns)})
    /\ later' = Events(waiting)

Restart ==
    /\ restarts < MaxRestarts
    /\ restarts' = restarts + 1
    /\ Crashes \/ submissions = <<>>
    /\ node' = row
    /\ \E waiting \in SUBSET {d \in Derived : row[d].retry} : Register(row, waiting)
    /\ requeues' = [d \in Derived |-> 0]
    /\ drain' = [p \in Drains |-> Idle]
    /\ flushing' = FALSE
    /\ horizon' = 0
    /\ submissions' = <<>>
    /\ strayed' = strayed \cup {u \in Inputs : Submitted(u)}
    /\ UNCHANGED <<row, clock, pushes, flushes, shared>>

Init ==
    /\ node = [n \in Nodes |->
          [value   |-> IF n \in Inputs THEN Initial[n] ELSE Pending,
           stamp   |-> IF n \in Inputs /\ Initial[n] # Pending THEN 1 ELSE 0,
           basis   |-> [m \in Deps[n] |-> 0],
           retry   |-> FALSE,
           retries |-> 0]]
    /\ row = node
    /\ clock = 1
    /\ ready = [i \in DOMAIN Order |-> Live(Order[i])]
    /\ later = <<>>
    /\ requeues = [d \in Derived |-> 0]
    /\ drain = [p \in Drains |-> Idle]
    /\ flushing = FALSE
    /\ horizon = 0
    /\ submissions = <<>>
    /\ pushes = 0 /\ flushes = 0 /\ restarts = 0
    /\ strayed = {} /\ shared = {}

Edit == \E u \in Inputs, v \in Values \cup {Impossible} : Push(u, v) \/ SubmitPush(u, v)
Refresh(p) ==
    \/ \E d \in Derived : Begin(p, d)
    \/ Succeed(p)
    \/ \E kind \in FailureKinds : Fail(p, kind)

Next ==
    \/ Edit
    \/ RunSubmission
    \/ \E p \in Drains : Refresh(p)
    \/ Tick
    \/ StartFlush \/ EndFlush
    \/ Restart

Spec == Init /\ [][Next]_vars

(***************************************************************************)
(* Fairness: time passes and the processor thread runs.  Nothing makes a   *)
(* user edit, a service fail or the server restart.                        *)
(***************************************************************************)
Fairness ==
    /\ WF_vars(RunSubmission)
    /\ WF_vars(Tick)
    /\ \A p \in Drains : WF_vars(Refresh(p))

FairSpec == Spec /\ Fairness
-----------------------------------------------------------------------------
(***************************************************************************)
(* Properties.                                                             *)
(***************************************************************************)

\* What d should hold, given what its dependencies hold.
Expected(d) ==
    IF \E m \in Deps[d] : node[m].value = Impossible THEN Impossible
    ELSE Compute[d][[m \in Deps[d] |-> node[m].value]]

\* n holds a result, and no write of it or wake-up for it is under way.
Settled(n) ==
    /\ node[n].value # Pending
    /\ ~Submitted(n)
    /\ n \in Derived => ~Stale(n, node)

\* n was computed from values that had rows: an empty stamp is not compared.
Based(n) == \A m \in Deps[n] : node[n].basis[m] # 0

\* d holds what its inputs imply; a service that gave up is no better known.
Agrees(d) == node[d].value = Expected(d) \/ (d \in Flaky /\ node[d].value = Impossible)

\* d and what it is computed from have settled, and nothing befell them that the stamps
\* do not show: a value bound before its first row was written, a write that was lost or
\* crossed another, a dependency that two drains computed at a time.
Firm(d) ==
    /\ Settled(d) /\ Based(d)
    /\ \A m \in Deps[d] : Settled(m) /\ Based(m) /\ m \notin strayed \cup shared

\* A node that reads as fresh is fresh: once its dependencies have settled, a
\* node that _is_stale does not call stale holds what they imply.  It rests on
\* the stamps being read in the same pass as the attempts, whatever edits and
\* other refreshes run before the compute is over.  The code does not prevent
\* what Firm leaves out.
NoFalseFreshness == \A d \in Derived : Firm(d) => Agrees(d)

\* A retry that waits belongs to a pending attempt with budget left: a result
\* that arrives by another way takes the retry with it, in either order.
RetryHasBudget ==
    \A d \in Derived :
        node[d].retry => node[d].value = Pending /\ node[d].retries < MaxRetries

\* A pending node whose dependencies all have a result is queued, being
\* computed, or about to be woken by a submitted write: nothing strands it.
PendingIsOwned ==
    \A d \in Derived :
        node[d].value = Pending /\ (\A m \in Deps[d] : node[m].value # Pending)
            => \/ \E i \in DOMAIN ready : ready[i].node = d
               \/ \E i \in DOMAIN later : later[i].node = d
               \/ \E p \in Drains : drain[p].node = d
               \/ \E i \in DOMAIN submissions : submissions[i].node \in Deps[d]

\* The processor runs dry with every node showing what its inputs imply.
QuietMeansFresh ==
    Quiet => \A d \in Derived :
                 (\A m \in Deps[d] : node[m].value # Pending) => Agrees(d)

\* A recorded row is never replaced by one calculated from older inputs, unless
\* two drains computed the node at a time: the one that started first may end last.
RowsAdvance ==
    [][\A d \in Derived \ shared : \A m \in Deps[d] : row'[d].basis[m] >= row[d].basis[m]]_vars

\* The row a node would be restored from is the value it serves, for an input
\* once its writes have landed and for a derived node always; an input that a
\* handler pushed while a push of it waited on the processor may differ.
RowIsMemory ==
    \A n \in Nodes \ strayed : ~Submitted(n) => row[n].value = node[n].value

\* Edits that stop leave a processor that stops: neither retries nor re-queued
\* deferrals keep the drain spinning.
DrainSettles == <>[]Quiet

\* "Defer - reschedule after the dep completes": no node is left stale.
DeferredComesBack == Quiet => \A d \in Derived : ~Stale(d, node)
=============================================================================
