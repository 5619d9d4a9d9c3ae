------------------------------ MODULE LiveCards ------------------------------
(***************************************************************************)
(* How a recomputed figure reaches the cards of an open page: the refresh  *)
(* callback of the DAG (houses/server.py), the broadcaster with its        *)
(* debounce, its sweep of the other cards and its stale markers            *)
(* (houses/web/broadcaster.py), the listing endpoint                       *)
(* (houses/web/api_router.py) and the page's store and web socket          *)
(* (stores/properties.ts, composables/useWebSocket.ts).                    *)
(*                                                                         *)
(* The figures of a property are versions: own is its monthly cost, base   *)
(* the cost of the current home that settings/current_home holds.  Its     *)
(* delta_vs_home is a function of the two.                                 *)
(***************************************************************************)
EXTENDS Integers, Sequences, FiniteSets, SequencesExt

CONSTANTS
    Rids,         \* the registered properties
    Clients,      \* open pages
    Home,         \* the property with status "current"
    Costed,       \* properties whose monthly cost can be computed
    Failing,      \* properties whose summary may raise
    NoCard,       \* the page has no card for a property
    MaxVersion, MaxTroubles, MaxLoads   \* bounds

Card == [own : Nat, base : Nat]
Cards == [Rids -> Card \cup {NoCard}]

ASSUME CardAssumption ==
    /\ IsFiniteSet(Rids) /\ NoCard \notin Card
    /\ Home \in Costed /\ Costed \subseteq Rids /\ Failing \subseteq Rids
    /\ MaxVersion \in Nat /\ MaxTroubles \in Nat /\ MaxLoads \in Nat

VARIABLES
    own, base,         \* the figures in the memory of the DAG
    registry,          \* registered properties
    pending,           \* pending_notify_rids
    debouncing,        \* notify_debounce_task sleeps
    queue,             \* rids to push
    push,              \* what the broadcaster is doing
    stale,             \* stale_push_rids
    registered,        \* clients in websocket_clients
    up,                \* clients whose socket is open at their end
    inbox,             \* inbox[c]: messages on the socket or in the burst buffer
    shown,             \* shown[c][r]: the card in the page's store
    listing,           \* listing[c]: the page's GET /properties/all
    removing,          \* removals the page waits for, <<c, r>>
    missed,            \* history: the socket was down since the shown listing
    overwritten,       \* history: cards a listing replaced by older ones
    troubles, loads   \* counters for the bounds

figures == <<own, base, registry>>
notify == <<pending, debouncing, queue>>
sockets == <<registered, up, inbox>>
page == <<shown, listing, removing, missed, overwritten>>
bounds == <<troubles, loads>>
vars == <<figures, notify, push, stale, sockets, page, bounds>>

\* PropertyNodes.summary() with monthly_delta.attach
Summary(r) == [own |-> own[r], base |-> base]

Pushing == [todo : Seq(Rids), first : BOOLEAN, card : Card \cup {NoCard}]
Message == [rid : Rids, card : Card]
Listing == [state : {"none", "requested", "served"}, cards : Cards, synced : BOOLEAN]

TypeOK ==
    /\ own \in [Rids -> Nat] /\ base \in Nat
    /\ registry \subseteq Rids
    /\ pending \subseteq Rids
    /\ debouncing \in BOOLEAN /\ queue \in Seq(Rids)
    /\ push \in Pushing
    /\ stale \subseteq Rids /\ registered \subseteq Clients /\ up \subseteq registered
    /\ inbox \in [Clients -> Seq(Message)]
    /\ shown \in [Clients -> Cards]
    /\ listing \in [Clients -> Listing]
    /\ removing \subseteq Clients \X Rids
    /\ missed \in [Clients -> BOOLEAN] /\ overwritten \in [Clients -> SUBSET Rids]

-----------------------------------------------------------------------------
(***************************************************************************)
(* The DAG: nodes of a property notify, settings/current_home has no role  *)
(* and does not.  Nodes that follow each other in one property are one     *)
(* step, since their notifications coalesce, and the way of a notification *)
(* to the server's loop is part of it.                                     *)
(***************************************************************************)

\* Mutant of Notified: while the debounce task runs, nothing is recorded.
NotifiedUnlessDebouncing(rids) ==
    /\ pending' = IF debouncing THEN pending ELSE pending \cup rids
    /\ debouncing' = (debouncing \/ rids # {})

\* notify_node_refreshed_async, for a node of each property of rids
Notified(rids) ==
    /\ pending' = pending \cup rids
    /\ debouncing' = (debouncing \/ rids # {})

\* GroupMonthlyCostNode recomputes to another cost, and its delta with it.
Reprice(r) ==
    /\ r \in registry \cap Costed
    /\ own[r] < MaxVersion
    /\ own' = [own EXCEPT ![r] = @ + 1]
    /\ Notified({r})
    /\ UNCHANGED <<base, registry, queue, push, stale, sockets, page, bounds>>

\* CurrentHomeNode.compute, then DeltaVsHomeNode.compute of the properties that
\* have a cost to compare.
RefreshHome ==
    /\ Home \in registry /\ base # own[Home]
    /\ base' = own[Home]
    /\ Notified((registry \cap Costed) \ {Home})
    /\ UNCHANGED <<own, registry, queue, push, stale, sockets, page, bounds>>

-----------------------------------------------------------------------------
(***************************************************************************)
(* The broadcaster, on the server's loop                                   *)
(***************************************************************************)

\* _flush_notifies, after its sleep: the queue is unbounded, so the puts do
\* not suspend and the task is done when the next notification runs.
FlushNotifies ==
    /\ debouncing
    /\ \E rids \in SetToSeqs(pending) : queue' = queue \o rids
    /\ pending' = {}
    /\ debouncing' = FALSE
    /\ UNCHANGED <<figures, push, stale, sockets, page, bounds>>

NoPush == [todo |-> <<>>, first |-> FALSE, card |-> NoCard]

\* _broadcaster gets a rid; with no client connected it is discarded.
TakeRid ==
    /\ push = NoPush /\ queue # <<>>
    /\ queue' = Tail(queue)
    /\ push' = IF registered = {} THEN NoPush
               ELSE [todo |-> <<Head(queue)>>, first |-> TRUE, card |-> NoCard]
    /\ UNCHANGED <<figures, pending, debouncing, stale, sockets, page, bounds>>

\* The head of push.todo is done; the cards of more are pushed as well.
Advance(more) == push' = [todo |-> Tail(push.todo) \o more, first |-> FALSE, card |-> NoCard]

\* _push_summary up to its send: build the summary of a registered property.
BuildSummary ==
    /\ push.todo # <<>> /\ push.card = NoCard
    /\ LET r == Head(push.todo)
       IN  \/ /\ r \in registry
              /\ push' = [push EXCEPT !.card = Summary(r)]
              /\ UNCHANGED stale
           \/ /\ r \notin registry               \* vanished: nothing to push
              /\ stale' = stale \ {r}
              /\ Advance(<<>>)
    /\ UNCHANGED <<figures, notify, sockets, page, bounds>>

\* Mutant of PushFails: the failure is not recorded.
PushFailsSilently ==
    /\ push.todo # <<>> /\ push.card = NoCard
    /\ Head(push.todo) \in registry \cap Failing
    /\ Advance(<<>>)
    /\ UNCHANGED <<figures, notify, stale, sockets, page, bounds>>

\* Mutant of PushFails: the exception ends the broadcaster's task.
PushFailsLoudly ==
    /\ push.todo # <<>> /\ push.card = NoCard
    /\ Head(push.todo) \in registry \cap Failing
    /\ stale' = stale \cup {Head(push.todo)}
    /\ push' = [NoPush EXCEPT !.first = TRUE]
    /\ UNCHANGED <<figures, notify, sockets, page, bounds>>

\* _mark_broadcast_failed: the summary raised.
PushFails ==
    /\ push.todo # <<>> /\ push.card = NoCard
    /\ Head(push.todo) \in registry \cap Failing
    /\ stale' = stale \cup {Head(push.todo)}
    /\ Advance(<<>>)
    /\ UNCHANGED <<figures, notify, sockets, page, bounds>>

\* _broadcast_wire and the rest of _push_or_mark; after the push of the
\* current home every other card is pushed too.
SendSummary ==
    LET r == Head(push.todo)
        message == [rid |-> r, card |-> push.card]
        sweeps == push.first /\ r = Home /\ r \in registry
    IN
    /\ push.card # NoCard
    /\ inbox' = [c \in Clients |-> IF c \in up THEN Append(inbox[c], message) ELSE inbox[c]]
    /\ \E dead \in SUBSET (registered \ up) : registered' = registered \ dead
    /\ stale' = stale \ {r}
    /\ \E others \in SetToSeqs(IF sweeps THEN registry \ {r} ELSE {}) : Advance(others)
    /\ UNCHANGED <<figures, notify, up, page, bounds>>

-----------------------------------------------------------------------------
(***************************************************************************)
(* Pages                                                                   *)
(***************************************************************************)

\* onopen, and register_client
Connect(c) ==
    /\ c \notin up
    /\ up' = up \cup {c} /\ registered' = registered \cup {c}
    /\ UNCHANGED <<figures, notify, push, stale, inbox, page, bounds>>

\* The socket breaks; the server does not know yet.  What was on the way is
\* lost, and a listing that was served before says nothing of what follows.
Drop(c) ==
    /\ troubles < MaxTroubles /\ troubles' = troubles + 1
    /\ c \in up
    /\ up' = up \ {c}
    /\ inbox' = [inbox EXCEPT ![c] = <<>>]
    /\ missed' = [missed EXCEPT ![c] = TRUE]
    /\ listing' = [listing EXCEPT ![c].synced = FALSE]
    /\ UNCHANGED <<figures, notify, push, stale, registered, shown, removing,
                   overwritten, loads>>

\* receive_text fails
NoticeDrop(c) ==
    /\ c \in registered \ up
    /\ registered' = registered \ {c}
    /\ UNCHANGED <<figures, notify, push, stale, up, inbox, page, bounds>>

NoListing == [state |-> "none", cards |-> [r \in Rids |-> NoCard], synced |-> FALSE]

\* loadAll, and the reloads of addByUrl, retryPropertyScrape and saveDetails
Load(c) ==
    /\ loads < MaxLoads /\ loads' = loads + 1
    /\ listing[c] = NoListing
    /\ listing' = [listing EXCEPT ![c].state = "requested"]
    /\ UNCHANGED <<figures, notify, push, stale, sockets, shown, removing, missed,
                   overwritten, troubles>>

\* get_all_properties
ServeListing(c) ==
    /\ listing[c].state = "requested"
    /\ listing' = [listing EXCEPT ![c] =
           [state |-> "served", synced |-> c \in up,
            cards |-> [r \in Rids |-> IF r \in registry THEN Summary(r) ELSE NoCard]]]
    /\ UNCHANGED <<figures, notify, push, stale, sockets, shown, removing, missed,
                   overwritten, bounds>>

Newer(a, b) == a # NoCard /\ b # NoCard /\ (a.own > b.own \/ a.base > b.base)

\* summaries.value = data
ReceiveListing(c) ==
    /\ listing[c].state = "served"
    /\ shown' = [shown EXCEPT ![c] = listing[c].cards]
    /\ missed' = [missed EXCEPT ![c] = ~listing[c].synced]
    /\ overwritten' = [overwritten EXCEPT ![c] =
           {r \in Rids : Newer(shown[c][r], listing[c].cards[r])}]
    /\ listing' = [listing EXCEPT ![c] = NoListing]
    /\ UNCHANGED <<figures, notify, push, stale, sockets, removing, bounds>>

\* onmessage and flushBurst: updates are applied in the order they arrived.
ApplyUpdate(c) ==
    /\ inbox[c] # <<>>
    /\ LET m == Head(inbox[c])
       IN  /\ shown' = [shown EXCEPT ![c][m.rid] = m.card]
           /\ overwritten' = [overwritten EXCEPT ![c] = @ \ {m.rid}]
    /\ inbox' = [inbox EXCEPT ![c] = Tail(@)]
    /\ UNCHANGED <<figures, notify, push, stale, registered, up, listing, removing,
                   missed, bounds>>

\* DELETE /api/properties/{rid}; the other pages are not told.
RemoveProperty(c, r) ==
    /\ troubles < MaxTroubles /\ troubles' = troubles + 1
    /\ r \in registry
    /\ registry' = registry \ {r}
    /\ removing' = removing \cup {<<c, r>>}
    /\ UNCHANGED <<own, base, notify, push, stale, sockets, shown, listing,
                   missed, overwritten, loads>>

\* removeFromList, once the server has answered
ForgetCard(c, r) ==
    /\ <<c, r>> \in removing
    /\ removing' = removing \ {<<c, r>>}
    /\ shown' = [shown EXCEPT ![c][r] = NoCard]
    /\ UNCHANGED <<figures, notify, push, stale, sockets, listing, missed,
                   overwritten, bounds>>

-----------------------------------------------------------------------------
\* The pages are open; Drop and Load lead to every way of opening one.
Init ==
    /\ own = [r \in Rids |-> 0] /\ base = 0
    /\ registry = Rids
    /\ pending = {} /\ debouncing = FALSE /\ queue = <<>>
    /\ push = NoPush /\ stale = {}
    /\ registered = Clients /\ up = Clients /\ inbox = [c \in Clients |-> <<>>]
    /\ shown = [c \in Clients |-> [r \in Rids |-> Summary(r)]]
    /\ listing = [c \in Clients |-> NoListing]
    /\ removing = {}
    /\ missed = [c \in Clients |-> FALSE]
    /\ overwritten = [c \in Clients |-> {}]
    /\ troubles = 0 /\ loads = 0

Broadcast == TakeRid \/ BuildSummary \/ PushFails \/ SendSummary

Next ==
    \/ RefreshHome
    \/ \E r \in Rids : Reprice(r)
    \/ FlushNotifies \/ Broadcast
    \/ \E c \in Clients :
          \/ Connect(c) \/ Drop(c) \/ NoticeDrop(c)
          \/ Load(c) \/ ServeListing(c) \/ ReceiveListing(c)
          \/ ApplyUpdate(c)
          \/ \E r \in Rids : RemoveProperty(c, r) \/ ForgetCard(c, r)

Spec == Init /\ [][Next]_vars

(***************************************************************************)
(* Fairness: the server's loop and the page's loop run, the processor      *)
(* drains, a debounce sleep ends and a request is answered.  Nothing makes *)
(* a figure change, a socket break or reconnect, or a user act.            *)
(***************************************************************************)
Fairness ==
    /\ WF_vars(RefreshHome)
    /\ WF_vars(FlushNotifies) /\ WF_vars(Broadcast)
    /\ \A c \in Clients :
          WF_vars(ServeListing(c)) /\ WF_vars(ReceiveListing(c)) /\ WF_vars(ApplyUpdate(c))

FairSpec == Spec /\ Fairness
-----------------------------------------------------------------------------
(***************************************************************************)
(* Properties                                                              *)
(***************************************************************************)

\* A notification for r, or its turn in the broadcaster, is still to come.
Announced(r) ==
    \/ r \in pending \cup ToSet(queue)
    \/ r \in ToSet(IF push.card = NoCard THEN push.todo ELSE Tail(push.todo))

\* The page has kept up: a listing is shown, and its socket has been open since
\* before that listing was served.
Following(c) == c \in up /\ ~missed[c]

\* The card states the cost of r and, where there is one, its delta.
Accurate(r, card) ==
    /\ card # NoCard
    /\ card.own = own[r]
    /\ r \in Costed \ {Home} => card.base = base

\* An accurate card of r is on its way to page c.
Coming(c, r) ==
    \/ push.card # NoCard /\ Head(push.todo) = r /\ Accurate(r, push.card)
    \/ \E i \in DOMAIN inbox[c] : inbox[c][i].rid = r /\ Accurate(r, inbox[c][i].card)

\* A page that kept up shows the current figures of a property, or the update is
\* under way, or the listing endpoint marks the card as not updated; the one
\* gap is a card that a slow listing replaced after the update.  The debounce
\* set, the sweep, failed pushes, broken sockets and discards lose nothing else,
\* and "no card keeps a stale delta" (docs/ux-fixes-plan.md:232).
UpdateIsComing ==
    \A c \in Clients : Following(c) => \A r \in registry \ overwritten[c] :
        Accurate(r, shown[c][r]) \/ Announced(r) \/ Coming(c, r) \/ r \in stale

\* Nothing is under way between the DAG and the pages.
AtRest ==
    /\ pending = {} /\ queue = <<>> /\ push = NoPush
    /\ \A c \in Clients : inbox[c] = <<>> /\ listing[c] = NoListing

\* An outdated card is corrected or marked while its page stays connected:
\* neither a failing summary nor the sweep stops the broadcaster.
UpdatesArrive ==
    \A c \in Clients, r \in Rids :
        (Following(c) /\ r \in registry /\ ~Accurate(r, shown[c][r]))
            ~> \/ ~Following(c) \/ r \notin registry
               \/ r \in overwritten[c] \cup stale
               \/ Accurate(r, shown[c][r])

\* "A read that races the drain returns the previous snapshot (rule 5); the
\* broadcaster corrects it": no page that kept up rests on an outdated card.
ReadIsCorrected ==
    AtRest => \A c \in Clients : Following(c) =>
        \A r \in registry \ stale : Accurate(r, shown[c][r])
=============================================================================
