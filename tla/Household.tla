------------------------------ MODULE Household -----------------------------
(* A property's commute pipelines under edits of the household.  The persons source announces  *)
(* each write to its listeners one after the other; one of them is the property itself, which  *)
(* takes down the pipelines of destinations that are gone, builds those of new ones and gives  *)
(* the breakdown its inputs anew -- while nodes are queued, or hold a result not yet stored.   *)
(* A pipeline is four nodes here: the destination as the household states it, the route to it,  *)
(* the miles its person's car does to the gallon, and the entry, which is made of the last two. *)
(* A destination's key is its person's id and its label.                                        *)
EXTENDS Naturals, Sequences, FiniteSets, SequencesExt

CONSTANTS Documents,     \* the households written: sequences of persons
          SchoolLabels,  \* the labels of a child that name a school
          Unroutable,    \* addresses to which no commute can be computed
          DefaultMpg,    \* what a car does whose person is not known
          MaxWrites, MaxOpenings

\* A person may be written without an id, and drive a car of their own; a destination is a label
\* and an address.
Person == [id : STRING, name : STRING, car : BOOLEAN, mpg : Nat, child : BOOLEAN,
           places : Seq([label : STRING, address : STRING])]
ASSUME DocumentsAssumption == Documents \subseteq Seq(Person)

VARIABLES writes,   \* the households written so far, with their source and what was paged
          opened,   \* how many of them there were when the server started
          graph,    \* the nodes, their rows, the listeners and the queue
          running,  \* the node whose result is computed and not yet stored
          hurried   \* history: a write came while nodes were queued
householdVars == <<writes, opened, graph, running, hurried>>

Household == Last(writes).persons

-----------------------------------------------------------------------------
\* The elements of s that are in T, in their order.
Among(s, T) == FlattenSeq([i \in DOMAIN s |-> IF s[i] \in T THEN <<s[i]>> ELSE <<>>])

PersonId(p) == IF p.id = "" THEN p.name ELSE p.id
KeysOf(p) == [i \in DOMAIN p.places |-> <<PersonId(p), p.places[i].label>>]
Keys(people) == FlattenSeq([i \in DOMAIN people |-> KeysOf(people[i])])
OwnerIn(people, key) == CHOOSE p \in Range(people) : PersonId(p) = key[1]
AddressIn(people, key) ==
    (CHOOSE q \in Range(OwnerIn(people, key).places) : q.label = key[2]).address
\* A child travels to its schools only.
Routed(people, key) == OwnerIn(people, key).child => key[2] \in SchoolLabels

Node(kind, key, born, car) == [kind |-> kind, key |-> key, born |-> born, car |-> car]
Persons == Node("persons", <<>>, 0, FALSE)
Property == Node("property", <<>>, 0, FALSE)
Breakdown == Node("breakdown", <<>>, 0, FALSE)
Idle == Node("idle", <<>>, 0, FALSE)
Id(n) == <<n.kind, n.key>>
Ids(ns) == {Id(n) : n \in Range(ns)}
\* The node of that kind in the same pipeline.
Sibling(n, kind) == [n EXCEPT !.kind = kind]

Pending == <<"pending">>
Impossible == {<<"impossible">>, <<"gone">>}
Never == [value |-> Pending, at |-> 0, basis |-> <<>>]

\* What a node reads.
Home(g, n) == {Sibling(n, "place"), Sibling(n, "school")} \cap DOMAIN g.memory
Inputs(g, n) ==
    CASE n.kind \in {"place", "mpg"} -> {Persons}
      [] n.kind = "school" -> {}
      [] n.kind = "route" -> Home(g, n)
      [] n.kind = "entry" -> {Sibling(n, "route"), Sibling(n, "mpg")}
      [] n.kind = "breakdown" -> Range(g.selectors) \cup {Persons}

IsStale(g, n) ==
    LET mine == g.memory[n]
    IN  \/ mine.value = Pending
        \/ \E d \in Inputs(g, n) :
             LET at == g.memory[d].at
             IN  at # 0 /\ (at > mine.at \/ (Id(d) \in DOMAIN mine.basis /\ mine.basis[Id(d)] # at))

\* Each of the nodes that is stale is queued, unless the scheduler, which knows a queued node by
\* its id alone, has it.
Schedule(g, ns) ==
    LET due == Among(ns, {n \in Range(ns) : Id(n) \notin g.scheduled})
    IN  [g EXCEPT !.queue = @ \o due, !.scheduled = @ \cup Ids(due)]
Notify(g, ns) == Schedule(g, Among(ns, {n \in Range(ns) : IsStale(g, n)}))

-----------------------------------------------------------------------------
(* Building and taking down. *)
\* Nodes that are built have the rows there are, listen, and are queued when these are old.
Construct(g, ns) ==
    LET restored(n) == IF Id(n) \in DOMAIN g.rows THEN g.rows[Id(n)] ELSE Never
        wired == [g EXCEPT !.memory = [m \in DOMAIN @ \cup Range(ns) |-> IF m \in Range(ns) THEN restored(m) ELSE @[m]],
                           !.slots = @ \o Among(ns, {n \in Range(ns) : Persons \in Inputs(g, n)}),
                           !.registered = @ \cup Ids(ns)]
    IN  Notify(wired, ns)

\* What the builder reads of the person it reads once: whether there is a car.
Pipeline(people, key, born) ==
    LET owner == OwnerIn(people, key)
        of(kind) == Node(kind, key, born, owner.car)
    IN  <<of(IF owner.child THEN "school" ELSE "place"), of("route"), of("mpg"), of("entry")>>

BuildPipelines(g, people, keys, born) ==
    LET routed == Among(Keys(people), {key \in keys : Routed(people, key)})
        pipelines == [i \in DOMAIN routed |-> Pipeline(people, routed[i], born)]
    IN  [Construct(g, FlattenSeq(pipelines)) EXCEPT !.selectors = @ \o [i \in DOMAIN routed |-> pipelines[i][4]]]

\* Mutant of TearDown: its nodes go on listening.
TearDownUnheard(g, gone) ==
    [g EXCEPT !.scheduled = {i \in @ : i[2] \notin gone},
              !.registered = {i \in @ : i[2] \notin gone},
              !.selectors = Among(@, {n \in Range(@) : n.key \notin gone})]
TearDown(g, gone) ==
    [g EXCEPT !.slots = Among(@, {n \in Range(@) : n.key \notin gone}),
              !.scheduled = {i \in @ : i[2] \notin gone},
              !.registered = {i \in @ : i[2] \notin gone},
              !.selectors = Among(@, {n \in Range(@) : n.key \notin gone})]

\* The breakdown listens to the persons source through a fresh slot, behind all others.
SetDeps(g) == [g EXCEPT !.slots = Append(Among(@, Range(@) \ {Breakdown}), Breakdown)]

OnPersonsChanged(g, people, born) ==
    LET wanted == Range(Keys(people))
        current == {n.key : n \in Range(g.selectors)}
    IN  SetDeps(BuildPipelines(TearDown(g, current \ wanted), people, wanted \ current, born))

\* Mutant of Announce: the listeners as they are when each one's turn comes.
AnnounceLive(g, people, born) ==
    LET at == CHOOSE i \in DOMAIN g.slots : g.slots[i] = Property
        edited == OnPersonsChanged(Notify(g, SubSeq(g.slots, 1, at - 1)), people, born)
    IN  Notify(edited, SubSeq(edited.slots, at + 1, Len(edited.slots)))
\* Signal.emit: the listeners there were when it began, in their order; one is the property.
Announce(g, people, born) ==
    LET at == CHOOSE i \in DOMAIN g.slots : g.slots[i] = Property
        edited == OnPersonsChanged(Notify(g, SubSeq(g.slots, 1, at - 1)), people, born)
    IN  Notify(edited, SubSeq(g.slots, at + 1, Len(g.slots)))

\* The construction of a property over the rows there are.
Open(g, people, born) ==
    LET empty == [g EXCEPT !.memory = [n \in {Persons} |-> g.memory[Persons]], !.selectors = <<>>, !.slots = <<>>,
                           !.queue = <<>>, !.scheduled = {}, !.registered = {}]
        built == Construct(BuildPipelines(empty, people, Range(Keys(people)), born), <<Breakdown>>)
    IN  [built EXCEPT !.slots = Append(@, Property)]

-----------------------------------------------------------------------------
(* A household write, and the loss it may page. *)
\* The alarm goes by names, and skips what has none; of two persons of one name the last one counts.
Named(people, name) == CHOOSE i \in DOMAIN people :
    people[i].name = name /\ \A j \in DOMAIN people : people[j].name = name => j <= i
NamedLabels(people, name) == {q.label : q \in Range(people[Named(people, name)].places)} \ {""}
Names(people) == {p.name : p \in Range(people)} \ {""}
Shrinks(old, new) ==
    \/ Names(old) \ Names(new) # {}
    \/ \E name \in Names(old) \cap Names(new) : NamedLabels(old, name) \ NamedLabels(new, name) # {}
\* Mutant of Pages: only lost persons are paged.
PagesPersons(old, new, source) == source # "user" /\ Names(old) \ Names(new) # {}
Pages(old, new, source) == source # "user" /\ Shrinks(old, new)

PushPersons(people, source) ==
    /\ Len(writes) <= MaxWrites
    /\ hurried' = (hurried \/ graph.queue # <<>>)
    /\ people # Household
    /\ writes' = Append(writes, [persons |-> people, source |-> source,
                                 paged |-> Pages(Household, people, source)])
    /\ graph' = Announce([graph EXCEPT !.clock = @ + 1, !.memory[Persons].at = graph.clock + 1],
                         people, Len(writes) + 1)
    /\ UNCHANGED <<opened, running>>

RestartServer ==
    /\ opened < MaxOpenings
    /\ opened' = Len(writes)
    /\ graph' = Open(graph, Household, Len(writes))
    /\ running' = [node |-> Idle, value |-> Pending, basis |-> <<>>]
    /\ UNCHANGED <<writes, hurried>>

-----------------------------------------------------------------------------
(* The processor: one refresh at a time, in the order of the queue. *)
Entries(g) == {n \in Range(g.selectors) : n.key \in Range(Keys(Household))}
Value(g, n) ==
    CASE n.kind = "place" ->
           IF n.key \in Range(Keys(Household)) THEN <<"at", AddressIn(Household, n.key)>> ELSE <<"gone">>
      [] n.kind = "school" -> <<"at", "school">>
      [] n.kind = "mpg" ->
           <<"mpg", IF \E p \in Range(Household) : PersonId(p) = n.key[1]
                    THEN OwnerIn(Household, n.key).mpg ELSE DefaultMpg>>
      [] n.kind = "route" ->
           LET to == g.memory[CHOOSE d \in Home(g, n) : TRUE].value[2]
           IN  IF to \in Unroutable THEN <<"impossible">> ELSE <<"to", to>>
      [] n.kind = "entry" ->
           LET read(kind) == g.memory[Sibling(n, kind)].value[2]
           IN  <<"is", read("route"), read("mpg"), n.car>>
      [] n.kind = "breakdown" ->
           <<"sum", [key \in {e.key : e \in Entries(g)} |->
                       g.memory[CHOOSE e \in Entries(g) : e.key = key].value]>>

Store(g, n, row) ==
    LET at == g.clock + 1
        stamped == [row EXCEPT !.at = at]
    IN  [g EXCEPT !.clock = at, !.memory[n] = stamped,
                  !.rows = [i \in DOMAIN @ \cup {Id(n)} |-> IF i = Id(n) THEN stamped ELSE @[i]]]
Connected(g, n) == \E e \in Range(g.selectors) : e.key = n.key /\ e.born = n.born
Listeners(g, n) ==
    IF ~Connected(g, n) THEN <<>>
    ELSE CASE n.kind \in {"place", "school"} -> <<Sibling(n, "route")>>
           [] n.kind \in {"route", "mpg"} -> <<Sibling(n, "entry")>>
           [] n.kind = "entry" -> <<Breakdown>>
Complete(g, n, value, basis) ==
    Notify(Store(g, n, [value |-> value, at |-> 0, basis |-> basis]), Listeners(g, n))

\* A refresh put off leaves a pending row; the node comes back only if it has no value at all.
PutOff(g, n, basis) ==
    LET kept == g.memory[n].value
        stored == Store(g, n, [value |-> Pending, at |-> 0, basis |-> basis])
        marked == [stored EXCEPT !.memory[n].value = kept]
    IN  IF kept = Pending THEN Schedule(marked, <<n>>) ELSE marked

Refresh ==
    /\ running.node = Idle /\ graph.queue # <<>>
    /\ LET n == Head(graph.queue)
           g == [graph EXCEPT !.queue = Tail(@), !.scheduled = @ \ {Id(n)}]
           read == Inputs(g, n)
           basis == [i \in {Id(d) : d \in read} |-> g.memory[CHOOSE d \in read : Id(d) = i].at]
           values == {g.memory[d].value : d \in read \ {Persons}}
       IN  \/ ~IsStale(g, n) /\ graph' = g /\ UNCHANGED running
           \/ /\ IsStale(g, n)
              /\ \/ /\ values \cap Impossible # {}
                    /\ graph' = Complete(g, n, <<"impossible">>, basis) /\ UNCHANGED running
                 \/ /\ values \cap Impossible = {} /\ \E d \in read : Id(d) \in g.scheduled
                    /\ graph' = PutOff(g, n, basis) /\ UNCHANGED running
                 \/ /\ values \cap Impossible = {} /\ \A d \in read : Id(d) \notin g.scheduled
                    /\ graph' = g
                    /\ running' = IF Pending \in values THEN running
                                  ELSE [node |-> n, value |-> Value(g, n), basis |-> basis]
    /\ UNCHANGED <<writes, opened, hurried>>

\* The same value from other inputs is recorded anew, and nobody is told.
StoreResult ==
    /\ running.node # Idle
    /\ LET n == running.node
           mine == graph.memory[n]
           same == running.value = mine.value /\ mine.value \notin Impossible
       IN  graph' = CASE ~same -> Complete(graph, n, running.value, running.basis)
                      [] same /\ running.basis = mine.basis -> graph
                      [] OTHER -> Store(graph, n, [mine EXCEPT !.basis = running.basis])
    /\ running' = [node |-> Idle, value |-> Pending, basis |-> <<>>]
    /\ UNCHANGED <<writes, opened, hurried>>

HouseholdInit ==
    /\ \E people \in Documents : writes = <<[persons |-> people, source |-> "config", paged |-> FALSE]>>
    /\ opened = 1
    /\ graph = Open([memory |-> [n \in {Persons} |-> [Never EXCEPT !.at = 1]], rows |-> <<>>, selectors |-> <<>>,
                     slots |-> <<>>, queue |-> <<>>, scheduled |-> {}, registered |-> {}, clock |-> 1],
                    Household, 1)
    /\ running = [node |-> Idle, value |-> Pending, basis |-> <<>>]
    /\ hurried = FALSE
HouseholdNext ==
    \/ \E people \in Documents, source \in {"user", "what-if"} : PushPersons(people, source)
    \/ Refresh
    \/ StoreResult
    \/ RestartServer
HouseholdSpec == HouseholdInit /\ [][HouseholdNext]_householdVars
-----------------------------------------------------------------------------
(* What an edit of the household must come to. *)
Live == Range(graph.selectors)
Parts == {n \in DOMAIN graph.memory : Connected(graph, n)}
Since(key) == CHOOSE i \in 1..Len(writes) :
    /\ \A j \in i..Len(writes) : key \in Range(Keys(writes[j].persons))
    /\ i = 1 \/ key \notin Range(Keys(writes[i - 1].persons))
Later(a, b) == IF a > b THEN a ELSE b

\* After any writes there is one pipeline for each destination that is travelled to, none is
\* built twice or outlives its destination, a rename or any other edit leaves it alone, and
\* each node that reads the household listens to it once (_on_persons_changed, build_commute_pipeline).
PipelinesFollow ==
    LET keys == [i \in DOMAIN graph.selectors |-> graph.selectors[i].key]
    IN  /\ Range(keys) = {key \in Range(Keys(Household)) : Routed(Household, key)}
        /\ IsInjective(keys)
        /\ \A e \in Live : e.born = Later(opened, Since(e.key))
        /\ Range(graph.slots) = {n \in Parts : n.kind \in {"place", "mpg"}} \cup {Property, Breakdown}
        /\ IsInjective(graph.slots)
        /\ graph.registered = {Id(n) : n \in Parts \cup {Breakdown}}

\* Once the queue is empty the breakdown is the sum over the destinations of today, at their
\* addresses and with the cars of today, and says so when one of them cannot be reached
\* (CommuteBreakdownNode.compute, DerivedNode.refresh) -- unless a write came while nodes were
\* queued: a route that is put off then keeps its result, and nobody may tell it of another one.
BreakdownPutOff == Id(Breakdown) \in DOMAIN graph.rows /\ graph.rows[Id(Breakdown)].value = Pending
AtRest == graph.queue = <<>> /\ running.node = Idle
Goal(key) == IF OwnerIn(Household, key).child THEN "school" ELSE AddressIn(Household, key)
Economy(key) == OwnerIn(Household, key).mpg
BreakdownFollows ==
    AtRest /\ ~BreakdownPutOff /\ ~hurried =>
      LET shown == graph.memory[Breakdown].value
          keys == {e.key : e \in Live}
      IN  IF \E key \in keys : Goal(key) \in Unroutable THEN shown \in Impossible
          ELSE /\ shown[1] = "sum" /\ DOMAIN shown[2] = keys
               /\ \A key \in keys : shown[2][key][2] = Goal(key) /\ shown[2][key][3] = Economy(key)

\* A destination, or a person, that a write other than the user's own takes away is paged.
LossIsPaged ==
    \A i \in 2..Len(writes) :
      writes[i].source # "user" /\ ~(Range(Keys(writes[i - 1].persons)) \subseteq Range(Keys(writes[i].persons)))
        => writes[i].paged

HouseholdIsFollowed == PipelinesFollow /\ BreakdownFollows /\ LossIsPaged

\* What a commute costs is worked out with the car its person has now: "Value-only changes
\* (trips/car/MPG) need no structural work at all" (property_nodes.py, _on_persons_changed).
CarIsFollowed ==
    AtRest /\ graph.memory[Breakdown].value[1] = "sum" =>
      \A e \in Live : graph.memory[Breakdown].value[2][e.key][4] = OwnerIn(Household, e.key).car
=============================================================================
