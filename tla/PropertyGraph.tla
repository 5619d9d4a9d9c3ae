---------------------------- MODULE PropertyGraph ----------------------------
(***************************************************************************)
(* The graph of one property (houses/nodes/property_nodes.py and           *)
(* commute_pipeline_builder.py): what each node depends on, what an edit   *)
(* of an endpoint (houses/web/api_router.py) makes it recompute and ask of *)
(* the providers, and what the graph comes to when it is opened with some  *)
(* of its inputs missing and some of its lookups failing.  The queue is    *)
(* taken to have drained: how it does is DagProcessor's matter.            *)
(***************************************************************************)
EXTENDS Integers, Sequences, FiniteSets
LOCAL INSTANCE SequencesExt

CONSTANTS
    GraphCases,    \* the edits and openings to be tried
    NoGraphCase,
    Pipelines,     \* the destinations: [key, person, stage, car, modes]
    FirstChild     \* the child whose school filter is read

VARIABLE graphCase

\* A node is known by its owner and its name, as in "{rid}/{key}/walk".
OfHouse(name) == <<"house", name>>
OfHouseAll(names) == {OfHouse(n) : n \in names}
Setting(name) == <<"settings", name>>
PersonsSource == Setting("persons")

\* Nodes are built in this order, after those they depend on.  A node that is given the records of
\* persons or of a destination reads some facets of them.
Reader(node, deps, facets) == [node |-> node, deps |-> deps, reads |-> facets]
Wire(node, deps) == Reader(node, deps, {})

-----------------------------------------------------------------------------
(***************************************************************************)
(* Wiring                                                                  *)
(***************************************************************************)
ScrapedInputs == OfHouseAll({"rightmove_url", "rightmove_address", "rightmove_bedrooms", "rightmove_price", "rightmove_location"})
TriageInputs == OfHouseAll({"favourite", "dismissed", "is_viewed", "user_notes", "triage_status"})
ApportionmentInputs == OfHouseAll({"council_tax_payers", "annexe_payers", "annexe_ignored"})
HouseInputs ==
    ScrapedInputs \cup TriageInputs \cup ApportionmentInputs
      \cup OfHouseAll({"precise_location", "corrected_address", "user_entered_address", "status", "status_reason",
                    "group_notes", "ashby_comments", "works_estimates", "rental_income", "design_needed", "planning_needed"})
FinancialSettings == {Setting(n) : n \in {"mortgage_rate", "mortgage_term", "sinking_fund_rate", "petrol_cost_per_litre"}}

AddressWiring ==
    << Wire(OfHouse("best_address"), OfHouseAll({"user_entered_address", "corrected_address", "rightmove_address"})),
       Wire(OfHouse("postcode"), OfHouseAll({"best_address"})),
       Wire(OfHouse("geocode"), OfHouseAll({"best_address"})),
       Wire(OfHouse("best_location"), OfHouseAll({"best_address", "precise_location", "rightmove_location", "geocode"})) >>

EnrichmentWiring ==
    << Wire(OfHouse("epc"), OfHouseAll({"best_address", "postcode"})),
       Wire(OfHouse("council_tax"), OfHouseAll({"best_address", "postcode"})),
       Wire(OfHouse("walkability"), OfHouseAll({"best_location", "best_address"})),
       Wire(OfHouse("nearest_town"), OfHouseAll({"best_location"})),
       Wire(OfHouse("town_name"), OfHouseAll({"best_address"})),
       Wire(OfHouse("town_desc"), OfHouseAll({"nearest_town", "town_name", "postcode"})) >>

SchoolWiring ==
    << Reader(OfHouse("school_acceptable"), {PersonsSource}, {<<FirstChild, "schools">>}),
       Wire(OfHouse("primary_school"), OfHouseAll({"best_location", "school_acceptable"})),
       Wire(OfHouse("secondary_school"), OfHouseAll({"best_location", "school_acceptable"})) >>

\* A destination of a child is a school, by its label; with another label it is not followed.
IsPupils(p) == p.stage # "none"
IsBuilt(p) == p.stage # "neither"
TripsOf(p) == <<p.key, "trips">>
WhereOf(p) == <<p.key, "where">>
PlaceOf(p) == <<p.key, IF IsPupils(p) THEN "poi" ELSE "place">>
\* Mutant of RouteTarget: the planners depend on the whole destination.
RouteTargetPlace(p) == PlaceOf(p)
\* What the route planners are given: the address alone, so that other trips do not re-plan.
RouteTarget(p) == IF IsPupils(p) THEN PlaceOf(p) ELSE <<p.key, "address">>

DestinationWiring(p) ==
    IF IsPupils(p) THEN << Wire(PlaceOf(p), {OfHouse(p.stage)}) >>
    ELSE << Reader(PlaceOf(p), {PersonsSource}, {TripsOf(p), WhereOf(p)}),
            Reader(<<p.key, "address">>, {PlaceOf(p)}, {WhereOf(p)}) >>

PlannerWiring(p) ==
    LET Planner(name) == Wire(<<p.key, name>>, {OfHouse("best_location"), RouteTarget(p)})
    IN  << Planner("walk"), Reader(<<p.key, "max_walk">>, {PersonsSource}, {<<p.person, "walk">>}),
           Planner("drive"), Planner("tfl_no_bus"), Planner("tfl_with_bus"),
           Reader(<<p.key, "computed_transit">>,
                  {OfHouse("best_location"), PlaceOf(p), <<p.key, "tfl_no_bus">>, <<p.key, "tfl_with_bus">>},
                  {TripsOf(p), WhereOf(p)}) >>

AugmentWiring(p) ==
    << Wire(<<p.key, "park_and_ride">>, {<<p.key, "computed_transit">>, <<p.key, "max_walk">>}
              \cup (IF p.car THEN OfHouseAll({"best_location", "postcode"}) ELSE {})),
       Wire(<<p.key, "bus_route">>, {OfHouse("best_location"), RouteTarget(p)}),
       Wire(<<p.key, "bods_fare">>, {<<p.key, "bus_route">>}),
       Wire(<<p.key, "bus_augment">>, {<<p.key, n>> : n \in {"park_and_ride", "max_walk", "bus_route", "bods_fare"}}) >>

\* A mode that the person does not accept is no dependency of the choice.
Accepts(p, mode) == p.modes = {} \/ mode \in p.modes
ChoiceWiring(p) ==
    << Reader(<<p.key, "commute">>,
          {OfHouse("best_location"), PlaceOf(p), <<p.key, "max_walk">>}
            \cup {<<p.key, m[2]>> : m \in {n \in {<<"transit", "bus_augment">>, <<"walk", "walk">>, <<"car", "drive">>} :
                                            Accepts(p, n[1])}},
          {TripsOf(p), WhereOf(p)}) >>

FareWiring(p) ==
    IF IsPupils(p) THEN << Wire(<<p.key, "rail_fare_noop">>, {<<p.key, "rail_fare_dummy">>}),
                        Wire(<<p.key, "merge">>, {<<p.key, "commute">>, <<p.key, "rail_fare_noop">>}) >>
    ELSE << Wire(<<p.key, "rail_fare">>, {OfHouse("best_location"), <<p.key, "computed_transit">>, <<p.key, "commute">>}),
            Wire(<<p.key, "rail_fare_if">>, {<<p.key, n>> : n \in {"computed_transit", "commute", "rail_fare"}}),
            Wire(<<p.key, "merge">>, {<<p.key, "commute">>, <<p.key, "rail_fare_if">>}) >>

FuelWiring(p) ==
    << Reader(<<p.key, "petrol_mpg">>, {PersonsSource}, {<<p.person, "mpg">>}),
       Wire(<<p.key, "final_fuel">>, {<<p.key, "merge">>, <<p.key, "petrol_mpg">>, Setting("petrol_cost_per_litre")}) >>

PipelineWiring(p) ==
    DestinationWiring(p) \o PlannerWiring(p) \o AugmentWiring(p) \o ChoiceWiring(p) \o FareWiring(p) \o FuelWiring(p)

Built == SelectSeq(Pipelines, IsBuilt)
BuiltSet == {Built[i] : i \in DOMAIN Built}
Entries == {<<p.key, "final_fuel">> : p \in BuiltSet}
AllPersons == {Pipelines[i].person : i \in DOMAIN Pipelines}
AdultPersons == {p.person : p \in {b \in BuiltSet : ~IsPupils(b)}}
MoneyOfAll == AllPersons \X {"money"}

BreakdownWiring ==
    << Reader(OfHouse("commute_breakdown"), Entries \cup {PersonsSource}, {TripsOf(p) : p \in BuiltSet}) >>

PurchaseWiring ==
    << Wire(OfHouse("stamp_duty"), OfHouseAll({"rightmove_price", "status"})),
       Reader(OfHouse("total_works"), {PersonsSource, OfHouse("works_estimates")}, AdultPersons \X {"works_required"}),
       Reader(OfHouse("total_equity"), {PersonsSource, OfHouse("status")}, MoneyOfAll),
       Reader(OfHouse("life_insurance_total"), {PersonsSource}, MoneyOfAll),
       Wire(OfHouse("mortgage_required"), OfHouseAll({"rightmove_price", "stamp_duty", "total_works", "total_equity"})),
       Wire(OfHouse("monthly_mortgage"), {OfHouse("mortgage_required"), Setting("mortgage_rate"), Setting("mortgage_term")}),
       Wire(OfHouse("yearly_sinking_fund"), {OfHouse("rightmove_price"), Setting("sinking_fund_rate")}),
       Wire(OfHouse("monthly_sinking_fund"), {OfHouse("yearly_sinking_fund")}) >>

HeadlineWiring ==
    << Reader(OfHouse("group_monthly_cost"),
          OfHouseAll({"monthly_mortgage", "yearly_sinking_fund", "life_insurance_total", "rental_income", "status",
                   "commute_breakdown", "council_tax"}) \cup ApportionmentInputs \cup {PersonsSource}, MoneyOfAll) >>

\* Every property registers its status, cost and address with the one node of the current home.
HomeWiring ==
    << Wire(Setting("current_home"), OfHouseAll({"status", "group_monthly_cost", "best_address"})),
       Wire(OfHouse("delta_vs_home"), {OfHouse("group_monthly_cost"), Setting("current_home")}) >>

WiringParts ==
    <<AddressWiring \o EnrichmentWiring \o SchoolWiring>> \o [i \in DOMAIN Built |-> PipelineWiring(Built[i])]
        \o <<BreakdownWiring \o PurchaseWiring \o HeadlineWiring \o HomeWiring>>
Wiring == FlattenSeq(WiringParts)
Derived == {Wiring[i].node : i \in DOMAIN Wiring}
AllNodes == Derived \cup UNION {Wiring[i].deps : i \in DOMAIN Wiring} \cup HouseInputs

-----------------------------------------------------------------------------
(***************************************************************************)
(* Edits: the inputs that an endpoint pushes, and the facets of the        *)
(* persons that differ in the list it pushes, if it pushes one.            *)
(***************************************************************************)
Pushes(inputs) == [inputs |-> inputs, facets |-> {}]
SomeOf(inputs) == {Pushes(s) : s \in SUBSET inputs}
PatchAddress == {Pushes(OfHouseAll({"corrected_address"}))}
PatchLocation == {Pushes(OfHouseAll({"precise_location"}))}
PatchCouncilTax == SomeOf(ApportionmentInputs)
PatchTriage == SomeOf(TriageInputs)
PatchRentalIncome == {Pushes(OfHouseAll({"rental_income"}))}
PatchWorksEstimate == {Pushes(OfHouseAll({"works_estimates"}))}
PatchFinancial == SomeOf(FinancialSettings)

FacetsOf(q) ==
    ({q} \X {"walk", "mpg", "money", "works_required", "schools"})
      \cup UNION {{TripsOf(p), WhereOf(p)} : p \in {b \in BuiltSet : b.person = q}}
PatchPersonGraph == {[inputs |-> {PersonsSource}, facets |-> f] : f \in UNION {SUBSET FacetsOf(q) : q \in AllPersons}}
Edits == PatchAddress \cup PatchLocation \cup PatchCouncilTax \cup PatchTriage \cup PatchRentalIncome
           \cup PatchWorksEstimate \cup PatchFinancial \cup PatchPersonGraph

\* A node whose dependency emitted a change runs; it emits one itself unless it comes to the value
\* it had.  Records of persons and destinations are new with any facet, so that one who reads
\* others comes to the value it had; the steady nodes do so by chance.
Records == {PersonsSource} \cup {PlaceOf(p) : p \in {b \in BuiltSet : ~IsPupils(b)}}
PassedOn(c, done, w) ==
    LET news == w.deps \cap done.changed
        differs == w.node \notin c.steady /\ (news \subseteq Records => w.reads \cap c.edit.facets # {})
    IN  IF news = {} THEN done
        ELSE [run |-> done.run \cup {w.node}, changed |-> done.changed \cup (IF differs THEN {w.node} ELSE {})]
\* A change goes through the nodes of one part in turn, from whatever ran and changed before.
Through(c, part) ==
    [done \in [run : SUBSET AllNodes, changed : SUBSET AllNodes] |->
        LET upTo[i \in 0..Len(part)] == IF i = 0 THEN done ELSE PassedOn(c, upTo[i - 1], part[i])
        IN  upTo[Len(part)]]
Spread(c) ==
    FoldLeft(LAMBDA done, part : Through(c, part)[done], [run |-> {}, changed |-> c.edit.inputs], WiringParts)

-----------------------------------------------------------------------------
(***************************************************************************)
(* Opening a property                                                      *)
(***************************************************************************)
\* Mutant of EmptyValidInputs: a property of the add flow keeps its estimates pending.
EmptyValidButWorks == ApportionmentInputs \cup OfHouseAll({"status", "status_reason", "rental_income"})
\* The inputs whose emptiness is a fact are pushed when they were never set.
EmptyValidInputs == ApportionmentInputs \cup OfHouseAll({"status", "status_reason", "works_estimates", "rental_income"})

InputState(c, n) ==
    IF n \in EmptyValidInputs \cup c.given \cup FinancialSettings \cup {PersonsSource} THEN "value"
    ELSE IF n \in c.failed THEN "failed" ELSE "pending"

\* Mutant of Inactive: a node is held up by every source it might read.
InactiveNever(c, n, st) == {}
\* _get_active_deps of the nodes that have their own, by the name of the node.
Inactive(c, n, st) ==
    CASE n[2] = "best_address" -> {d \in OfHouseAll({"user_entered_address", "corrected_address", "rightmove_address"}) :
                                     st[d] # "value"}
      [] n[2] = "best_location" -> OfHouseAll({"precise_location", "rightmove_location", "geocode"})
      [] n[2] \in {"town_desc", "park_and_ride"} -> IF c.postcode THEN {} ELSE OfHouseAll({"postcode"})
      [] n[2] = "bus_augment" -> IF c.farToWalk /\ st[<<n[1], "park_and_ride">>] = "value" THEN {} ELSE {<<n[1], "bus_route">>, <<n[1], "bods_fare">>}
      [] n[2] = "rail_fare_if" -> IF c.chosen = "unpriced transit" /\ st[<<n[1], "commute">>] = "value" THEN {} ELSE {<<n[1], "rail_fare">>}
      [] n[2] = "rail_fare_noop" -> {<<n[1], "rail_fare_dummy">>}
      [] n[2] = "merge" -> IF c.chosen = "drive" \/ st[<<n[1], "commute">>] # "value" THEN {<<n[1], "rail_fare_if">>, <<n[1], "rail_fare_noop">>} ELSE {}
      [] n[2] = "current_home" -> IF c.current THEN {} ELSE OfHouseAll({"group_monthly_cost", "best_address"})
      [] OTHER -> {}

\* Mutant of OwnResult: a failed council tax lookup is a failure of the node.
OwnResultStrict(c, n, st) == IF n \in c.fails THEN "failed" ELSE "value"
\* What a node computes once its active dependencies have values.
OwnResult(c, n, st) ==
    CASE n = OfHouse("best_address") ->
           IF \E d \in OfHouseAll({"user_entered_address", "corrected_address", "rightmove_address"}) : st[d] = "value"
           THEN "value" ELSE "pending"
      [] n = OfHouse("best_location") ->
           IF \E d \in OfHouseAll({"precise_location", "geocode", "rightmove_location"}) : st[d] = "value"
           THEN "value" ELSE "failed"
      [] n = OfHouse("council_tax") -> "value"   \* an estimate, when the lookup failed
      [] OTHER -> IF n \in c.fails THEN "failed" ELSE "value"

StateAfter(c, w, st) ==
    LET active == w.deps \ Inactive(c, w.node, st)
    IN  IF \E d \in active : st[d] = "failed" THEN "failed"
        ELSE IF \E d \in active : st[d] = "pending" THEN "pending" ELSE OwnResult(c, w.node, st)
Refreshed(c, st, w) == [st EXCEPT ![w.node] = StateAfter(c, w, st)]
\* The nodes of one part are refreshed in turn, from any states of them all.
Swept(c, part) ==
    [st \in [AllNodes -> {"value", "failed", "pending"}] |->
        LET upTo[i \in 0..Len(part)] == IF i = 0 THEN st ELSE Refreshed(c, upTo[i - 1], part[i])
        IN  upTo[Len(part)]]
Opened(c) == FoldLeft(LAMBDA st, part : Swept(c, part)[st], [n \in AllNodes |-> InputState(c, n)], WiringParts)

-----------------------------------------------------------------------------
(***************************************************************************)
(* Properties                                                              *)
(***************************************************************************)
RoutesOf(p) == {<<p.key, n>> : n \in {"walk", "tfl_no_bus", "tfl_with_bus", "computed_transit", "bus_route"}
                                        \cup (IF p.car THEN {"drive"} ELSE {})}
AfterPlanning(p) == (IF p.car THEN {<<p.key, "park_and_ride">>} ELSE {}) \cup (IF IsPupils(p) THEN {} ELSE {<<p.key, "rail_fare">>})
OfAddress == OfHouseAll({"geocode", "epc", "council_tax"})
OfLocation == OfHouseAll({"walkability", "nearest_town", "town_desc", "primary_school", "secondary_school"})
                \cup UNION {RoutesOf(p) \cup AfterPlanning(p) : p \in BuiltSet}
Providers == OfAddress \cup OfLocation

Headlines == OfHouseAll({"group_monthly_cost", "delta_vs_home"}) \cup {Setting("current_home")}

\* What an edit of one input or facet may ask of a provider.
MayAsk(c, x) ==
    LET those(P(_)) == {p \in BuiltSet : P(p)}
        town == IF OfHouse("nearest_town") \in c.steady THEN OfHouseAll({"town_desc"}) ELSE {}
    IN  CASE x = OfHouse("corrected_address") ->
               IF OfHouse("best_location") \notin c.steady THEN Providers
               ELSE OfAddress \cup OfHouseAll({"walkability", "town_desc"}) \cup UNION {AfterPlanning(p) : p \in those(LAMBDA p : p.car)}
          [] x = OfHouse("precise_location") -> OfLocation \ town
          [] x[2] = "walk" -> UNION {AfterPlanning(p) : p \in those(LAMBDA p : p.person = x[1])}
          [] x[2] = "trips" -> UNION {{<<p.key, "computed_transit">>} \cup AfterPlanning(p) :
                                        p \in those(LAMBDA p : p.key = x[1] /\ ~IsPupils(p))}
          [] x[2] = "where" -> UNION {RoutesOf(p) \cup AfterPlanning(p) : p \in those(LAMBDA p : p.key = x[1] /\ ~IsPupils(p))}
          [] x = <<FirstChild, "schools">> ->
               OfHouseAll({"primary_school", "secondary_school"}) \cup UNION {RoutesOf(p) \cup AfterPlanning(p) : p \in those(IsPupils)}
          [] OTHER -> {}

\* Edits are paid for as they are used.  What an edit asks of the providers is what its parts ask:
\* money asks nothing; another tolerance for walking re-scores the routes that are planned, and
\* another number of trips re-prices them, while no route is planned again (but by the comparison,
\* which asks Google where TfL has no route); a destination that moves is the only one planned; a
\* new pin asks nothing of the registers, and describes the town anew only if it is another town; and an
\* address that is corrected without moving the property plans no journey and looks up no school.
AsksWhatItNeeds(c, spread) ==
    spread.run \cap Providers \subseteq UNION {MayAsk(c, x) : x \in c.edit.inputs \cup c.edit.facets}

\* And every edit that enters a figure arrives there: the cost of the property and its difference
\* from the current home follow the person's money, ways and destinations (a school by the filter),
\* the address, the pin, the estimates, the rent, the rates and the apportionment.  Triage recomputes nothing.
EntersFigures(x) ==
    \/ x[1] = "house" /\ x \notin TriageInputs
    \/ x \in FinancialSettings
    \/ x[2] \in {"money", "trips"}
    \/ x[2] = "works_required" /\ x[1] \in AdultPersons
    \/ x[2] \in {"walk", "mpg"} /\ \E p \in BuiltSet : p.person = x[1]
    \/ x[2] = "where" /\ \E p \in BuiltSet : p.key = x[1] /\ ~IsPupils(p)
    \/ x = <<FirstChild, "schools">> /\ \E p \in BuiltSet : IsPupils(p)
ArrivesAtFigures(c, spread) ==
    LET edited == c.edit.inputs \cup c.edit.facets IN
    /\ (c.steady = {} /\ \E x \in edited : EntersFigures(x)) =>
          Headlines \subseteq spread.changed
    /\ edited \subseteq TriageInputs => spread.run = {}
EditsAreScoped ==
    graphCase # NoGraphCase /\ graphCase.is = "edit" =>
        \A spread \in {Spread(graphCase)} : AsksWhatItNeeds(graphCase, spread) /\ ArrivesAtFigures(graphCase, spread)

\* A property that is opened settles, and its figures fail for cause.  With an address from
\* anywhere nothing waits but for a price that the scrape has not brought, whatever else is missing or
\* was never set; without one the purchase is priced all the same.  The cost has a value though every lookup
\* beside the journeys failed, and the comparison with the current home too; and a journey
\* that failed fails the cost, and is never left out of it.
NeedsPrice == Headlines \cup OfHouseAll({"stamp_duty", "mortgage_required", "monthly_mortgage", "yearly_sinking_fund", "monthly_sinking_fund"})
Enrichments == OfHouseAll({"epc", "council_tax", "walkability", "nearest_town", "town_desc"})
Settles(c, st) ==
    LET waiting == {n \in Derived : st[n] = "pending"}
        addressed == c.given \cap OfHouseAll({"rightmove_address", "corrected_address"}) # {}
        priced == OfHouse("rightmove_price") \in c.given
        located == c.given \cap OfHouseAll({"rightmove_location", "precise_location"}) # {}
    IN  /\ addressed => waiting \subseteq NeedsPrice
        /\ addressed /\ InputState(c, OfHouse("rightmove_price")) # "pending" => waiting = {}
        /\ priced /\ c.fails = {} => \A n \in NeedsPrice \ Headlines : st[n] = "value"
        /\ addressed /\ priced /\ located /\ c.fails \subseteq Enrichments => \A n \in Headlines : st[n] = "value"
        /\ (\E e \in Entries : st[e] = "failed") => st[OfHouse("group_monthly_cost")] = "failed"
OpeningSettles == graphCase # NoGraphCase /\ graphCase.is = "opening" => \A st \in {Opened(graphCase)} : Settles(graphCase, st)
=============================================================================
