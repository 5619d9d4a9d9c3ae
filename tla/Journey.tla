------------------------------- MODULE Journey -------------------------------
(***************************************************************************)
(* One person's commute from one property to one place: the plans of the   *)
(* journey planners (houses/tfl_client.py, transit_route.py,               *)
(* commute_router.py) and the chain of nodes that augments, selects and    *)
(* prices them (houses/nodes/transit.py, park_and_ride_augment_node.py,    *)
(* bus_leg_augment_node.py, commute.py, rail_fare_node.py, petrol.py), as  *)
(* commute_pipeline_builder.py wires it.                                   *)
(*                                                                         *)
(* Times are whole minutes.  Money is in units of its own: a TfL fare is   *)
(* doubled for the return trip, a tenth of a kilometre driven costs one.   *)
(***************************************************************************)
EXTENDS Integers, Sequences, FiniteSets, FiniteSetsExt, TLC
LOCAL INSTANCE SequencesExt

CONSTANTS
    Trips,             \* the persons, places and planners' answers to be tried
    NoTrip,
    NoFigure,          \* an absent figure: no route, no fare, no car park
    Unpriced,          \* a car park whose price is not known
    Broken,            \* the answer of a planner that fails, retries included
    BusWalkPenalty,    \* settings.bus_walk_penalty
    MaxWalkToStation   \* settings.max_walk_to_station

ASSUME JourneyAssumption == {BusWalkPenalty, MaxWalkToStation} \subseteq Nat

VARIABLE trip

RailModes == {"train", "tube", "dlr", "overground"}

\* A leg: its mode, its minutes, its kilometres when they are known, and whether it
\* names the station it ends at.
Leg(mode, min) == [mode |-> mode, min |-> min, km |-> 0, station |-> TRUE]
Group(legs, operator, cost) == [legs |-> legs, operator |-> operator, cost |-> cost]
Modes(group) == {group.legs[i].mode : i \in DOMAIN group.legs}
HasRail(group) == Modes(group) \cap RailModes # {}

Paid(cost) == IF cost = NoFigure THEN 0 ELSE cost
TotalCost(details) == MapThenSumSet(LAMBDA i : Paid(details[i].cost), DOMAIN details)
MinutesOf(legs) == MapThenSumSet(LAMBDA i : legs[i].min, DOMAIN legs)
TotalMinutes(details) == MapThenSumSet(LAMBDA i : MinutesOf(details[i].legs), DOMAIN details)

\* An attempt at a commute: "ok" for a route, "none" for the answer that there is no
\* route, "failed" for an error; Nothing is the lack of an attempt.
Commute(min, cost, details) == [is |-> "ok", min |-> min, cost |-> cost, details |-> details]
InfeasibleCommute == [is |-> "none", min |-> 0, cost |-> 0, details |-> << >>]
Failed == [is |-> "failed", min |-> 0, cost |-> 0, details |-> << >>]
Nothing == [is |-> "nothing", min |-> 0, cost |-> 0, details |-> << >>]

TransitLegs(c) == c.is = "ok" /\ \E i \in DOMAIN c.details : HasRail(c.details[i])

-----------------------------------------------------------------------------
(***************************************************************************)
(* Walking and driving                                                     *)
(***************************************************************************)
GoogleRoute(mode, min, km) ==
    IF min = NoFigure THEN InfeasibleCommute
    ELSE Commute(min, 0, << Group(<< [Leg(mode, min) EXCEPT !.km = km] >>, "", 0) >>)

WalkNode(t) == GoogleRoute("walk", t.walk, 0)

DriveNode(t) ==
    IF ~t.hasCar THEN InfeasibleCommute
    ELSE IF t.zone = "unknown" THEN Failed
    ELSE IF t.zone = "inside" THEN InfeasibleCommute
    ELSE GoogleRoute("drive", t.drive, t.drive)

-----------------------------------------------------------------------------
(***************************************************************************)
(* TfL's plan                                                              *)
(***************************************************************************)
\* _TransitCostGroups: what has been grouped, the run being collected, its mode, and
\* whether the whole-journey fare has been placed.
EmptyBuilder == [groups |-> << >>, run |-> << >>, mode |-> "", transit |-> FALSE, placed |-> FALSE]

FlushTransit(b, fare) ==
    IF b.run = << >> THEN b
    ELSE LET own == b.mode \in DOMAIN fare.modes
             whole == ~own /\ fare.total # NoFigure /\ ~b.placed
             cost == IF own THEN 2 * fare.modes[b.mode] ELSE IF whole THEN 2 * fare.total ELSE NoFigure
         IN  [b EXCEPT !.groups = Append(@, Group(b.run, "TfL", cost)),
                       !.run = << >>, !.mode = "", !.placed = @ \/ whole]

AddWalking(b, leg) ==
    IF b.transit THEN [b EXCEPT !.run = Append(@, leg)]
    ELSE [b EXCEPT !.groups = Append(@, Group(<<leg>>, "", NoFigure))]

AddTransit(b, leg, fare) ==
    LET flushed == IF b.mode # "" /\ b.mode # leg.mode THEN FlushTransit(b, fare) ELSE b
    IN  [flushed EXCEPT !.transit = TRUE, !.mode = leg.mode, !.run = Append(@, leg)]

BuildCostGroups(journey) ==
    LET add(b, leg) == IF leg.mode = "walk" THEN AddWalking(b, leg)
                       ELSE AddTransit(b, leg, journey.fare)
    IN  FlushTransit(FoldLeft(add, EmptyBuilder, journey.legs), journey.fare).groups

Duration(journey) == MinutesOf(journey.legs) + journey.waiting
FirstLegWalks(legs) == legs # << >> /\ legs[1].mode = "walk"

\* apply_park_and_ride_to_journeys: a long walk to a station becomes a drive.
ParkAndRide(t, journey) ==
    IF /\ FirstLegWalks(journey.legs) /\ journey.legs[1].min > MaxWalkToStation
       /\ journey.legs[1].station /\ t.toStation # NoFigure
    THEN [journey EXCEPT !.legs[1] = Leg("drive", t.toStation)]
    ELSE journey

\* _pick_best_journey: the first of the fastest.
PickBestJourney(journeys) ==
    LET best == Min({Duration(journeys[i]) : i \in DOMAIN journeys})
    IN  journeys[Min({i \in DOMAIN journeys : Duration(journeys[i]) = best})]

ParkGroup(t) == Group(<< Leg("park", 0) >>, "ParkCo", t.carPark)

\* _add_parking_cost: a group only for a station known to have a priced car park.
AddParkingCost(t, journey) ==
    IF t.hasCar /\ journey.legs[1].mode = "drive" /\ t.known /\ t.carPark \notin {NoFigure, Unpriced}
    THEN << ParkGroup(t) >> ELSE << >>

\* plan and _process_data: the total is the sum of the groups.
SumOfParts(min, details) == Commute(min, TotalCost(details), details)
Planned(t, best) == SumOfParts(Duration(best), BuildCostGroups(best) \o AddParkingCost(t, best))
TflPlan(t, journeys) ==
    IF journeys = Broken THEN Failed
    ELSE IF journeys = << >> THEN InfeasibleCommute
    ELSE Planned(t, PickBestJourney([i \in DOMAIN journeys |->
                        IF t.hasCar THEN ParkAndRide(t, journeys[i]) ELSE journeys[i]]))

\* _pick_best_route: the bus must save the household's penalty.
PickBestRoute(a, b) ==
    IF b.min = 0 THEN a
    ELSE IF a.min = 0 \/ a.min - b.min >= BusWalkPenalty THEN b ELSE a

\* transit_route: Google's plan is one group, without a price and without stations other than
\* a London terminus; its time is the route's own, to which the legs, rounded one by one, need
\* not add up.  A request that fails is no answer.
GoogleTransit(t) ==
    IF t.google = Broken \/ t.google.legs = << >> THEN Nothing
    ELSE Commute(t.google.min, 0, << Group(t.google.legs, "TfL", NoFigure) >>)

\* TransitNode.compute: with a car the plan without buses; a planner that failed counts as an
\* empty journey, if the other one has an answer.
OrEmpty(c) == IF c.is = "failed" THEN Commute(0, 0, << >>) ELSE c
BestPlan(t, noBus, withBus) ==
    IF t.hasCar /\ noBus.is = "ok" THEN noBus
    ELSE IF noBus.is = "failed" /\ withBus.is = "failed" THEN Failed
    ELSE PickBestRoute(OrEmpty(noBus), OrEmpty(withBus))

\* _nr_fallback, and what compute makes of it: an attempt of the fallback that is no route fails.
OrFallback(best, fallback) ==
    IF best.is # "none" \/ fallback = Nothing THEN best
    ELSE IF fallback.is = "ok" THEN fallback ELSE Failed

\* Both plans are inputs of the node, so that it fails before it computes when either failed.
TransitNode(t) ==
    LET noBus == TflPlan(t, t.tflNoBus)
        withBus == TflPlan(t, t.tflWithBus)
    IN  IF "failed" \in {noBus.is, withBus.is} THEN Failed
        ELSE OrFallback(BestPlan(t, noBus, withBus), GoogleTransit(t))

-----------------------------------------------------------------------------
(***************************************************************************)
(* The augments                                                            *)
(***************************************************************************)
WalkTooLong(t, c) ==
    /\ c.is = "ok" /\ c.details # << >>
    /\ FirstLegWalks(c.details[1].legs) /\ c.details[1].legs[1].min > t.maxWalk

\* Mutant: the parking group is charged and not shown.
ParkHidden(t, c) ==
    LET rest == Tail(c.details[1].legs)
        kept == IF rest = << >> THEN << >> ELSE << [c.details[1] EXCEPT !.legs = rest] >>
        details == << Group(<< Leg("drive", t.toStation) >>, "", NoFigure) >> \o kept \o Tail(c.details)
    IN  Commute(TotalMinutes(details), c.cost + Paid(IF t.carPark = Unpriced THEN NoFigure ELSE t.carPark), details)

\* The drive in a group of its own, the car park, and the journey without its first walk.
Parked(t, c) ==
    LET rest == Tail(c.details[1].legs)
        first == [c.details[1] EXCEPT !.legs = rest]
        priced == IF first.cost = NoFigure /\ Modes(first) \cap {"train", "tube", "bus"} # {}
                  THEN [first EXCEPT !.cost = c.cost] ELSE first
        fee == IF t.carPark = Unpriced THEN NoFigure ELSE t.carPark
        details == << Group(<< Leg("drive", t.toStation) >>, "", NoFigure) >>
                     \o (IF t.carPark = NoFigure THEN << >> ELSE << [ParkGroup(t) EXCEPT !.cost = fee] >>)
                     \o (IF rest = << >> THEN << >> ELSE << priced >>) \o Tail(c.details)
    IN  Commute(TotalMinutes(details), c.cost + Paid(fee), details)

\* ParkAndRideAugmentNode.compute
ParkAndRideAugment(t, c) ==
    IF WalkTooLong(t, c) /\ t.hasCar /\ c.details[1].legs[1].station /\ t.known /\ t.toStation # NoFigure
    THEN Parked(t, c) ELSE c

\* _bus_augment: the bus is the whole journey, or takes the place of the first group.
BusGroup(t) == Group(<< Leg("bus", t.busTime) >>, "", IF t.busFare > 0 THEN t.busFare ELSE NoFigure)
BusLegAugment(t, c) ==
    IF c.is = "failed" \/ t.busTime = 0 THEN c
    ELSE IF c.is = "none" THEN Commute(t.busTime, t.busFare, << BusGroup(t) >>)
    ELSE IF WalkTooLong(t, c) /\ c.details[1].legs[1].min - t.busTime >= BusWalkPenalty
         THEN Commute(c.min - c.details[1].legs[1].min + t.busTime, c.cost + t.busFare,
                      << BusGroup(t) >> \o Tail(c.details))
         ELSE c

-----------------------------------------------------------------------------
(***************************************************************************)
(* The choice                                                              *)
(***************************************************************************)
Acceptable(t, mode) == t.modes = {} \/ mode \in t.modes

\* The alternatives in the order in which they are compared.
Alternatives(t, transit) ==
    [mode \in {m \in {"walk", "transit", "car"} : Acceptable(t, m)} |->
        CASE mode = "walk" -> WalkNode(t) [] mode = "transit" -> transit [] mode = "car" -> DriveNode(t)]
Order == << "walk", "transit", "car" >>

\* _pick_best
PickBest(t, alts) ==
    LET usable == {i \in DOMAIN Order : Order[i] \in DOMAIN alts /\ alts[Order[i]].is = "ok"}
        within == {i \in usable : Order[i] # "walk" \/ alts["walk"].min <= t.maxWalk}
        fastest == {i \in within : \A k \in within : alts[Order[i]].min <= alts[Order[k]].min}
    IN  IF within # {} THEN alts[Order[Min(fastest)]]
        ELSE IF usable # {} THEN alts["walk"] ELSE Failed

\* A node whose input failed fails; an unacceptable alternative is no input.
CommuteSelector(t, transit) ==
    LET alts == Alternatives(t, transit)
    IN  IF \E m \in DOMAIN alts : alts[m].is = "failed" THEN Failed ELSE PickBest(t, alts)

-----------------------------------------------------------------------------
(***************************************************************************)
(* The rail fare                                                           *)
(***************************************************************************)
HasUnpricedTransit(c) == \E i \in DOMAIN c.details : HasRail(c.details[i]) /\ c.details[i].cost = NoFigure

NeedsRailFare(transit, selected) ==
    transit.is = "ok" /\ TransitLegs(selected) /\ (transit.cost = 0 \/ HasUnpricedTransit(transit))

ApplyFare(c, total) ==
    [c EXCEPT !.cost = total,
              !.details = [i \in DOMAIN @ |->
                  IF @[i].operator = "TfL" \/ HasRail(@[i]) THEN [@[i] EXCEPT !.cost = total] ELSE @[i]]]

\* RailFareNode.compute
RailFare(t, transit) ==
    IF transit.is # "ok" \/ transit.cost > 0 \/ ~TransitLegs(transit) \/ ~t.terminus THEN transit
    ELSE IF t.railFare = NoFigure THEN Failed ELSE ApplyFare(transit, t.railFare)

RailGroups(details) == {i \in DOMAIN details : HasRail(details[i])}

\* Mutant: the fare goes on every transit group of the selected journey.
ReplaceEveryTransitGroup(selected, fare) ==
    IF RailGroups(fare) = {} THEN selected
    ELSE [i \in DOMAIN selected |-> IF HasRail(selected[i]) THEN fare[Min(RailGroups(fare))] ELSE selected[i]]

\* _replace_transit_group: the first priced transit group for the first selected one.
ReplaceTransitGroup(selected, fare) ==
    LET replacement == IF RailGroups(fare) = {} THEN fare[1] ELSE fare[Min(RailGroups(fare))]
    IN  IF fare = << >> THEN selected
        ELSE IF RailGroups(selected) = {} THEN Append(selected, replacement)
        ELSE [selected EXCEPT ![Min(RailGroups(selected))] = replacement]

\* MergeRailFareNode.compute; children have no fare node.
MergeRailFare(t, transit, selected) ==
    LET fare == IF ~t.isChild /\ NeedsRailFare(transit, selected) THEN RailFare(t, transit) ELSE InfeasibleCommute
        details == ReplaceTransitGroup(selected.details, fare.details)
    IN  IF ~TransitLegs(selected) THEN selected
        ELSE IF fare.is = "failed" THEN Failed
        ELSE IF fare.cost <= 0 THEN selected
        ELSE [selected EXCEPT !.cost = TotalCost(details), !.details = details]

-----------------------------------------------------------------------------
(***************************************************************************)
(* Fuel                                                                    *)
(***************************************************************************)
DriveGroups(details) == {i \in DOMAIN details : "drive" \in Modes(details[i])}

\* _fuel_cost_for: there and back, by the kilometres or at 48 km/h; a group that drives
\* is one leg.
FuelCost(details) ==
    LET drives == DriveGroups(details)
        km == MapThenSumSet(LAMBDA i : details[i].legs[1].km, drives)
        min == MapThenSumSet(LAMBDA i : details[i].legs[1].min, drives)
    IN  IF km > 0 THEN 20 * km ELSE 16 * min

\* PetrolCostAugmentNode.compute
PetrolCostAugment(c) ==
    LET fuel == FuelCost(c.details)
    IN  IF c.is # "ok" \/ fuel = 0 THEN c
        ELSE [c EXCEPT !.cost = @ + fuel,
                       !.details[Min(DriveGroups(c.details))].cost = Paid(@) + fuel]

\* build_commute_pipeline: the stages of one commute, each from those before it.
WithParking(t, s) == s @@ [parked |-> ParkAndRideAugment(t, s.transit)]
WithBus(t, s) == s @@ [bused |-> BusLegAugment(t, s.parked)]
WithChoice(t, s) == s @@ [selected |-> CommuteSelector(t, s.bused)]
WithFare(t, s) == s @@ [priced |-> MergeRailFare(t, s.transit, s.selected)]
WithFuel(s) == s @@ [final |-> PetrolCostAugment(s.priced)]
Stages(t) == WithFuel(WithFare(t, WithChoice(t, WithBus(t, WithParking(t, [transit |-> TransitNode(t)])))))

-----------------------------------------------------------------------------
(***************************************************************************)
(* Properties                                                              *)
(***************************************************************************)
CostIsTheSum(stages) ==
    \A s \in DOMAIN stages : stages[s].cost = TotalCost(stages[s].details)

\* What is paid for travelling by public transport: all but parking and fuel.
TransitCost(final) ==
    final.cost - FuelCost(final.details)
        - MapThenSumSet(LAMBDA i : Paid(final.details[i].cost),
                        {i \in DOMAIN final.details : Modes(final.details[i]) = {"park"}})

\* Parking found by the TfL client counts as a fare there already.
ParkingTakenForFare(stages) ==
    \E i \in DOMAIN stages.transit.details : Modes(stages.transit.details[i]) = {"park"}

RailIsPaidFor(t, stages) ==
    TransitLegs(stages.final) /\ ~t.isChild /\ t.terminus /\ t.railFare # NoFigure
        /\ ~ParkingTakenForFare(stages) => TransitCost(stages.final) > 0

\* A bus for the first walk of a Google plan takes the rest of the plan with it.
BusForAGooglePlan(stages) ==
    stages.bused # stages.parked /\ stages.parked.is = "ok" /\ Len(stages.parked.details[1].legs) > 1

\* What the time stated has over the legs shown.
Drift(c) == c.min - TotalMinutes(c.details)

\* A planner's time is its own and holds waits, and more or less than its rounded legs; no
\* later stage changes the time by other than the legs it changes, but where it works the
\* whole time out anew.
TimeIsAccountedFor(stages) ==
    stages.final.is = "ok" /\ ~BusForAGooglePlan(stages) =>
        Drift(stages.final) \in {0, Drift(stages.transit)}

DrivesOnly(c) == \A i \in DOMAIN c.details : Modes(c.details[i]) = {"drive"}

\* Nobody without a car drives a step of the way, and nobody drives all the way to a place
\* that is not known to lie outside the congestion charge zone.
DrivesWhereAllowed(t, final) ==
    final.is = "ok" /\ DriveGroups(final.details) # {} =>
        t.hasCar /\ (DrivesOnly(final) => t.zone = "outside")

\* The choice is no slower than an acceptable alternative, and walks too far only when
\* there is no other; an unacceptable alternative that failed does not matter.
ChosenWell(t, stages) ==
    LET alts == Alternatives(t, stages.bused)
        usable == {m \in DOMAIN alts : alts[m].is = "ok" /\ (m = "walk" => alts[m].min <= t.maxWalk)}
    IN  /\ usable # {} /\ (\A m \in DOMAIN alts : alts[m].is # "failed") =>
               stages.selected.is = "ok" /\ \A m \in usable : stages.selected.min <= alts[m].min
        /\ stages.selected.is = "ok" => usable # {} \/ Acceptable(t, "walk")

\* When a planner fails no public transport is chosen, and no other commute either where public
\* transport would do; without that, who may walk or drive is not held up by the failure.
FailureIsKept(t, stages) ==
    Broken \in {t.tflNoBus, t.tflWithBus} =>
        /\ ~TransitLegs(stages.final)
        /\ Acceptable(t, "transit") => stages.final = Failed
        /\ WalkNode(t).is = "ok" /\ t.modes = {"walk"} => stages.final.is = "ok"

\* The commute that is shown is one the person can and would make, in the time its planner or
\* its legs state, and none is made up from a planner that failed.
\* Its cost is the sum of the costs of its parts at every stage of the pipeline, through
\* parking, bus, fare and fuel, so that no stage charges what it does not show; and an
\* adult who goes by rail pays for the rail.
CommuteHolds ==
    trip # NoTrip =>
        \A stages \in {Stages(trip)} :
            /\ CostIsTheSum(stages)
            /\ RailIsPaidFor(trip, stages)
            /\ TimeIsAccountedFor(stages)
            /\ DrivesWhereAllowed(trip, stages.final)
            /\ ChosenWell(trip, stages)
            /\ FailureIsKept(trip, stages)
=============================================================================
