------------------------------- MODULE Lookups -------------------------------
(***************************************************************************)
(* The tables a property is looked up in: where it is (houses/location.py),*)
(* the nearest school (schools.py, school.py), what parking at a station   *)
(* costs (car_park.py) and what a bus costs (bus_journey.py).              *)
(***************************************************************************)
EXTENDS Integers, Sequences, FiniteSets, FiniteSetsExt
LOCAL INSTANCE SequencesExt

CONSTANTS
    Lookups,       \* the questions and tables to be tried
    NoLookup,
    OutcodeOf,     \* full postcodes, as a function to their outward codes
    Radius,        \* settings.school_search_radius
    MaxSingle,     \* the national cap on a single bus fare
    NoAnswer       \* an absent value: no distance, no price, no zone

VARIABLE lookup

FirstOf(s, P(_)) == LET hits == {i \in DOMAIN s : P(s[i])} IN IF hits = {} THEN NoAnswer ELSE s[Min(hits)]
Members(s) == {s[i] : i \in DOMAIN s}

-----------------------------------------------------------------------------
(***************************************************************************)
(* Where a property is: an address is a sequence of parts, of which some   *)
(* are postcodes or outward codes.                                         *)
(***************************************************************************)
Outcodes == {OutcodeOf[p] : p \in DOMAIN OutcodeOf}
IsFull(part) == part \in DOMAIN OutcodeOf
IsOutcode(part) == part \in Outcodes

ExtractPostcode(address) ==
    IF \E i \in DOMAIN address : IsFull(address[i]) THEN FirstOf(address, IsFull)
    ELSE IF \E i \in DOMAIN address : IsOutcode(address[i]) THEN FirstOf(address, IsOutcode)
    ELSE ""

\* A postcode is in an address that has it, and an outward code in one that has a
\* postcode beginning with it.
Mentions(address, postcode) ==
    \E i \in DOMAIN address : address[i] = postcode \/ (IsFull(address[i]) /\ OutcodeOf[address[i]] = postcode)

\* upgrade_address: fold a postcode known separately into the address.
UpgradeAddress(address, postcode) ==
    IF address = << >> \/ postcode = "" \/ Mentions(address, postcode) THEN address
    ELSE IF IsOutcode(Last(address)) THEN Append(Front(address), postcode)
    ELSE Append(address, postcode)

\* A provider answers with a point, has "none", or fails in a way that may pass ("retry").
Known(source) == [is |-> "point", by |-> source]
Nowhere == [is |-> "none"]
TryLater == [is |-> "retry"]
Ask(outcome, source) ==
    IF outcome = "point" THEN Known(source) ELSE IF outcome = "retry" THEN TryLater ELSE Nowhere

\* geocode_address: Google, then ORS, then Nominatim.
GeocodeAddress(q) ==
    LET answers == << Ask(q.google, "address"), Ask(q.ors, "address"), Ask(q.nominatim, "address") >>
        first == FirstOf(answers, LAMBDA a : a.is # "none")
    IN  IF first = NoAnswer THEN Nowhere ELSE first
\* _geocode_postcode
GeocodePostcode(q, postcode) == IF postcode = "" THEN Nowhere ELSE Ask(q.postcodes, "postcode")

\* PropertyLocation.resolve
Resolve(q, postcode) ==
    LET byAddress == GeocodeAddress(q) IN IF byAddress.is = "none" THEN GeocodePostcode(q, postcode) ELSE byAddress

\* resolve_house_location: the full postcode, what was measured or estimated, the bare address.
ResolveHouseLocation(q) ==
    LET full == IF IsFull(q.postcode) /\ q.address # << >> THEN Resolve(q, q.postcode) ELSE Nowhere
    IN  IF full.is # "none" THEN full
        ELSE IF q.measured THEN Known("measured")
        ELSE IF q.estimated THEN Known("estimated")
        ELSE IF q.address # << >> THEN Resolve(q, "") ELSE Nowhere

-----------------------------------------------------------------------------
(***************************************************************************)
(* The nearest school                                                      *)
(***************************************************************************)
\* from_GIAS_row: a corrected position that contradicts the register's is not used.
CorrectedMax == 100
SchoolDistance(row) ==
    IF row.corrected = NoAnswer THEN NoAnswer
    ELSE IF row.rough # NoAnswer /\ row.gap >= CorrectedMax THEN NoAnswer
    ELSE row.corrected

Phases == {"nursery", "primary", "middle deemed primary", "middle deemed secondary", "secondary",
           "16 plus", "all-through"}
PhaseRange == [p \in Phases |->
    CASE p = "nursery" -> 2..4 [] p = "primary" -> 4..11 [] p = "middle deemed primary" -> 9..13
      [] p = "middle deemed secondary" -> 9..14 [] p = "secondary" -> 11..18 [] p = "16 plus" -> 16..18
      [] p = "all-through" -> 4..18]
AcceptsAge(row, age) ==
    IF row.phase \in DOMAIN PhaseRange THEN age \in PhaseRange[row.phase]
    ELSE (row.low = NoAnswer \/ row.low <= age) /\ (row.high = NoAnswer \/ age <= row.high)

FeePaying == {"independent school", "other independent school", "independent special school",
              "non-maintained special school"}
Special == {"community special school", "independent special school", "non-maintained special school"}

EligibleEvenSpecial(row, age, acceptable) ==
    row.gender \in acceptable /\ AcceptsAge(row, age) /\ row.type \notin FeePaying /\ row.name # ""
\* _school_eligible
Eligible(row, age, acceptable) ==
    /\ row.gender \in acceptable
    /\ AcceptsAge(row, age)
    /\ row.type \notin FeePaying \cup Special
    /\ row.name # ""

\* _school_candidates and find_nearest
Candidates(q, age) ==
    {i \in DOMAIN q.schools : /\ Eligible(q.schools[i], age, q.acceptable)
                              /\ SchoolDistance(q.schools[i]) # NoAnswer
                              /\ SchoolDistance(q.schools[i]) <= Radius}
SkippedNearby(q, age) ==
    \E i \in DOMAIN q.schools : /\ Eligible(q.schools[i], age, q.acceptable)
                                /\ SchoolDistance(q.schools[i]) = NoAnswer
                                /\ q.schools[i].rough # NoAnswer /\ q.schools[i].rough <= Radius
FindNearest(q, age) ==
    LET near == Candidates(q, age)
        Nearer(i, j) == SchoolDistance(q.schools[i]) < SchoolDistance(q.schools[j])
    IN  IF near # {} THEN [is |-> "ok", school |-> CHOOSE i \in near :
                               \A j \in near : Nearer(i, j) \/ (~Nearer(j, i) /\ i <= j)]
        ELSE IF SkippedNearby(q, age) THEN [is |-> "pending"]
        ELSE [is |-> "none"]

-----------------------------------------------------------------------------
(***************************************************************************)
(* Parking                                                                 *)
(***************************************************************************)
ParkRow(name, crs, cost, park) == [name |-> name, crs |-> crs, cost |-> cost, park |-> park]
\* _persist_results: the station's rows are replaced, or one is added, and the file is sorted
\* by code; codes are numbered in their order, and 0 is a blank one.
SortedByCrs(rows) ==
    LET codes == Max({rows[i].crs : i \in DOMAIN rows})
    IN  FlattenSeq([c \in 1..(codes + 1) |-> SelectSeq(rows, LAMBDA row : row.crs = c - 1)])
SameStation(row, station) == row.name = station.name \/ row.crs = station.crs
PersistResults(rows, station, cost, park) ==
    LET new == ParkRow(station.name, station.crs, cost, park)
        replaced == [i \in DOMAIN rows |-> IF SameStation(rows[i], station) THEN new ELSE rows[i]]
    IN  SortedByCrs(IF \E i \in DOMAIN rows : SameStation(rows[i], station) THEN replaced ELSE Append(rows, new))

\* find_car_park: the last row of the file with the station's name, else with its code.
LastRow(rows, P(_)) == FirstOf(Reverse(rows), P)
FindCarPark(rows, station) ==
    LET byName == LastRow(rows, LAMBDA row : row.name = station.name)
    IN  IF byName # NoAnswer THEN byName ELSE LastRow(rows, LAMBDA row : row.crs = station.crs)

\* load_costs and add_nearest_car_park_for: a price that APCOA gives is kept in the file.
LookUpParking(rows, station, price) ==
    LET known == FindCarPark(rows, station)
        park == IF known = NoAnswer THEN "near " \o station.name ELSE known.park
    IN  IF price = NoAnswer THEN rows ELSE PersistResults(rows, station, price, park)

-----------------------------------------------------------------------------
(***************************************************************************)
(* Bus fares: each operator has zones of its own for the stops it serves.  *)
(***************************************************************************)
\* _products_for_zone_pair: a pair is priced in one direction or the other.
ProductsFor(op, a, b) ==
    IF <<a, b>> \in DOMAIN op.fares THEN op.fares[<<a, b>>]
    ELSE IF <<b, a>> \in DOMAIN op.fares THEN op.fares[<<b, a>>]
    ELSE << >>

\* The zone an operator has for a stop by its name, by a name much like it, and by the
\* nearest of the operator's stops.
ZoneNamed(op, stop) == IF stop.name \in DOMAIN op.zones THEN op.zones[stop.name] ELSE NoAnswer
ZoneAlike(op, stop) ==
    LET alike == FirstOf(op.stops, LAMBDA name : name \in stop.alike)
    IN  IF alike = NoAnswer THEN NoAnswer ELSE op.zones[alike]
ZoneNear(op, stop) == IF stop.near \in DOMAIN op.zones THEN op.zones[stop.near] ELSE NoAnswer

Offers(op, a, b) == IF NoAnswer \in {a, b} THEN << >> ELSE ProductsFor(op, a, b)
FirstOffer(offers) == LET some == FirstOf(offers, LAMBDA p : p # << >>) IN IF some = NoAnswer THEN << >> ELSE some

\* _fuzzy_match: a zone once found is kept for the operators that follow.
KeptZone(ops, k, stop) == FirstOf([i \in 1..k |-> ZoneAlike(ops[i], stop)], LAMBDA z : z # NoAnswer)
FuzzyMatch(ops, dep, arr) ==
    FirstOffer([k \in DOMAIN ops |-> Offers(ops[k], KeptZone(ops, k, dep), KeptZone(ops, k, arr))])
DirectMatch(ops, dep, arr) ==
    FirstOffer([k \in DOMAIN ops |-> Offers(ops[k], ZoneNamed(ops[k], dep), ZoneNamed(ops[k], arr))])
CoordMatch(ops, dep, arr) ==
    FirstOffer([k \in DOMAIN ops |-> Offers(ops[k], ZoneNear(ops[k], dep), ZoneNear(ops[k], arr))])

FaresForStops(q) ==
    FirstOffer(<< DirectMatch(q.ops, q.dep, q.arr), FuzzyMatch(q.ops, q.dep, q.arr), CoordMatch(q.ops, q.dep, q.arr) >>)

\* cheapest_round_trip
Capped(price) == IF price > MaxSingle THEN MaxSingle ELSE price
CheapestRoundTrip(fares) ==
    LET cost == [t \in DOMAIN fares |-> IF t = "single" THEN 2 * Capped(fares[t]) ELSE fares[t]]
    IN  IF DOMAIN fares = {} THEN NoAnswer ELSE Min({cost[t] : t \in DOMAIN fares})

-----------------------------------------------------------------------------
(***************************************************************************)
(* Properties                                                              *)
(***************************************************************************)
Asks(kind) == lookup # NoLookup /\ lookup.kind = kind

\* The postcode folded into an address is the one later read out of it (location.py:480-486
\* "the address stays the single fact"), unless the address has a full postcode of its own,
\* or all that is folded in is an outward code.
PostcodeSurvives ==
    Asks("place") =>
        LET told == {p \in Members(lookup.address) : IsFull(p)}
        IN  (lookup.address # << >> /\ IsFull(lookup.postcode) /\ told \subseteq {lookup.postcode}) =>
                ExtractPostcode(UpgradeAddress(lookup.address, lookup.postcode)) = lookup.postcode

\* A place that is given up on was looked for everywhere, and no failure that may pass is
\* taken for an answer (location.py:246-248).
GivenUpMeansUnknown ==
    Asks("place") /\ ResolveHouseLocation(lookup) = Nowhere =>
        /\ ~lookup.measured /\ ~lookup.estimated
        /\ lookup.address # << >> =>
               /\ {lookup.google, lookup.ors, lookup.nominatim} = {"none"}
               /\ IsFull(lookup.postcode) => lookup.postcodes = "none"

\* The school shown is one the child may go to without a fee, is where it is said to be, and
\* none such is nearer; it is left open only while a school nearby might be the answer.
SchoolIsNearest ==
    Asks("school") => \A age \in {7, 14} :
        LET found == FindNearest(lookup, age)
            fits == {i \in DOMAIN lookup.schools :
                        /\ AcceptsAge(lookup.schools[i], age) /\ lookup.schools[i].gender \in lookup.acceptable
                        /\ lookup.schools[i].type \notin Special \cup FeePaying}
        IN  /\ found.is = "ok" => LET chosen == lookup.schools[found.school]
                                  IN  /\ found.school \in fits /\ chosen.truly <= Radius
                                      /\ \A i \in fits : lookup.schools[i].corrected = lookup.schools[i].truly =>
                                            chosen.truly <= lookup.schools[i].truly
            /\ found.is = "none" => \A i \in fits : lookup.schools[i].truly > Radius

\* Learning what parking costs at one station is remembered, and leaves every other station
\* as it was, unless the file has that one twice: sorting it may put the other row last.
ParkingIsTheStations ==
    Asks("parking") =>
        LET after == LookUpParking(lookup.rows, lookup.station, lookup.price)
            once == {s \in lookup.others : Cardinality({i \in DOMAIN lookup.rows : lookup.rows[i].name = s.name}) <= 1}
        IN  /\ \A other \in once : FindCarPark(after, other) = FindCarPark(lookup.rows, other)
            /\ lookup.price # NoAnswer => /\ FindCarPark(after, lookup.station) # NoAnswer
                                          /\ FindCarPark(after, lookup.station).cost = lookup.price

\* A bus is priced by an operator that serves both stops, unless the stops were found under
\* names alike at two operators; a round trip costs no more than two capped singles.
Serves(op, stop) == stop.at \in DOMAIN op.zones
AlikeAcross == \E i, j \in DOMAIN lookup.ops : i # j /\ ZoneAlike(lookup.ops[i], lookup.dep) # NoAnswer
                                                   /\ ZoneAlike(lookup.ops[j], lookup.arr) # NoAnswer
BusFareIsServed ==
    Asks("bus") =>
        LET fares == FaresForStops(lookup)
        IN  /\ fares # << >> /\ ~AlikeAcross =>
                  \E i \in DOMAIN lookup.ops : LET op == lookup.ops[i] IN
                      /\ Serves(op, lookup.dep) /\ Serves(op, lookup.arr)
                      /\ fares = ProductsFor(op, op.zones[lookup.dep.at], op.zones[lookup.arr.at])
            /\ "single" \in DOMAIN fares => CheapestRoundTrip(fares) <= 2 * MaxSingle

\* What is looked up is the answer to what was asked.
LookupsAnswer ==
    PostcodeSurvives /\ GivenUpMeansUnknown /\ SchoolIsNearest /\ ParkingIsTheStations /\ BusFareIsServed
=============================================================================
