----------------------------- MODULE MCWorkings -----------------------------
(* Inputs for the modules of pure calculations, and the behaviours that pick them. *)
EXTENDS HousingCost, Journey, PropertyFacts, Lookups, Evaluation, SearchArea,
        ShedBatch, DriveRuns, Migrations, Expressions, FareTables, PropertyGraph, TflCalls, TLC
LOCAL INSTANCE SequencesExt

\* A person as settings may hold them; what does not matter to a case is fixed.
Somebody == [sale |-> 0, owed |-> 0, coOwners |-> <<>>, selling |-> "unset", cash |-> 7,
             insurance |-> 5, rent |-> 3, daily |-> 12, trips |-> 2, weeks |-> 46]
Part(name, share) == [name |-> name, share |-> share]

Holder == {[Somebody EXCEPT !.sale = sale, !.owed = owed, !.coOwners = co, !.selling = selling] :
             sale \in {0, 90}, owed \in {0, 40}, selling \in {"unset", "no"},
             co \in {<<>>, <<Part("b", 50)>>, <<Part("b", 25), Part("gone", 25)>>, <<Part("b", 10), Part("b", 15)>>}}
Partner == {[Somebody EXCEPT !.sale = sale, !.coOwners = co, !.rent = 11] :
             sale \in {0, 60}, co \in {<<>>, <<Part("a", 10)>>}}
Lodger == [Somebody EXCEPT !.cash = 2, !.rent = 13, !.insurance = 1]
Pupil == [Somebody EXCEPT !.cash = 0, !.rent = 0, !.insurance = 2, !.daily = 24, !.weeks = 38]

Stored == {{}, {"a"}, {"c", "gone"}, {"gone"}}

SomeHouseholds ==
    {[persons |-> [p \in People |-> CASE p = "a" -> a [] p = "b" -> b [] p = "c" -> Lodger [] p = "k" -> Pupil],
      current |-> current, price |-> price, sinking |-> 24, payment |-> 80, rental |-> 9,
      council |-> 36, councilPayers |-> payers,
      annexe |-> annexe, annexeIgnored |-> ignored, annexePayers |-> {"b", "gone"}] :
        a \in Holder, b \in Partner, current \in BOOLEAN, payers \in Stored,
        annexe \in {0, 12}, ignored \in BOOLEAN, price \in {250, 926, 1500}}

-----------------------------------------------------------------------------
\* What TfL may answer: local tube, a train after a long walk, a bus to the train, each with
\* the ways in which it states fares.
Unstated == [total |-> NoFigure, modes |-> <<>>]
Fares == {Unstated, [total |-> 9, modes |-> <<>>], [total |-> 10, modes |-> [train |-> 7, tube |-> 3]],
          [total |-> 10, modes |-> [tube |-> 3]]}
Local == [legs |-> <<Leg("walk", 6), Leg("tube", 42), Leg("walk", 3)>>, waiting |-> 2,
          fare |-> [total |-> 3, modes |-> <<>>]]
Far(walk, fare) == [legs |-> <<Leg("walk", walk), Leg("train", 25), Leg("walk", 2), Leg("tube", 10), Leg("walk", 4)>>,
              waiting |-> 2, fare |-> fare]
Feeder(fare) == [legs |-> <<Leg("bus", 12), Leg("train", 25), Leg("dlr", 9)>>, waiting |-> 2, fare |-> fare]
Unnamed(mode, min) == [Leg(mode, min) EXCEPT !.station = FALSE]
NoPlan == [min |-> 0, legs |-> <<>>]
\* Google's time for its plan: with waits, and a little less than the legs as they are rounded.
GooglePlan(min) == [min |-> min, legs |-> <<Unnamed("walk", 40), Unnamed("train", 30), Unnamed("tube", 10)>>]

ATrip == [walk |-> NoFigure, drive |-> NoFigure, zone |-> "outside", hasCar |-> TRUE, isChild |-> FALSE,
          maxWalk |-> 15, modes |-> {}, tflNoBus |-> <<>>, tflWithBus |-> <<>>, google |-> NoPlan,
          toStation |-> 8, known |-> TRUE, carPark |-> 6, busTime |-> 0, busFare |-> 4,
          railFare |-> 20, terminus |-> TRUE]

Priced == {[ATrip EXCEPT !.hasCar = car, !.isChild = child, !.tflNoBus = noBus, !.tflWithBus = withBus,
                         !.google = google, !.toStation = drive, !.carPark = park, !.busTime = bus,
                         !.busFare = busFare, !.railFare = rail, !.terminus = rail # NoFigure] :
            car \in BOOLEAN, child \in BOOLEAN,
            noBus \in {<<>>} \cup {<<Far(w, f)>> : w \in {18, 40}, f \in Fares},
            withBus \in {<<>>} \cup {<<Feeder(f)>> : f \in Fares},
            google \in {NoPlan, GooglePlan(92), GooglePlan(79)}, drive \in {NoFigure, 8}, park \in {NoFigure, Unpriced, 6},
            bus \in {0, 14}, busFare \in {0, 4}, rail \in {NoFigure, 20}}
Chosen == {[ATrip EXCEPT !.walk = walk, !.drive = drive, !.zone = zone, !.hasCar = car, !.maxWalk = max,
                         !.modes = modes, !.tflNoBus = noBus, !.toStation = toStation] :
            walk \in {NoFigure, 25, 90}, drive \in {NoFigure, 25, 60}, zone \in {"inside", "outside", "unknown"},
            car \in BOOLEAN, max \in {15, 30, 90},
            modes \in {{}, {"walk"}, {"transit"}, {"car"}, {"walk", "transit"}},
            noBus \in {<<>>, <<Local>>, <<Far(40, Unstated), Local>>, <<Local, Far(40, Unstated)>>},
            toStation \in {NoFigure, 8}}
\* One planner or both fail, TfL's or Google's.
Unplanned == {[ATrip EXCEPT !.hasCar = car, !.walk = walk, !.modes = modes, !.tflNoBus = noBus,
                            !.tflWithBus = withBus, !.google = google, !.busTime = bus] :
               car \in BOOLEAN, walk \in {NoFigure, 25}, modes \in {{}, {"walk"}, {"transit"}, {"walk", "transit"}},
               noBus \in {<<>>, Broken, <<Local>>}, withBus \in {<<>>, Broken, <<Feeder(Unstated)>>},
               google \in {Broken, NoPlan, GooglePlan(92)}, bus \in {0, 14}}
SomeTrips == Priced \cup Chosen \cup Unplanned

-----------------------------------------------------------------------------
\* Two postcodes: houses with numbers, and named ones, with the ways their addresses are written.
Row(dwelling, address, band, authority, date) ==
    [dwelling |-> dwelling, address |-> address, band |-> band, authority |-> authority, date |-> date]
HighStreet == <<"HIGH", "STREET">>
Two == <<"2", "HIGH", "STREET">>
Rectory == <<"THE", "RECTORY">>
Cottage == <<"THE", "RECTORY", "COTTAGE">>
FlatOne == <<"FLAT", "1">>
ByNumber ==
    << Row("two", <<Two, <<"MARLOW">>>>, "D", "", 1),
       Row("two", <<Two>>, "D", "woking", 2),
       Row("two", <<Two, <<"BOURNE">>>>, "E", "wycombe", 3),
       Row("one of two", <<FlatOne, Two>>, "A", "ealing", 2),
       Row("two a", <<<<"2A", "HIGH", "STREET">>>>, "B", "brentwood", 2),
       Row("twelve", <<<<"12", "HIGH", "STREET">>>>, "", "woking", 1),
       Row("twelve", <<<<"12", "HIGH", "STREET">>, <<"MARLOW">>>>, "D", "woking", 2),
       Row("two of one", <<<<"FLAT", "2">>, <<"1", "HIGH", "STREET">>>>, "C", "nowhere", 2) >>
ByName ==
    << Row("rectory", <<Rectory, HighStreet>>, "G", "woking", 1),
       Row("rectory", <<Rectory>>, "G", "", 2),
       Row("cottage", <<Cottage, HighStreet>>, "D", "woking", 1),
       Row("one of rectory", <<FlatOne, Rectory>>, "A", "woking", 2),
       Row("one of rectory", <<Rectory, FlatOne>>, "B", "woking", 1),
       Row("one of cottage", <<FlatOne, Cottage>>, "C", "woking", 2) >>
AsListed == {<<"two", <<Two, <<"MARLOW">>>>>>, <<"one of two", <<FlatOne, Two, <<"MARLOW">>>>>>,
             <<"two a", <<<<"2A", "HIGH", "STREET">>, <<"MARLOW">>>>>>,
             <<"twelve", <<<<"12", "HIGH", "STREET">>, <<"MARLOW">>>>>>, <<"", <<HighStreet, <<"MARLOW">>>>>>}
AsListedByName == {<<"rectory", <<Rectory, HighStreet>>>>, <<"cottage", <<Cottage, HighStreet>>>>,
                   <<"one of rectory", <<FlatOne, Rectory, HighStreet>>>>,
                   <<"one of cottage", <<FlatOne, Cottage, HighStreet>>>>}
Registers(rows) == {SelectSeq(rows, LAMBDA r : r \in chosen) : chosen \in SUBSET {rows[i] : i \in DOMAIN rows}}
SearchesOf(listed, rows) == {[dwelling |-> l[1], address |-> l[2], rows |-> r] : l \in listed, r \in Registers(rows)}
SomeSearches == SearchesOf(AsListed, ByNumber) \cup SearchesOf(AsListedByName, ByName)
LetteredNumbers == "2A" :> "2"
SomeRoads == {HighStreet}
SomeBegins == {<<"brent", "brentwood">>}
SomeRenamed == "wycombe" :> "buckinghamshire"
SomeBuildings == [d \in {"two", "one of two", "two a"} |-> "2"] @@ [d \in {"rectory", "one of rectory"} |-> "rectory"]
    @@ [d \in {"cottage", "one of cottage"} |-> "cottage"] @@ [d \in {"twelve"} |-> "12"] @@ [d \in {"two of one"} |-> "1"] @@ [d \in {""} |-> ""]
SomeRates == [c \in {"woking", "brentwood", "buckinghamshire", "London boroughs"} |-> 0]

-----------------------------------------------------------------------------
\* Questions to the tables: places, schools, car parks and buses.
Outcode == ("SL6 1AA" :> "SL6") @@ ("SW20 9NB" :> "SW20")
PlacePostcodes == {"", "SL6", "SW20", "SL6 1AA", "SW20 9NB"}
Places == {[kind |-> "place", address |-> address, postcode |-> postcode, measured |-> measured, estimated |-> estimated,
            google |-> google, ors |-> ors, nominatim |-> nominatim, postcodes |-> postcodes] :
             address \in {<<>>, <<"road">>, <<"road", "SW20">>, <<"SW20", "road", "SL6 1AA">>, <<"SL6", "road">>},
             postcode \in PlacePostcodes, measured \in BOOLEAN, estimated \in BOOLEAN,
             google \in {"point", "none", "retry"}, ors \in {"none", "retry"},
             nominatim \in {"point", "none"}, postcodes \in {"point", "none", "retry"}}

School(truly, phase, type, gender) ==
    [name |-> "school", phase |-> phase, type |-> type, gender |-> gender, truly |-> truly,
     low |-> NoAnswer, high |-> NoAnswer, corrected |-> truly, rough |-> truly, gap |-> 0]
Schools ==
    << School(2, "primary", "community school", "mixed"), School(3, "all-through", "academy", "girls"),
       School(1, "other", "community special school", "mixed"), School(1, "all-through", "independent school", "mixed"),
       [School(9, "secondary", "academy", "mixed") EXCEPT !.rough = NoAnswer],
       [School(4, "other", "academy", "mixed") EXCEPT !.low = 4, !.high = 12],
       [School(1, "secondary", "academy", "mixed") EXCEPT !.corrected = NoAnswer],
       [School(4, "primary", "academy", "mixed") EXCEPT !.corrected = 1, !.gap = 150],
       [School(12, "primary", "academy", "mixed") EXCEPT !.corrected = 1, !.gap = 100] >>
SchoolQuestions == {[kind |-> "school", acceptable |-> acceptable, schools |-> schools] :
                      acceptable \in {{"mixed"}, {"mixed", "girls"}}, schools \in Registers(Schools)}

At(name, crs) == [name |-> name, crs |-> crs]
Stations == {At("fleet", 1), At("marlow", 2), At("reading", 3)}
FileRows == <<ParkRow("fleet", 1, 5, "front"), ParkRow("fleet", 0, 6, "back"), ParkRow("marlow", 0, NoAnswer, "river"),
             ParkRow("", 2, 7, "old"), ParkRow("reading", 3, 9, "multi")>>
ParkingQuestions == {[kind |-> "parking", rows |-> rows, station |-> station, price |-> price,
                      others |-> Stations \ {station}] :
                       rows \in Registers(FileRows), station \in Stations, price \in {NoAnswer, 0, 12}}

Op(stops, fares) == [stops |-> SelectSeq(<<"high st", "mill", "station">>, LAMBDA s : s \in DOMAIN stops), zones |-> stops, fares |-> fares]
Tickets == {<< >>, "single" :> 2, ("single" :> 4) @@ ("return" :> 5), ("day" :> 3) @@ ("return" :> 9)}
Operators == {Op(stops, (<<"z1", "z2">> :> fares)) : fares \in Tickets,
                stops \in {("high st" :> "z1") @@ ("station" :> "z2"), ("mill" :> "z1") @@ ("station" :> "z2"),
                           "high st" :> "z2", ("station" :> "z1") @@ ("high st" :> "z2")}}
Stop(at, name, alike, near) == [at |-> at, name |-> name, alike |-> alike, near |-> near]
BusQuestions == {[kind |-> "bus", ops |-> ops, dep |-> dep, arr |-> arr] :
                   ops \in Operators \X Operators,
                   dep \in {Stop("high st", "high st", {"high st"}, "high st"), Stop("high st", "hi", {"high st"}, "high st"),
                            Stop("high st", "?", {}, "high st")},
                   arr \in {Stop("station", "station", {"station"}, "station"), Stop("station", "stn", {"station"}, "station"),
                            Stop("station", "?", {}, "station"), Stop("nowhere", "?", {}, "nowhere")}}
SomeLookups == Places \cup SchoolQuestions \cup ParkingQuestions \cup BusQuestions

-----------------------------------------------------------------------------
\* Two inputs and three nodes, of every kind and wired in every way that matters.
First == {SumOf(<<1, 2>>, FALSE), SumOf(<<1>>, TRUE), FirstValued(<<1, 2>>), IfThenElse(1, 2, 0)}
Second == {SumOf(<<3, 2>>, FALSE), SumOf(<<3>>, TRUE), FirstValued(<<3, 2>>), FirstValued(<<2, 3>>),
           IfThenElse(1, 3, 2), IfThenElse(3, 2, 1), IfThenElse(2, 3, 0)}
Third == {SumOf(<<3, 4>>, FALSE), FirstValued(<<4, 3>>), FirstValued(<<4, 1>>), IfThenElse(4, 3, 1),
          IfThenElse(1, 4, 3), SumOf(<<4>>, TRUE)}
Programs ==
    LET Calls(c, m, f, h) == [compute |-> c, method |-> m, helper |-> f, shared |-> h]
        Some == {{}, {"helper"}, {"shared"}}
    IN  {[is |-> "program", plain |-> Calls(p, m, f, {}), qualified |-> Calls(q, {}, {}, x),
          own |-> Calls(o, {}, {}, {}), bound |-> b] : b \in {{}, {"shared"}},
            p \in Some, q \in {{}, {"shared"}}, o \in {{}, {"method"}}, m \in Some,
            f \in {{}, {"shared"}}, x \in {{}, {"helper"}}}
SomeGraphs == Programs \cup
    {[is |-> "graph", nodes |-> <<Input, Input, a, b, c>>] : a \in First, b \in Second, c \in Third}

-----------------------------------------------------------------------------
\* Areas: every set of the cells of a small grid in three orders, stations all over it, and
\* driving times with the shapes that outlines get wrong - holes, corners, satellites.
Backwards(s) == [i \in DOMAIN s |-> s[Len(s) + 1 - i]]
Shuffled(s) == [i \in DOMAIN s |-> s[((5 * i) % Len(s)) + 1]]
Orders(g) == {CellList(g), Backwards(CellList(g)), Shuffled(CellList(g))}
Small == Grid(0, 0, 12, 10)
Unions == [is : {"cells"}, grid : {Small}, cells : SUBSET CellsOf(Small), listing : Orders(Small)]
StationSets == [is : {"stations"}, grid : {Small}, stations : {{p, q} : p \in (0..12) \X (0..10), q \in {<<1, 1>>, <<7, 6>>}},
                buffer : {1, 3, 4, 5}]

DriveTo(g, near, noRoad) ==
    [is |-> "drive", grid |-> g, threshold |-> 10, listing |-> CellList(g),
     time |-> [c \in CellsOf(g) |-> IF c \in near THEN 10 ELSE IF c \in noRoad THEN NoRoad ELSE 30]]
Large == Grid(0, 0, 16, 16)
Ring == CellsOf(Large) \ {<<1, 1>>, <<2, 2>>}
TwoSquares == {<<0, 0>>, <<0, 1>>, <<1, 0>>, <<1, 1>>, <<2, 2>>, <<2, 3>>, <<3, 2>>, <<3, 3>>}
Shapes == {Ring, Ring \ {<<0, 0>>}, Ring \ {<<0, 1>>}, Ring \ {<<0, 1>>, <<3, 2>>}, TwoSquares, TwoSquares \ {<<1, 1>>},
           {<<2, 2>>}, CellsOf(Large)}
DriveAreasTried == {DriveTo(Small, near, noRoad) : near \in SUBSET CellsOf(Small), noRoad \in {{}, {<<1, 1>>}}}
                     \cup {DriveTo(Large, near, {}) : near \in Shapes}

Middles == {{}} \cup {{<<1, 1>>} \cup around : around \in SUBSET {<<0, 1>>, <<1, 0>>, <<2, 1>>, <<2, 2>>}}
Hers == {DriveTo(Small, near, {}) : near \in Middles \cup {CellsOf(Small) \ {<<1, 1>>}}}
His == {DriveTo(g, near, {}) : near \in Middles, g \in {Grid(4, 2, 12, 10), Grid(-6, 20, 12, 10)}}
CommonAreas == {[is |-> "all", drives |-> {her, his}, stations |-> stations, buffer |-> 3] :
                  her \in Hers, his \in His, stations \in {{<<6, 6>>}, {<<4, 9>>, <<12, 2>>}, {}}}
SomeAreas == Unions \cup StationSets \cup DriveAreasTried \cup CommonAreas

-----------------------------------------------------------------------------
\* Stations: one that is near, one in reach of an office, one that TfL only knows by name, one
\* that it takes for another place, and one outside the box.
Times(p, a) == [pimlico |-> p, aldgate |-> a]
SomeMinutes == [near |-> Times(5, 6), mid |-> Times(50, 95), named |-> Times(NoRoute, NoRoute),
                mistaken |-> Times(10, 99), outside |-> Times(1, 1)]
SomeMinutesByName == [SomeMinutes EXCEPT !["named"] = Times(70, NoRoute), !["mid"] = Times(62, 95)]
SomeFloors == [place \in DOMAIN SomeMinutes |-> IF place = "mistaken" THEN Times(30, 30) ELSE Times(1, 1)]
\* TfL answers, fails for one office (the only one that "named" can be reached from), or fails
\* for that office asked by coordinates.
SomeOutages == {{}, {"pimlico"} \X {"coordinates", "name"}, {<<"pimlico", "coordinates">>}}
St(crs, place) == [crs |-> crs, place |-> place]
OneList == <<St("A", "mid"), St("B", "near"), St("C", "named"), St("D", "mistaken")>>
SomeLists == {OneList, <<St("A", "mid"), St("C", "mistaken"), St("B", "near"), St("D", "outside")>>,
              <<St("C", "named"), St("D", "outside")>>}

OneSetting == [default |-> 60, own |-> [dad |-> NotSet, gran |-> NotSet]]
SomeDriveSettings == {OneSetting, [OneSetting EXCEPT !.own.gran = 90], [default |-> 90, own |-> [dad |-> NotSet]]}

-----------------------------------------------------------------------------
\* Tables of the previous artifact: a persons row, estimates, a route whose place is called like a
\* person, older versions, and damaged blobs; and what the new artifact appends to them.
Who(who, label) == [who |-> who, label |-> label]
OldRow(node, dep, says, tree, stamp) ==
    [node |-> node, dep |-> dep, stamp |-> stamp, blob |-> [says |-> says, tree |-> tree], cols |-> [says |-> Null, tree |-> Null]]
Named(name, id) == [name |-> name, id |-> id]
PersonsRow(people, stamp) == OldRow(Who(NoOne, "persons"), Who(NoOne, "none"), people, Null, stamp)
WorksRow(pairs) == OldRow(Who(NoOne, "works"), Who(NoOne, "none"), pairs, Null, 1)
RouteRow(who, dep, says) == OldRow(Who(who, "Gran"), Who(dep, "walk"), says, "tree", 1)
Peoples == {<<Named("Gran", ""), Named("Simon", "")>>, <<Named("Simon", ""), Named("Gran", "2"), Named("walk", "")>>}
Estimates == {<<<<"Simon", 5>>, <<"gran", 7>>>>, <<<<"Simon", 5>>, <<"2", 3>>, <<"simon", 7>>>>, Unreadable}
OldTablesTried ==
    {<<PersonsRow(people, 1), WorksRow(pairs), RouteRow(who, dep, says), RouteRow("simon", "2", "min")>> :
        people \in Peoples, pairs \in Estimates, who \in {"Gran", NoOne}, dep \in {"Simon", NoOne}, says \in {"km", Unreadable}}
      \cup {<<PersonsRow(<<>>, 1), WorksRow(<<>>)>>, <<WorksRow(<<<<"Simon", 5>>>>)>>,
            <<PersonsRow(<<Named("Simon", "")>>, 2), PersonsRow(<<Named("Gran", "")>>, 1), WorksRow(<<<<"Simon", 5>>>>)>>}
NewRowsTried ==
    {[node |-> Who("simon", "Gran"), dep |-> Who("gran", "walk"), says |-> "new km", tree |-> "new tree", stamp |-> 3],
     [node |-> Who(NoOne, "works"), dep |-> Who(NoOne, "none"), says |-> <<<<"Simon", 5>>, <<"simon", 6>>>>, tree |-> Null, stamp |-> 3]}
SlugsTried == ("Simon" :> "simon") @@ ("Gran" :> "gran") @@ ("walk" :> "walk")
IdsTried == <<"1", "2", "3", "4", "5">>
ManifestsTried == {<<"persons", "split">>, <<"split">>, <<"split", "split">>, <<>>}
OneTable == [rows |-> <<PersonsRow(<<>>, 1), WorksRow(<<>>)>>, split |-> FALSE, legacy |-> TRUE]

-----------------------------------------------------------------------------
\* Expressions as the nodes write them, over operands in every state; and errors with causes.
Money(core) == Amount(core, "money", FALSE)
About(core, spread) == Amount(core, "measurement", spread)
Operands == {Success(Money(6)), Success(Money(0)), Success(About(6, TRUE)), Success(About(0, TRUE)), Success(About(4, FALSE)),
             Caught("dep failed", "503"), NotYet, [is |-> "absent"], [is |-> "asynchronous"]}
Journeys == {Success(Money(6)), Success(Amount(0, "no route", FALSE)), Caught("no fare", "plain"), NotYet, Success(About(5, TRUE))}
Lit(value) == [kind |-> "literal", value |-> value]
RefTo(attempt) == [kind |-> "ref", attempt |-> attempt]
Do(kind, args) == [kind |-> kind, args |-> args]
When(condition, args) == [kind |-> "if", condition |-> condition, args |-> args]
Zero == Lit(Money(0))
Conditions == {"true", "false", "fails"}
Steps(shape) == [is |-> "steps", steps |-> shape]
MonthlyTotal(a, b, c, condition) == \* mortgage + (council tax, if any, by the month) - rent
    <<RefTo(a), RefTo(b), Do("attr", <<2>>), Lit(Money(12)), Do("div", <<3, 4>>), Zero, When(condition, <<5, 6>>),
      Do("add", <<1, 7>>), RefTo(c), Do("sub", <<8, 9>>)>>
Twice(kind, a, b, c) == <<RefTo(a), RefTo(b), RefTo(c), Do(kind, <<1, 2>>), Do("add", <<4, 3>>)>>
FormulasTried ==
    {Steps(MonthlyTotal(a, b, c, condition)) : a \in Operands, b \in Operands \cup {Success(Amount(0, "nothing", FALSE))},
        c \in {Success(Money(1)), Success(About(2, TRUE)), NotYet}, condition \in Conditions}
      \cup {Steps(Twice(kind, a, b, c)) : kind \in {"add", "sub", "mul", "div"}, a \in Operands, b \in Operands, c \in Operands}
      \cup {Steps(<<RefTo(a), RefTo(b), Do("negate", <<1>>), When(condition, <<3, 2>>), Do("add", <<4, 1, 2>>)>>) :
              a \in Operands, b \in Operands, condition \in Conditions}
      \cup {Steps(<<RefTo(a), RefTo(b), RefTo(c), [kind |-> "choose", selector |-> s, args |-> <<1, 2, 3>>]>>) :
              a \in Journeys, b \in Journeys, c \in Journeys, s \in {"fastest", "fails"}}
      \cup {[is |-> "error", error |-> Error(m, u, x, causes)] : m \in {"dep failed: node", "no fare"}, u \in {"", "sorry"}, x \in {"", "503", "quota"},
              causes \in {<<>>} \cup {<<Error("dep failed: node", v, "503", inner), Error("no fare", "", "", <<>>)>> :
                 v \in {"", "busy"}, inner \in {<<>>, <<Error("no fare", "", "plain", <<>>)>>}}}
InternalTexts == {"dep failed", "dep failed: node", "alternative"}

-----------------------------------------------------------------------------
\* What the bus operators publish: three stops in two zones, one of which is left by its own
\* side, and prices in the four places where a file may state them.
Side(n, side) == [n |-> n, side |-> side]
FirstZone == Side(1, "boarding")
SecondZone == Side(2, "boarding")
SecondLeft == Side(2, "alighting")
BusStop(id, name, at) == [id |-> id, name |-> name, at |-> at]
FareZone(id, members, texts) == [id |-> id, members |-> members, texts |-> texts]
Element(id, from, to, refs, group) ==
    [id |-> id, from |-> from, to |-> to, refs |-> refs, group |-> group, sold |-> {}, offered |-> {}]
TwoStops == <<BusStop("s1", "high st", "unknown"), BusStop("s2", "station", "near")>>
TwoZones == <<FareZone(FirstZone, <<"s1">>, {"high st"}), FareZone(SecondZone, <<"s2">>, {"station"})>>
WholeTown == FareZone(Side(3, "boarding"), <<"s1", "s2">>, {"high st", "station", "mill"})
FareFile == [stops |-> TwoStops, zones |-> TwoZones, elements |-> <<Element("e", FirstZone, SecondLeft, "Zone", 4)>>,
             prices |-> <<>>, products |-> <<>>, tariff |-> <<>>]
PriceOf(of, product, price) == [of |-> of, product |-> product, price |-> price]
Priced5 == <<PriceOf("e", "", 5), PriceOf("e", "", 6), PriceOf("?", "", 1)>>
\* The id of the second product contains that of the first.
Product(kind, price) == [id |-> "p", contains |-> {}, kind |-> kind, price |-> price]
Longer(kind) == [id |-> "pass", contains |-> {"p"}, kind |-> kind, price |-> 3]
PricedFiles == {[FareFile EXCEPT !.elements = <<[Element("e", FirstZone, SecondLeft, refs, group) EXCEPT !.sold = sold, !.offered = offered]>>,
                   !.zones = TwoZones \o <<WholeTown>>, !.prices = prices, !.products = products, !.tariff = tariff] :
                 refs \in {"Tariff", "Zone", "zone"}, group \in {NoPrice, 4}, sold \in {{}, {"p"}}, offered \in {{}, {"p"}},
                 prices \in {<<>>, Priced5, <<PriceOf("", "p", 8)>>, <<PriceOf("e", "p", 9), PriceOf("?", "p", 2)>>, Priced5 \o <<PriceOf("e", "p", 9)>>},
                 products \in {<<Product(k, 7)>> : k \in {"single", "day", "other"}} \cup {<<Product("day", NoPrice), Longer("return")>>},
                 tariff \in {<<WholeTown.id, FirstZone>>, <<FirstZone, WholeTown.id>>}}
ZonedFiles == {[FareFile EXCEPT !.stops = stops, !.zones = zones, !.elements = elements] :
                 stops \in {TwoStops, TwoStops \o <<BusStop("s3", "high st", "far"), BusStop("s2", "mill", "far")>>,
                            <<BusStop("s1", "high st", "far")>>, <<BusStop("s2", "station", "unknown")>>, <<>>},
                 zones \in {TwoZones, <<FareZone(SecondZone, <<"s1", "s3">>, {}), FareZone(SecondLeft, <<"s2">>, {})>> \o TwoZones,
                            <<FareZone(FirstZone, <<"s2", "s3", "?">>, {})>>},
                 elements \in {<<>>, FareFile.elements, <<Element("e", SecondZone, FirstZone, "zone", 3)>> \o FareFile.elements}}
SomeExtractions ==
    {<<<<file>>>> : file \in PricedFiles}
    \cup {<<<<file, other>>, <<other>>>> : file \in ZonedFiles, other \in ZonedFiles}
    \cup {<<<<file, other>>, <<file>>>> : file \in {f \in PricedFiles : f.elements[1].refs # "Tariff" /\ f.prices = <<>>}, other \in {f \in ZonedFiles : f.stops = TwoStops}}

-----------------------------------------------------------------------------
\* A property with the destinations of two adults and a child, every edit of the endpoints, and
\* openings with inputs that are missing or failed and lookups that fail.
Leads(key, person, stage, car, modes) == [key |-> key, person |-> person, stage |-> stage, car |-> car, modes |-> modes]
SomePipelines == <<Leads("office", "ann", "none", TRUE, {}), Leads("lab", "ann", "none", TRUE, {"transit"}),
                   Leads("club", "bob", "none", FALSE, {"walk", "transit"}), Leads("school", "kim", "primary_school", FALSE, {}),
                   Leads("swimming", "kim", "neither", FALSE, {})>>
SomeSteady == {{}, OfHouseAll({"best_location"}), OfHouseAll({"nearest_town"}), OfHouseAll({"best_location", "postcode"})}
SomeEdits == {e \in Edits : Cardinality(e.facets) < 3 \/ \E q \in AllPersons : e.facets = FacetsOf(q)}
EditsTried == [is : {"edit"}, edit : SomeEdits, steady : SomeSteady]
Sourced == OfHouseAll({"rightmove_address", "rightmove_price", "rightmove_location", "corrected_address", "precise_location"})
FailSets == {{}, Enrichments, OfHouseAll({"geocode"}), OfHouseAll({"total_works"}), OfHouseAll({"primary_school"}),
             {<<"office", "tfl_no_bus">>}, {<<"office", "bus_route">>}, {<<"club", "rail_fare">>}}
Manner(chosen, far, postcode, current) == [chosen |-> chosen, farToWalk |-> far, postcode |-> postcode, current |-> current]
Manners == {Manner("drive", FALSE, FALSE, TRUE), Manner("priced transit", FALSE, TRUE, TRUE),
            Manner("unpriced transit", TRUE, TRUE, FALSE), Manner("unpriced transit", FALSE, FALSE, TRUE)}
OpeningsTried == {m @@ [is |-> "opening", given |-> given, failed |-> failed, fails |-> fails] :
                    m \in Manners, given \in SUBSET Sourced, failed \in {{}, ScrapedInputs}, fails \in FailSets}
SomeGraphCases == EditsTried \cup OpeningsTried

-----------------------------------------------------------------------------
\* What TfL knows of a journey, with the disk as it may have been left: empty, with outages of
\* either shape, or with answers; then responses and moments.
Knows(named, station, stop, point) ==
    "named" :> named @@ "station" :> station @@ "stop" :> stop @@ "point" :> point @@ "fare" :> named
LeftOn(truth, named, others) == [truth |-> truth, file |-> [k \in TflKeys |-> IF k = "named" THEN named ELSE others]]
Plain == {Knows(named, "none", "none", "none") : named \in {"route", "none"}}
Ambiguous == {Knows("several", "listed", "route", "several"), Knows("several", "none", "none", "route")}
SomeWorlds == {LeftOn(truth, Absent, Absent) : truth \in Plain \cup Ambiguous}
    \cup {LeftOn(truth, KeptAs(truth["named"]), Entry("envelope", "busy")) : truth \in Ambiguous}
    \cup {LeftOn(Knows("route", "none", "none", "none"), Entry("bare", "busy"), Entry("envelope", "refused")),
          LeftOn(Knows("none", "none", "none", "none"), Entry("bare", "none"), Absent),
          LeftOn(Knows("empty", "none", "none", "none"), Entry("envelope", "refused"), Absent)}

Block(text) == [says |-> text]
RawLeg == [mode |-> Block("tube"), duration |-> 7, departurePoint |-> Block("bank"), arrivalPoint |-> Block("oval"),
           route |-> Block("northern"), instruction |-> Block("northern line to oval")]
RawFare(total, rows) == [totalCost |-> total, fares |-> rows]
RawJourney(duration, legs, fare) == [duration |-> duration, legs |-> legs, fare |-> fare]
RawOption(parameter, place) == [parameterValue |-> parameter, place |-> place]
RawPlace(kind, modes) == [placeType |-> kind, modes |-> modes]
RawLegs == {Missing, <<>>, <<RawLeg, [RawLeg EXCEPT !.mode = Missing, !.route = EmptyBlock]>>,
            <<[RawLeg EXCEPT !.mode = EmptyBlock, !.duration = Missing, !.instruction = Missing]>>}
RawJourneys == {RawJourney(duration, legs, fare) : duration \in {Missing, 20, 30}, legs \in RawLegs,
                  fare \in {Missing, <<>>, RawFare(Missing, Missing), RawFare(280, <<>>), RawFare(310, <<<<"tube", 310>>>>)}}
RawOptions == {Missing, <<>>, <<RawOption("street", RawPlace("Address", <<>>))>>,
               <<RawOption("bus", RawPlace("StopPoint", <<"bus">>)), RawOption("rail", RawPlace("StopPoint", <<"bus", "national-rail">>)),
                 RawOption(Missing, Missing), RawOption("other rail", RawPlace("StopPoint", <<"national-rail">>))>>}
Response(type, journeys, options) == [is |-> "response", body |-> [type |-> type, journeys |-> journeys, options |-> options]]
SomeWireCases ==
    {Response(type, journeys, options) : type \in {Missing, "Disambiguation"}, journeys \in {Missing, <<>>}, options \in RawOptions}
    \cup {Response("Itinerary", <<a, b>>, Missing) : a \in RawJourneys, b \in {j \in RawJourneys : j.legs = <<>>}}
    \cup {[is |-> "moment", day |-> day, hour |-> hour] : day \in 0..6, hour \in {0, 8, 9, 23}}

-----------------------------------------------------------------------------
\* Each calculation is tried on its own, and so are the batches.
Unpicked == household = NoHousehold /\ trip = NoTrip /\ search = NoSearch /\ lookup = NoLookup /\ graph = NoGraph /\ area = NoArea /\ formula = NoFormula
    /\ extraction = NoExtraction /\ graphCase = NoGraphCase /\ wire = NoWireCase
ShedAtRest == batch = NoBatch /\ csv = OneList /\ config = 60 /\ shed = NoShed /\ halved = {}
DriveAtRest == DriveInit /\ settings = OneSetting /\ places["dad"] = 1 /\ places["gran"] = 1
TableAtRest == table = OneTable /\ manifest = <<>> /\ MigrationInit
Untouched == Unpicked /\ TflRest /\ ShedAtRest /\ DriveAtRest /\ TableAtRest
Init ==
    /\ Unpicked
    /\ \/ ShedInit /\ DriveAtRest /\ TableAtRest /\ TflRest
       \/ ShedAtRest /\ DriveInit /\ places["gran"] = 1 /\ TableAtRest /\ TflRest
       \/ ShedAtRest /\ DriveAtRest /\ MigrationInit /\ TflRest
       \/ ShedAtRest /\ DriveAtRest /\ TableAtRest /\ TflInit
batches == <<csv, config, shed, batch, halved, settings, places, disk, run, job, migrationVars, tflVars>>
picked == <<household, trip, search, lookup, graph, area, formula, extraction, graphCase, wire>>
PickHousehold == Untouched /\ household' \in Households /\ UNCHANGED <<trip, search, lookup, graph, area, formula, extraction, graphCase, wire, batches>>
PickTrip == Untouched /\ trip' \in Trips /\ UNCHANGED <<household, search, lookup, graph, area, formula, extraction, graphCase, wire, batches>>
PickSearch == Untouched /\ search' \in Searches /\ UNCHANGED <<household, trip, lookup, graph, area, formula, extraction, graphCase, wire, batches>>
PickLookup == Untouched /\ lookup' \in Lookups /\ UNCHANGED <<household, trip, search, graph, area, formula, extraction, graphCase, wire, batches>>
PickGraph == Untouched /\ graph' \in Graphs /\ UNCHANGED <<household, trip, search, lookup, area, formula, extraction, graphCase, wire, batches>>
PickArea == Untouched /\ area' \in Areas /\ UNCHANGED <<household, trip, search, lookup, graph, formula, extraction, graphCase, wire, batches>>
PickFormula == Untouched /\ formula' \in Formulas /\ UNCHANGED <<household, trip, search, lookup, graph, area, extraction, graphCase, wire, batches>>
PickExtraction == Untouched /\ extraction' \in Extractions /\ UNCHANGED <<household, trip, search, lookup, graph, area, formula, graphCase, wire, batches>>
PickGraphCase == Untouched /\ graphCase' \in GraphCases /\ UNCHANGED <<household, trip, search, lookup, graph, area, formula, extraction, wire, batches>>
PickWire == Untouched /\ wire' \in WireCases /\ UNCHANGED <<household, trip, search, lookup, graph, area, formula, extraction, graphCase, batches>>
StepShed == Unpicked /\ TflRest /\ DriveAtRest /\ TableAtRest /\ ShedNext /\ UNCHANGED <<picked, driveVars, migrationVars, tflVars>>
StepDrive == Unpicked /\ TflRest /\ ShedAtRest /\ TableAtRest /\ DriveNext /\ UNCHANGED <<picked, shedVars, migrationVars, tflVars>>
StepMigration == Unpicked /\ TflRest /\ ShedAtRest /\ DriveAtRest /\ MigrationNext /\ UNCHANGED <<picked, shedVars, driveVars, tflVars>>
StepTfl == Unpicked /\ ShedAtRest /\ DriveAtRest /\ TableAtRest /\ TflNext /\ UNCHANGED <<picked, shedVars, driveVars, migrationVars>>
Next ==
    \/ PickHousehold \/ PickTrip \/ PickSearch \/ PickLookup \/ PickGraph \/ PickArea \/ PickFormula \/ PickExtraction \/ PickGraphCase \/ PickWire
    \/ StepShed \/ StepDrive \/ StepMigration \/ StepTfl
Spec == Init /\ [][Next]_<<picked, batches>>

\* What a lookup says of a property is that property's: the entries of the registers (council
\* tax, energy), the answers of the tables (places, schools, car parks, buses) and of TfL.
LookupsHold == FactsAreOwn /\ LookupsAnswer /\ CallsAnswer

\* The batches behind the search areas, killed and resumed in any order, end with the files
\* that one uninterrupted run under the present settings would write -- but for the stations of
\* which TfL answered some questions while others failed.
BatchesAgree == ShedIsCurrent /\ CommuteFilesAgree

\* A graph of nodes comes to what computing it afresh would, and a property's graph follows every
\* edit at no more than its cost and settles when it is opened.
GraphsAgree == EvaluationsAgree /\ EditsAreScoped /\ OpeningSettles
=============================================================================
