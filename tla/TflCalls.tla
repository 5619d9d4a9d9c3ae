------------------------------- MODULE TflCalls -------------------------------
(***************************************************************************)
(* The calls of houses/tfl_client.py to TfL's journey planner: a journey   *)
(* for a commute (plan), a duration for the search areas (route_duration)  *)
(* and a fare for the tube (get_tube_leg_fare).  They share the cache on   *)
(* disk, which an older version may have left with outages in it, and      *)
(* interleave where the code awaits: before the transport, on the wire,    *)
(* before another try and while an address is looked up.                   *)
(***************************************************************************)
EXTENDS Integers, Sequences, FiniteSets, FiniteSetsExt

CONSTANTS
    TflCallers,    \* coroutines
    TflUses,       \* what they call: a subset of {"plan", "duration", "fare"}
    TflWorlds,     \* what TfL knows, for each key, and what the disk holds at first
    TflFailures,   \* how TfL may fail: a subset of {"busy", "refused", "network", "garbled"}
    MaxUses,       \* bound: calls in a behaviour
    WireCases,     \* responses to be read, written and read again, and moments to plan for
    NoWireCase,
    Missing        \* a key the response does not have, or a value it leaves open

VARIABLES
    tflTruth,   \* what TfL knows: key -> answer, and ("station") whether a station is an option
    tflFile,    \* the cache on disk: key -> entry
    tflCall,    \* the coroutines
    tflAsked,   \* history: the keys that have been looked up
    tflTold,    \* history: how often TfL has said what it knows, by key
    tflUsed,    \* history: calls so far
    wire        \* a response to be read, or a moment to plan for
tflVars == <<tflTruth, tflFile, tflCall, tflAsked, tflTold, tflUsed>>

\* The origin as it was given, the station among the options of a 300 body, the coordinates of
\* the address, and the other request, for a fare.
TflKeys == {"named", "stop", "point", "fare"}

(***************************************************************************)
(* "route": 200 with journeys.  "empty": 200 without.  "several": 300, the *)
(* origin is ambiguous.  "none": 404.  "busy": 429 or 5xx.  "refused": 401,*)
(* 403 or 409.  "network": no response.  "garbled": a body that is not     *)
(* JSON.  A body is kept as it is or in an envelope with its status.       *)
(***************************************************************************)
Entry(shape, says) == [shape |-> shape, says |-> says]
Absent == Entry("absent", "none")

\* What the planner answers is kept: 2xx bare, 3xx and 404 in an envelope.
KeptAs(says) == Entry(IF says \in {"route", "empty"} THEN "bare" ELSE "envelope", says)

\* Mutant of Poisoned: only a body in an envelope is looked into.
PoisonedEnvelope(entry) == entry.shape = "envelope" /\ entry.says \in {"busy", "refused"}

\* _is_transient_error_body, and the same rule in the transport
Poisoned(entry) == entry # Absent /\ entry.says \in {"busy", "refused"}

\* A 404 body without envelope has lost its status: it reads as a response without journeys.
Served(entry) == IF entry = Entry("bare", "none") THEN "empty" ELSE entry.says

AtRest == [use |-> "none", key |-> "named", pc |-> "idle", tries |-> 0, failures |-> 0,
           last |-> "nothing", out |-> "nothing"]
TflRest == /\ tflUsed = 0 /\ tflAsked = {} /\ tflTold = [k \in TflKeys |-> 0]
           /\ tflTruth = [k \in TflKeys \cup {"station"} |-> "none"]
           /\ tflFile = [k \in TflKeys |-> Absent]
           /\ tflCall = [c \in TflCallers |-> AtRest]
TflInit == /\ \E world \in TflWorlds : tflTruth = world.truth /\ tflFile = world.file
           /\ tflCall = [c \in TflCallers |-> AtRest]
           /\ tflAsked = {} /\ tflTold = [k \in TflKeys |-> 0] /\ tflUsed = 0

-----------------------------------------------------------------------------
(***************************************************************************)
(* What each use makes of an answer.                                       *)
(***************************************************************************)
Done(call, out) == [call EXCEPT !.pc = "idle", !.out = out]
AskFor(call, key) == [call EXCEPT !.pc = "asking", !.key = key, !.tries = 0, !.failures = 0, !.last = "nothing"]

\* _fetch_data: a 404 is a journey that cannot be made, any other error is raised.
TakePlanCatchesAll(call, says) == \* Mutant of TakePlan: every error is a journey that cannot be made.
    CASE says = "route" -> Done(call, "route")
      [] says = "several" /\ call.key = "named" -> [call EXCEPT !.pc = "geocoding"]
      [] OTHER -> Done(call, "no route")

TakePlan(call, says) ==
    CASE says = "route" -> Done(call, "route")
      [] says = "several" /\ call.key = "named" -> [call EXCEPT !.pc = "geocoding"]
      [] says \in TflFailures -> Done(call, "raised")
      [] OTHER -> Done(call, "no route")

\* _cached_with_retry: three tries, unless the error will not pass.
Tries == 3
TryAgain(call, says) == says \in {"busy", "network"} /\ call.tries + 1 < Tries

\* route_duration: the station among the options of an ambiguous origin is asked for instead.
TakeDuration(call, says) ==
    CASE TryAgain(call, says) -> [call EXCEPT !.pc = "asking", !.tries = @ + 1]
      [] says = "garbled" -> Done(call, "raised")
      [] says = "route" -> Done(call, "route")
      [] says = "several" /\ call.key = "named" /\ tflTruth.station = "listed" -> AskFor(call, "stop")
      [] OTHER -> Done(call, "excluded")

\* get_tube_leg_fare: a fare only where there is a route, and a 404 is none.
TakeFare(call, says) ==
    CASE says = "route" -> Done(call, "route")
      [] says \in TflFailures -> Done(call, "raised")
      [] OTHER -> Done(call, "no route")

Heard(call, says) == [call EXCEPT !.last = says, !.failures = IF says \in TflFailures THEN @ + 1 ELSE 0]
Taken(call, says) ==
    CASE call.use = "plan" -> TakePlan(call, says)
      [] call.use = "duration" -> TakeDuration(call, says)
      [] call.use = "fare" -> TakeFare(call, says)
Takes(c, says) == tflCall' = [tflCall EXCEPT ![c] = Taken(@, says)]
TakesFromWire(c, says) == tflCall' = [tflCall EXCEPT ![c] = Taken(Heard(@, says), says)]
GoesOn(c, pc) == tflCall' = [tflCall EXCEPT ![c].pc = pc]

-----------------------------------------------------------------------------
(***************************************************************************)
(* A call of the client.                                                   *)
(***************************************************************************)
BeginUse(c, use) ==
    /\ tflCall[c].pc = "idle" /\ tflUsed < MaxUses
    /\ tflUsed' = tflUsed + 1
    /\ tflCall' = [tflCall EXCEPT ![c] = [AskFor(AtRest, IF use = "fare" THEN "fare" ELSE "named") EXCEPT !.use = use]]
    /\ UNCHANGED <<tflTruth, tflFile, tflAsked, tflTold>>

\* _cached_api_call, up to its first await: the entry on disk answers, an outage in it is
\* dropped; otherwise the call waits for its turn.
CachedApiCall(c) ==
    LET key == tflCall[c].key
        entry == tflFile[key]
    IN  /\ tflCall[c].pc = "asking"
        /\ tflAsked' = tflAsked \cup {key}
        /\ IF entry = Absent \/ Poisoned(entry)
           THEN tflFile' = [tflFile EXCEPT ![key] = Absent] /\ GoesOn(c, "sent")
           ELSE Takes(c, Served(entry)) /\ UNCHANGED tflFile
        /\ UNCHANGED <<tflTruth, tflTold, tflUsed>>

\* CachingTransport: it looks again, since another coroutine may have been answered meanwhile;
\* what it serves is stored once more, in the shape of its status.
TransportLooks(c) ==
    LET key == tflCall[c].key
        entry == tflFile[key]
    IN  /\ tflCall[c].pc = "sent"
        /\ IF entry = Absent \/ Poisoned(entry)
           THEN tflFile' = [tflFile EXCEPT ![key] = Absent] /\ GoesOn(c, "wire")
           ELSE Takes(c, Served(entry)) /\ UNCHANGED tflFile
        /\ UNCHANGED <<tflTruth, tflAsked, tflTold, tflUsed>>

\* Mutant of PlannerAnswers: every answer is stored.
PlannerAnswersStored(c) ==
    LET key == tflCall[c].key IN
    /\ tflCall[c].pc = "wire"
    /\ \E says \in {tflTruth[key]} \cup TflFailures :
         /\ TakesFromWire(c, says)
         /\ tflFile' = [tflFile EXCEPT ![key] = KeptAs(says)]
         /\ tflTold' = IF says \in TflFailures THEN tflTold ELSE [tflTold EXCEPT ![key] = @ + 1]
    /\ UNCHANGED <<tflTruth, tflAsked, tflUsed>>

\* TfL says what it knows, and that is kept; or it fails, and nothing is.
PlannerAnswers(c) ==
    LET key == tflCall[c].key IN
    /\ tflCall[c].pc = "wire"
    /\ \/ /\ TakesFromWire(c, tflTruth[key])
          /\ tflFile' = [tflFile EXCEPT ![key] = KeptAs(tflTruth[key])]
          /\ tflTold' = [tflTold EXCEPT ![key] = @ + 1]
       \/ \E failure \in TflFailures : TakesFromWire(c, failure) /\ UNCHANGED <<tflFile, tflTold>>
    /\ UNCHANGED <<tflTruth, tflAsked, tflUsed>>

\* _geocode_fallback: the coordinates of an ambiguous origin; where neither the address nor its
\* postcode is found there is no journey, and a failure of the network is raised.
GeocodeFallback(c) ==
    /\ tflCall[c].pc = "geocoding"
    /\ tflCall' \in {[tflCall EXCEPT ![c] = AskFor(@, "point")], [tflCall EXCEPT ![c] = Done(@, "no route")],
                     [tflCall EXCEPT ![c] = Done(@, "raised")]}
    /\ UNCHANGED <<tflTruth, tflFile, tflAsked, tflTold, tflUsed>>

TflNext == \E c \in TflCallers :
    \/ \E use \in TflUses : BeginUse(c, use)
    \/ CachedApiCall(c) \/ TransportLooks(c) \/ PlannerAnswers(c) \/ GeocodeFallback(c)

-----------------------------------------------------------------------------
(***************************************************************************)
(* The records a response is read into.  A block ({"name": ...} and the    *)
(* like) is a record with one field, and may be missing or empty.          *)
(***************************************************************************)
EmptyBlock == [says |-> Missing]
ReadBlock(block, default) == IF block = Missing \/ block = EmptyBlock THEN default ELSE block.says
WriteBlock(value) == [says |-> value]

ReadFare(fare) == [total |-> fare.totalCost, rows |-> IF fare.fares = Missing THEN <<>> ELSE fare.fares]
WriteFare(fare) == [totalCost |-> fare.total, fares |-> fare.rows]

ReadLeg(raw) ==
    [mode |-> ReadBlock(raw.mode, Missing), duration |-> IF raw.duration = Missing THEN 0 ELSE raw.duration,
     from |-> ReadBlock(raw.departurePoint, ""), to |-> ReadBlock(raw.arrivalPoint, ""),
     route |-> ReadBlock(raw.route, ""), instruction |-> ReadBlock(raw.instruction, "")]
WriteLeg(leg) ==
    [mode |-> WriteBlock(leg.mode), duration |-> leg.duration, departurePoint |-> WriteBlock(leg.from),
     arrivalPoint |-> WriteBlock(leg.to), route |-> WriteBlock(leg.route), instruction |-> WriteBlock(leg.instruction)]

EachOf(s, F(_)) == [i \in DOMAIN s |-> F(s[i])]
ReadJourney(raw) ==
    [duration |-> raw.duration, legs |-> IF raw.legs = Missing THEN <<>> ELSE EachOf(raw.legs, ReadLeg),
     fare |-> IF raw.fare \in {Missing, <<>>} THEN Missing ELSE ReadFare(raw.fare)]
WriteJourney(journey) ==
    [duration |-> journey.duration, legs |-> EachOf(journey.legs, WriteLeg),
     fare |-> IF journey.fare = Missing THEN Missing ELSE WriteFare(journey.fare)]

\* An option of a 300 body: its parameter, and the kind and the modes of its place.
ReadOption(raw) ==
    [parameter |-> raw.parameterValue,
     kind |-> IF raw.place = Missing THEN Missing ELSE raw.place.placeType,
     modes |-> IF raw.place = Missing THEN <<>> ELSE raw.place.modes]
WriteOption(option) ==
    [parameterValue |-> option.parameter, place |-> [placeType |-> option.kind, modes |-> option.modes]]

ReadResponse(raw) ==
    [type |-> IF raw.type = Missing THEN "" ELSE raw.type,
     journeys |-> IF raw.journeys = Missing THEN <<>> ELSE EachOf(raw.journeys, ReadJourney),
     options |-> IF raw.options = Missing THEN Missing ELSE EachOf(raw.options, ReadOption)]
\* to_dict
WriteResponse(response) ==
    [type |-> IF response.type = "" THEN Missing ELSE response.type,
     journeys |-> EachOf(response.journeys, WriteJourney),
     options |-> IF response.options = Missing THEN Missing ELSE EachOf(response.options, WriteOption)]

\* _disambiguate_national_rail: the first stop among the options that trains call at.
StopModes(modes) == {modes[i] : i \in DOMAIN modes}
RailOptions(response) ==
    IF response.options = Missing THEN {}
    ELSE {i \in DOMAIN response.options : /\ response.options[i].kind = "StopPoint"
                                          /\ "national-rail" \in StopModes(response.options[i].modes)}
DisambiguateNationalRail(response) ==
    IF RailOptions(response) = {} THEN Missing ELSE response.options[Min(RailOptions(response))].parameter

\* _parse_tube_fare: the fare of the fastest journey, in pence; a journey whose duration is
\* left open is the slowest.
TimeOf(journey) == IF journey.duration = Missing THEN 9999 ELSE journey.duration
FastestOf(journeys) ==
    LET times == {TimeOf(journeys[i]) : i \in DOMAIN journeys} IN
    journeys[Min({i \in DOMAIN journeys : TimeOf(journeys[i]) = Min(times)})]
ParseTubeFare(response) ==
    IF response.journeys = <<>> THEN Missing
    ELSE LET fare == FastestOf(response.journeys).fare IN IF fare = Missing THEN Missing ELSE fare.total

\* _next_weekday_date_params: how many days from now the arrival at nine is planned for; Monday
\* is day 0.
IsWeekend(day) == day % 7 >= 5
MorningCutoffHour == 9
NextWeekdayFriday(day, hour) == \* Mutant of NextWeekday: one day of a weekend is skipped.
    IF ~IsWeekend(day) /\ hour < MorningCutoffHour THEN 0
    ELSE IF IsWeekend(day + 1) THEN 2 ELSE 1
NextWeekday(day, hour) ==
    IF ~IsWeekend(day) /\ hour < MorningCutoffHour THEN 0
    ELSE Min({ahead \in 1..3 : ~IsWeekend(day + ahead)})

-----------------------------------------------------------------------------
(***************************************************************************)
(* Properties of the calls.                                                *)
(***************************************************************************)
Ended(c) == tflCall[c].use # "none" /\ tflCall[c].pc = "idle"

\* What a call comes to is what TfL knows, however the disk was left and whoever was asking
\* beside it: a route is one, and a journey is given up, or a station excluded, only when TfL
\* has none, or after the three failures of that very call (tfl_client.py:791-794 "Retries are
\* genuine"); an error is raised only for one TfL, or the geocoder, has just made.
AnswersAreTfls ==
    \A c \in {d \in TflCallers : Ended(d)} :
        LET call == tflCall[c]
            known == tflTruth[call.key]
        IN  /\ call.out = "route" => known = "route"
            /\ call.out = "no route" => known # "route"
            /\ call.out = "excluded" /\ known = "route" => call.failures = Tries \/ call.last = "refused"
            /\ call.out = "raised" => \/ call.last \in TflFailures
                                      \/ call.use = "plan" /\ known = "several"

\* The disk holds no outage under a key that was ever looked up, and nothing TfL did not say
\* (tfl_client.py:845-849 "429/5xx are never cached, so retries stay genuine").
OutagesAreNotKept ==
    \A k \in TflKeys : /\ k \in tflAsked => ~Poisoned(tflFile[k])
                       /\ tflFile[k] # Absent /\ ~Poisoned(tflFile[k]) => tflFile[k].says = tflTruth[k]

\* TfL is not asked again for what it has said: only coroutines that were under way together
\* may each have had the answer (tfl_client.py:847-848 "re-hitting the endpoint for the same
\* impossible request wastes calls").
SaidOnce == \A k \in TflKeys :
    tflTold[k] <= Cardinality(TflCallers) /\ (tflTold[k] > 0 => tflFile[k] = KeptAs(tflTruth[k]))

\* Nothing a response says is lost on the way through the park-and-ride swap, which reads it as
\* the provider wrote it: neither a journey and its fare nor the options of an ambiguous name
\* (tfl_client.py:277-279 "reproduces the parsed fields for the park-and-ride round trip").
RoundTripLosesNothing ==
    wire # NoWireCase /\ wire.is = "response" =>
        \A read \in {ReadResponse(wire.body)} : \A again \in {ReadResponse(WriteResponse(read))} :
            /\ again = read
            /\ DisambiguateNationalRail(again) = DisambiguateNationalRail(read)
            /\ ParseTubeFare(again) = ParseTubeFare(read)

\* The fare taken is that of a journey no other beats, and the station that of an option that
\* is one.
ChosenFitly ==
    wire # NoWireCase /\ wire.is = "response" =>
        \A read \in {ReadResponse(wire.body)} :
            /\ ParseTubeFare(read) # Missing => \E i \in DOMAIN read.journeys :
                  /\ read.journeys[i].fare # Missing /\ read.journeys[i].fare.total = ParseTubeFare(read)
                  /\ \A j \in DOMAIN read.journeys : TimeOf(read.journeys[i]) <= TimeOf(read.journeys[j])
            /\ DisambiguateNationalRail(read) # Missing => \E i \in DOMAIN wire.body.options :
                  LET option == wire.body.options[i]
                  IN  /\ option.parameterValue = DisambiguateNationalRail(read)
                      /\ option.place # Missing /\ option.place.placeType = "StopPoint"

\* The morning planned for is the first one of a working week whose nine o'clock is to come.
MorningIsNext ==
    wire # NoWireCase /\ wire.is = "moment" =>
        LET ahead == NextWeekday(wire.day, wire.hour)
            ToCome(d) == ~IsWeekend(wire.day + d) /\ (d > 0 \/ wire.hour < 9)
        IN  ToCome(ahead) /\ \A d \in 0..6 : ToCome(d) => ahead <= d

\* What is shown of a journey is what the planner says of it, asked no more than it takes.
CallsAnswer == AnswersAreTfls /\ OutagesAreNotKept /\ SaidOnce /\ RoundTripLosesNothing /\ ChosenFitly /\ MorningIsNext
=============================================================================
