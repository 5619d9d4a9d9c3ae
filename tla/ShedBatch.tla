------------------------------ MODULE ShedBatch ------------------------------
(***************************************************************************)
(* The batch that asks TfL how long each station is from the two offices   *)
(* (tools/commute/station_shed.py).  It takes hours, so it writes what it  *)
(* has every few stations, and a later run resumes from the file - unless  *)
(* the settings changed - asking again only for what failed, is new or was *)
(* moved.                                                                  *)
(*                                                                         *)
(* A station is its code and its place; what TfL answers from a place, and *)
(* where a place lies, are constants.                                      *)
(***************************************************************************)
EXTENDS Integers, Sequences, FiniteSets
LOCAL INSTANCE SequencesExt

CONSTANTS
    Offices,
    Lists,            \* what stations.csv may hold, sequences of [crs, place]
    InBox, Inner,     \* places in the bounding box, and so near that nobody asks
    Minutes,          \* [place -> [office -> minutes or NoRoute]], asked by coordinates
    MinutesByName,    \* the same, asked by the name of the station
    Floors,           \* [place -> [office -> the shortest time that is possible]]
    ShedConfigs,          \* thresholds that the program may be built with
    NoRoute, NoShed,
    CheckpointEvery,
    Outages,          \* sets of questions that fail for a while: <<office, way of asking>>
    MaxRuns, MaxEdits \* bounds of the model

ASSUME ShedBatchAssumption == CheckpointEvery \in Nat \ {0} /\ Inner \subseteq InBox

VARIABLES
    csv, config,      \* stations.csv, the settings of the program
    shed,             \* station_shed.json
    batch,            \* the run
    halved            \* history: the records made of answers while other questions failed

shedVars == <<csv, config, shed, batch, halved>>

NoBatch == [at |-> "idle", runs |-> 0, edits |-> 0]
Codes(records) == {records[i].crs : i \in DOMAIN records}
Without(records, crs) == SelectSeq(records, LAMBDA r : r.crs # crs)

-----------------------------------------------------------------------------
\* origin_candidates in their order: the first answer counts, and a failure is no answer.
RouteDuration(place, office, lost) ==
    LET answer(way, minutes) == IF <<office, way>> \in lost THEN NoRoute ELSE minutes[place][office]
    IN  IF answer("coordinates", Minutes) # NoRoute THEN answer("coordinates", Minutes)
        ELSE answer("name", MinutesByName)
\* reject_implausible: a time that nobody can drive or ride is no answer.
Plausible(place, office, lost) ==
    LET d == RouteDuration(place, office, lost)
    IN  IF d # NoRoute /\ d < Floors[place][office] THEN NoRoute ELSE d
KeepStation(durations, threshold) == \E o \in Offices : durations[o] # NoRoute /\ durations[o] <= threshold

\* Station.process, for a station in the box
Process(station, threshold, lost) ==
    LET record(durations, kept, error) == station @@ [durations |-> durations, kept |-> kept, error |-> error]
        asked == [o \in Offices |-> Plausible(station.place, o, lost)]
    IN  IF station.place \in Inner THEN record([o \in Offices |-> NoRoute], TRUE, FALSE)
        ELSE record(asked, KeepStation(asked, threshold), \A o \in Offices : asked[o] = NoRoute)

\* Mutant: the coordinates are not compared.
ListedSomewhere(r, stations) == \E i \in DOMAIN stations : stations[i].crs = r.crs
\* _resume_records: records of stations that are still where they were, and those of them
\* that need not be asked for again.
StillListed(r, stations) == \E i \in DOMAIN stations : stations[i].crs = r.crs /\ stations[i].place = r.place
Resumed(existing, stations) == SelectSeq(existing, LAMBDA r : StillListed(r, stations))
DoneOf(records) == {records[i].crs : i \in {i \in DOMAIN records : ~records[i].error}}

InOrder(records, stations) ==
    FoldLeft(LAMBDA sorted, s : sorted \o SelectSeq(records, LAMBDA r : r.crs = s.crs), << >>, stations)
Expected(stations) == Cardinality({i \in DOMAIN stations : stations[i].place \in InBox})
IsComplete(existing, records, expected) ==
    Len(records) >= expected /\ records = existing /\ \A i \in DOMAIN records : ~records[i].error

-----------------------------------------------------------------------------
ShedInit == csv \in Lists /\ config \in ShedConfigs /\ shed = NoShed /\ batch = NoBatch /\ halved = {}

\* resume_allowed, limit_stations: a run is refused when the file is of other settings, or
\* when it would be cut down to the first few stations.
Refused(force, limit) == shed # NoShed /\ ((~force /\ shed.config # config) \/ limit # 0)
StartBatch(force, limit) ==
    LET existing == IF shed = NoShed \/ force THEN << >> ELSE shed.records
        stations == IF limit = 0 THEN csv ELSE SubSeq(csv, 1, limit)
        records == Resumed(existing, stations)
    IN  /\ batch.at # "routing"
        /\ batch.runs < MaxRuns
        /\ ~Refused(force, limit)
        /\ batch' = [at |-> "routing", runs |-> batch.runs + 1, edits |-> batch.edits, existing |-> existing,
                     resumed |-> shed # NoShed /\ ~force, stations |-> stations, records |-> records,
                     done |-> DoneOf(records), next |-> 1, processed |-> 0, config |-> config]
        /\ UNCHANGED <<csv, config, shed, halved>>

\* One round of the loop of build_shed: the station is done, outside the box, or asked for;
\* its old record goes.
RouteNext ==
    /\ batch.at = "routing" /\ batch.next <= Len(batch.stations)
    /\ LET station == batch.stations[batch.next]
           others == Without(batch.records, station.crs)
       IN  \/ /\ station.crs \in batch.done
              /\ batch' = [batch EXCEPT !.next = @ + 1]
              /\ UNCHANGED <<shed, halved>>
           \/ /\ station.crs \notin batch.done /\ station.place \notin InBox
              /\ batch' = [batch EXCEPT !.next = @ + 1, !.records = others]
              /\ UNCHANGED <<shed, halved>>
           \/ /\ station.crs \notin batch.done /\ station.place \in InBox
              /\ \E lost \in Outages :
                   LET record == Process(station, batch.config, lost)
                   IN  /\ batch' = [batch EXCEPT !.next = @ + 1, !.processed = @ + 1,
                                                 !.records = Append(others, record)]
                       /\ halved' = halved \cup (IF lost # {} /\ ~record.error THEN {record} ELSE {})
              /\ shed' = IF batch'.processed % CheckpointEvery = 0
                         THEN [config |-> batch.config, records |-> batch'.records] ELSE shed
    /\ UNCHANGED <<csv, config>>

FinishBatch ==
    /\ batch.at = "routing" /\ batch.next > Len(batch.stations)
    /\ LET records == InOrder(batch.records, batch.stations)
           complete == batch.resumed /\ IsComplete(batch.existing, records, Expected(batch.stations))
       IN  /\ shed' = IF complete THEN shed ELSE [config |-> batch.config, records |-> records]
           /\ batch' = [at |-> "finished", runs |-> batch.runs, edits |-> batch.edits, stations |-> batch.stations,
                        config |-> batch.config, complete |-> complete]
    /\ UNCHANGED <<csv, config, halved>>

\* The batch is killed; the file is what the last write made it.
KillBatch ==
    /\ batch.at = "routing"
    /\ batch' = [NoBatch EXCEPT !.runs = batch.runs, !.edits = batch.edits]
    /\ UNCHANGED <<csv, config, shed, halved>>

\* Stations open, close and move; the settings change.
EditStations ==
    /\ batch.at # "routing" /\ batch.edits < MaxEdits
    /\ csv' \in Lists /\ config' \in ShedConfigs /\ <<csv', config'>> # <<csv, config>>
    /\ batch' = [NoBatch EXCEPT !.runs = batch.runs, !.edits = batch.edits + 1]
    /\ UNCHANGED <<shed, halved>>

ShedNext ==
    \/ \E force \in BOOLEAN, limit \in {0, 1} : StartBatch(force, limit)
    \/ RouteNext \/ FinishBatch \/ KillBatch \/ EditStations
ShedSpec == ShedInit /\ [][ShedNext]_shedVars

-----------------------------------------------------------------------------
\* What a run that starts afresh, with TfL up, comes to.
FromScratch(stations, threshold) ==
    FoldLeft(LAMBDA records, s : IF s.place \in InBox THEN Append(records, Process(s, threshold, {})) ELSE records,
             << >>, stations)
Truthful(r, threshold) == r = Process([crs |-> r.crs, place |-> r.place], threshold, {})

\* Whatever was killed, moved or out of order before: a run that ends leaves the records that
\* a run from scratch would, but for those it could not get and those it got while TfL failed for
\* some of a station's questions and not for all: these count as done, and no later run asks for
\* them again.  A run calls complete only what has no record that it could not get.
FinishedIsFromScratch ==
    batch.at = "finished" =>
        LET scratch == FromScratch(batch.stations, batch.config)
            kept(i) == shed.records[i] = scratch[i] \/ shed.records[i] \in halved
        IN  /\ shed.config = batch.config
            /\ Len(shed.records) = Len(scratch)
            /\ \A i \in DOMAIN scratch : shed.records[i].crs = scratch[i].crs
                                           /\ (kept(i) \/ shed.records[i].error)
            /\ batch.complete => \A i \in DOMAIN scratch : kept(i)
\* At any time the file is of one set of settings and has no station twice, and of what the
\* batch has found fewer than CheckpointEvery records are not in it.
FileIsUsable ==
    /\ shed # NoShed =>
        /\ Len(shed.records) = Cardinality(Codes(shed.records))
        /\ \A i \in DOMAIN shed.records :
              LET r == shed.records[i] IN r.error \/ Truthful(r, shed.config) \/ r \in halved
    /\ batch.at = "routing" =>
        Cardinality({i \in DOMAIN batch.records :
                       shed = NoShed \/ ~\E k \in DOMAIN shed.records : shed.records[k] = batch.records[i]}) < CheckpointEvery

\* A batch that was killed and resumed comes to what one that ran through would, but for the
\* stations of which TfL answered some questions while others failed.
ShedIsCurrent == FinishedIsFromScratch /\ FileIsUsable
=============================================================================
