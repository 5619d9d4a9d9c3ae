------------------------------ MODULE DriveRuns ------------------------------
(***************************************************************************)
(* The runs that make the driving areas and what is common to all commutes *)
(* (tools/commute: drive_isochrone.run, intersection.run,                  *)
(* combined_map.main), and the files between them.  Driving times are      *)
(* bought, so a run reuses the stored ones when they are of the present    *)
(* settings; a run may be killed between two files, and the geocoder may   *)
(* be out of reach or have moved a postcode.                               *)
(*                                                                         *)
(* What the areas look like is module SearchArea's; here an area is what   *)
(* it was computed from.                                                   *)
(***************************************************************************)
EXTENDS Integers, FiniteSets, Functions, TLC

CONSTANTS
    DriveSettings,      \* contents of drive_destinations.json: [default, own: label -> threshold or NotSet]
    NotSet,
    Overrides,     \* values of --threshold-min, 0 for none
    Coordinates,   \* where the geocoder may put a label's postcode
    Houses,        \* values of --property-type
    Unreachable,   \* coordinates from which no road leads anywhere
    NoFile, Torn,
    MaxDrives, MaxChanges   \* bounds of the model

VARIABLES
    settings, places,   \* the settings file, and where the geocoder puts each label
    disk,               \* the files of data/commute
    run,                \* the drive run: in progress, done, or killed
    job                 \* the run of the intersection and the map

driveVars == <<settings, places, disk, run, job>>
Writing == {"raw", "searches", "txt", "html"}

Labels == UNION {DOMAIN s.own : s \in DriveSettings}
MinOf(S) == CHOOSE x \in S : \A y \in S : x <= y
MaxOf(S) == CHOOSE x \in S : \A y \in S : x >= y

-----------------------------------------------------------------------------
\* load_config, apply_default_threshold: the threshold of each destination.
Thresholds(s, override) ==
    [label \in DOMAIN s.own |-> IF s.own[label] # NotSet THEN s.own[label]
                                ELSE IF override # 0 THEN override ELSE s.default]
\* _load_destinations, _expected_signature: the shared threshold is the least, the region
\* reaches as far as the greatest.
ExpectedSignature(thresholds, coords) ==
    [threshold |-> MinOf(Range(thresholds)), region |-> MaxOf(Range(thresholds)),
     thresholds |-> thresholds, coords |-> coords]
\* Mutant: where the destinations were is not compared.
SignatureWithoutCoords(raw, coords) ==
    [threshold |-> raw.threshold, region |-> raw.region, thresholds |-> raw.thresholds, coords |-> coords]
\* config_signature, of a stored payload; the coords it is compared with are of no matter.
ConfigSignature(raw, coords) ==
    [threshold |-> raw.threshold, region |-> raw.region, thresholds |-> raw.thresholds, coords |-> raw.coords]

\* build_raw: driving times to each destination, over the region round it.
BuildRaw(signature) ==
    signature @@ [times |-> [label \in DOMAIN signature.coords |->
                                [to |-> signature.coords[label], region |-> signature.region]]]
\* raw_to_searches, where every destination has an area
RawToSearches(raw, house) ==
    [threshold |-> raw.threshold, house |-> house,
     areas |-> [label \in DOMAIN raw.thresholds |-> [times |-> raw.times[label], threshold |-> raw.thresholds[label]]]]
\* validate_payload: a destination without any search is an issue, and nothing is written.
Valid(searches) == \A label \in DOMAIN searches.areas : searches.areas[label].times.to \notin Unreachable

-----------------------------------------------------------------------------
DriveInit ==
    /\ settings \in DriveSettings
    /\ places \in [Labels -> Coordinates]
    /\ disk = [raw |-> NoFile, searches |-> NoFile, txt |-> NoFile, html |-> NoFile, common |-> NoFile, map |-> NoFile]
    /\ run = [at |-> "idle", drives |-> 0, changes |-> 0]
    /\ job = [at |-> "idle", steady |-> FALSE]

\* The payload that a run goes on with: the stored one when its signature is the expected one
\* - without the geocoder, at the coordinates stored for the destinations, if it has them
\* all - or else one that is bought.  Where there is none the run ends and changes nothing.
Payloads(thresholds, located, force) ==
    LET now == [label \in DOMAIN thresholds |-> places[label]]
        stored == IF disk.raw = NoFile THEN {} ELSE {disk.raw}
        Known(raw) == IF located THEN now ELSE [label \in DOMAIN thresholds |-> raw.coords[label]]
        Comparable(raw) == located \/ DOMAIN thresholds \subseteq DOMAIN raw.coords
        reused == {raw \in stored : /\ ~force /\ Comparable(raw)
                                    /\ ConfigSignature(raw, Known(raw)) = ExpectedSignature(thresholds, Known(raw))}
        unreadable == ~force /\ \E raw \in stored : ~Comparable(raw)
    IN  IF reused # {} THEN reused
        ELSE IF located /\ ~unreadable THEN {BuildRaw(ExpectedSignature(thresholds, now))} ELSE {}

DriveStart(force, override, house, located) ==
    /\ run.at \notin Writing /\ run.drives < MaxDrives
    /\ \E raw \in Payloads(Thresholds(settings, override), located, force) :
         /\ Valid(RawToSearches(raw, house))
         /\ run' = [at |-> "raw", drives |-> run.drives + 1, changes |-> run.changes, raw |-> raw,
                    searches |-> RawToSearches(raw, house), same |-> FALSE,
                    thresholds |-> Thresholds(settings, override), places |-> places, located |-> located]
    /\ job' = [job EXCEPT !.steady = FALSE]
    /\ UNCHANGED <<settings, places, disk>>

\* write_payloads, file by file; searches that are the stored ones are left alone.
WriteRaw ==
    /\ run.at = "raw"
    /\ disk' = [disk EXCEPT !.raw = run.raw]
    /\ run' = [run EXCEPT !.at = "searches", !.same = disk.searches = run.searches]
    /\ UNCHANGED <<settings, places, job>>
WriteSearches ==
    /\ run.at = "searches"
    /\ disk' = [disk EXCEPT !.searches = run.searches]
    /\ run' = [run EXCEPT !.at = "txt"]
    /\ UNCHANGED <<settings, places, job>>
WriteTxt ==
    /\ run.at = "txt"
    /\ disk' = [disk EXCEPT !.txt = run.searches]
    /\ run' = [run EXCEPT !.at = "html"]
    /\ UNCHANGED <<settings, places, job>>
WriteHtml ==
    /\ run.at = "html"
    /\ disk' = [disk EXCEPT !.html = run.searches]
    /\ run' = [run EXCEPT !.at = "done"]
    /\ UNCHANGED <<settings, places, job>>

\* The run is killed.  A file is replaced at once, but where the searches stayed the same the
\* other two are written in place (_write_if_changed), and may be left in the middle.
KillDrive ==
    /\ run.at \in Writing
    /\ run' = [at |-> "killed", drives |-> run.drives, changes |-> run.changes]
    /\ \/ UNCHANGED disk
       \/ run.same /\ run.at \in {"txt", "html"} /\ disk[run.at] # run.searches /\ disk' = [disk EXCEPT ![run.at] = Torn]
    /\ UNCHANGED <<settings, places, job>>

\* intersection.run: the payloads are read one after the other; a destination that is not in
\* the settings any more is an error, one that has no area leaves nothing in common.
ReadRaw ==
    /\ job.at \in {"idle", "done"} /\ disk.raw # NoFile /\ disk.searches # NoFile
    /\ job' = [at |-> "reading", steady |-> run.at = "done", raw |-> disk.raw]
    /\ UNCHANGED <<settings, places, disk, run>>
CommonOf(raw, searches) ==
    [threshold |-> raw.threshold, house |-> "houses",
     areas |-> IF DOMAIN raw.thresholds \subseteq DOMAIN searches.areas THEN searches.areas ELSE << >>]
Intersect ==
    /\ job.at = "reading"
    /\ \/ /\ DOMAIN disk.searches.areas \subseteq DOMAIN job.raw.thresholds
          /\ disk' = [disk EXCEPT !.common = CommonOf(job.raw, disk.searches)]
          /\ job' = [at |-> "common", steady |-> job.steady]
       \/ /\ ~(DOMAIN disk.searches.areas \subseteq DOMAIN job.raw.thresholds)
          /\ job' = [at |-> "idle", steady |-> FALSE]
          /\ UNCHANGED disk
    /\ UNCHANGED <<settings, places, run>>
\* combined_map.main; an intersection without areas is left out of the map.
BuildMap ==
    /\ job.at = "common"
    /\ disk' = [disk EXCEPT !.map = [drive |-> disk.searches, common |-> disk.common.areas]]
    /\ job' = [at |-> "done", steady |-> job.steady]
    /\ UNCHANGED <<settings, places, run>>

\* The settings are edited, or the geocoder's data.
ChangeSettings ==
    /\ run.changes < MaxChanges
    /\ \/ settings' \in DriveSettings \ {settings} /\ UNCHANGED places
       \/ (\E label \in Labels : \E c \in Coordinates \ {places[label]} : places' = [places EXCEPT ![label] = c]) /\ UNCHANGED settings
    /\ run' = [run EXCEPT !.changes = @ + 1]
    /\ UNCHANGED <<disk, job>>

DriveNext ==
    \/ \E force \in BOOLEAN, override \in Overrides, house \in Houses, located \in BOOLEAN :
         DriveStart(force, override, house, located)
    \/ WriteRaw \/ WriteSearches \/ WriteTxt \/ WriteHtml \/ KillDrive
    \/ ReadRaw \/ Intersect \/ BuildMap \/ ChangeSettings
DriveSpec == DriveInit /\ [][DriveNext]_driveVars

-----------------------------------------------------------------------------
\* After a run that went through, the driving times are of the present settings and (when the
\* geocoder answered) of where the destinations are now; what is drawn, listed and shown is
\* drawn from them.
FilesAreOfTheSettings ==
    run.at = "done" =>
        LET thresholds == run.thresholds
        IN  /\ disk.raw.thresholds = thresholds
            /\ disk.raw.region = MaxOf(Range(thresholds))
            /\ run.located => \A label \in DOMAIN thresholds : disk.raw.coords[label] = run.places[label]
            /\ \A label \in DOMAIN thresholds :
                  disk.searches.areas[label] = [threshold |-> thresholds[label],
                      times |-> [to |-> disk.raw.coords[label], region |-> MaxOf(Range(thresholds))]]
            /\ disk.txt = disk.searches /\ disk.html = disk.searches
\* An intersection that is made between two runs is of all the areas and the thresholds of
\* the one before, and so is the map.
CommonIsOfAll ==
    job.at = "done" /\ job.steady =>
        /\ disk.common.areas = disk.searches.areas
        /\ disk.common.threshold = disk.searches.threshold
        /\ disk.map = [drive |-> disk.searches, common |-> disk.common.areas]
CommuteFilesAgree == FilesAreOfTheSettings /\ CommonIsOfAll
=============================================================================
