---------------------------- MODULE PropertyFacts ----------------------------
(***************************************************************************)
(* What public registers say of a property: its council tax band           *)
(* (houses/council_tax.py) and its energy certificate (houses/epc.py).     *)
(* Both are asked for a postcode and answer with everything in it, so the  *)
(* house is found by comparing addresses that were written by different    *)
(* people.                                                                 *)
(*                                                                         *)
(* An address is a sequence of parts, the text between its commas, and a   *)
(* part is a sequence of words; postcodes are left out, as strip_postcode  *)
(* does.  An entry of a register records the dwelling it is about, which   *)
(* the program cannot see.                                                 *)
(***************************************************************************)
EXTENDS Integers, Sequences, FiniteSets
LOCAL INSTANCE SequencesExt

CONSTANTS
    Searches,      \* the addresses asked for, and the registers, to be tried
    NoSearch,
    Lettered,      \* house numbers with a letter, as a function to the number: "2A" :> "2"
    PlainNumbers,  \* house numbers without one
    UnitWords,     \* "FLAT", "UNIT", "APARTMENT", "MAISONETTE"
    Roads,         \* the parts that name a road
    Rates,         \* the government's table, from a council's name to its band D rate
    Begins,        \* <<a, b>>: the name of the council a is the beginning of the name b
    Renamed,       \* RATE_ALIASES, from a legacy district to today's authority
    Boroughs,      \* the London boroughs
    LondonEntry,   \* the table's one entry for all of them

    BuildingOf     \* the building each dwelling is in

VARIABLE search

Numbers == PlainNumbers \cup DOMAIN Lettered
Words(address) == FlattenSeq(address)
Failure(why) == [is |-> "impossible", why |-> why]
Elements(s) == {s[i] : i \in DOMAIN s}
PairAt(words, i, id, street) == words[i] = id /\ i < Len(words) /\ words[i + 1] = street
Within(short, long) == \E i \in 0..(Len(long) - Len(short)) : SubSeq(long, i + 1, i + Len(short)) = short

-----------------------------------------------------------------------------
(***************************************************************************)
(* Which building an address names                                         *)
(***************************************************************************)
IsUnit(part) == Len(part) = 2 /\ part[1] \in UnitWords /\ part[2] \in Numbers
Building(number, unit, name) == [number |-> number, unit |-> unit, name |-> name]

\* _extract_building: a house number, a unit inside a building, or a name.
ExtractBuilding(address) ==
    LET first == address[1]
    IN  IF first[1] \in Numbers /\ Len(first) > 1 THEN Building(first[1], << >>, << >>)
        ELSE IF IsUnit(first) /\ Len(address) > 1 THEN Building("", first, address[2])
        ELSE Building("", << >>, first)

-----------------------------------------------------------------------------
(***************************************************************************)
(* The council tax row                                                     *)
(***************************************************************************)
Live(row) == row.band \in {"A", "B", "C", "D", "E", "F", "G", "H", "I"}
ActiveRows(rows) == SelectSeq(rows, Live)

\* _match_by_number: the number and the word after it, side by side.
MatchByNumber(rows, id, address) ==
    LET words == Words(address)
        at == SelectInSeq(words, LAMBDA w : w = id)
        Matches(row) == \E i \in DOMAIN Words(row.address) :
                            PairAt(Words(row.address), i, id, words[at + 1])
    IN  SelectSeq(rows, Matches)

\* The words of an address with its commas kept.
Marked(address) == FlattenSeq([i \in DOMAIN address |-> IF i = 1 THEN address[i] ELSE <<",">> \o address[i]])

NameRowMatch(address, name, unit) ==
    LET marked == Marked(address)
        tail == SubSeq(marked, Len(name) + 1, Len(marked))
        rest == SelectSeq(tail, LAMBDA w : w # ",")
    IN  \/ unit # << >> /\ IsPrefix(unit \o <<",">> \o name, marked)
        \/ /\ IsPrefix(name, marked)
           /\ \/ tail = << >>
              \/ /\ tail[1] = ","
                 /\ IF unit # << >> THEN IsPrefix(unit, rest)
                    ELSE ~(rest[1] \in UnitWords \/ (Len(rest) = 1 /\ rest[1] \in PlainNumbers))

MatchRows(rows, building, address) ==
    IF building.number # "" THEN MatchByNumber(rows, building.number, address)
    ELSE SelectSeq(rows, LAMBDA row : NameRowMatch(row.address, building.name, building.unit))

\* The rows whose whole address begins the address asked for.
ExactMatches(rows, address) ==
    SelectSeq(rows, LAMBDA row : Len(Words(row.address)) >= 2 /\ IsPrefix(Words(row.address), Words(address)))

HasAuthority(row) == row.authority # ""
WithAuthorityFirst(rows) == SelectSeq(rows, HasAuthority) \o SelectSeq(rows, LAMBDA row : ~HasAuthority(row))

CollapseExactMatches(matches, address) ==
    LET exact == ExactMatches(matches, address)
    IN  IF exact = << >> THEN matches
        ELSE IF \A i \in DOMAIN exact : exact[i].band = exact[1].band THEN << WithAuthorityFirst(exact)[1] >>
        ELSE exact

SelectFirstRow(matches, address) ==
    [is |-> "ok", row |-> CollapseExactMatches(matches, address)[1]]
\* select_matched_row: rows of two addresses identify nothing.
SelectMatchedRow(matches, address) ==
    LET left == CollapseExactMatches(matches, address)
    IN  IF \E i \in DOMAIN left : left[i].address # left[1].address
        THEN Failure("address matched multiple properties")
        ELSE [is |-> "ok", row |-> left[1]]

IsLetterSuffixAnnexe(words, main) ==
    /\ Len(words) >= Len(main)
    /\ words[1] \in DOMAIN Lettered /\ Lettered[words[1]] = main[1]
    /\ SubSeq(words, 2, Len(main)) = Tail(main)

\* find_annexe: the one other row whose address is this one behind a prefix.
IsAnnexe(row, main) ==
    LET words == Words(row.address)
    IN  /\ words # main
        /\ IsLetterSuffixAnnexe(words, main) \/ (Len(words) > Len(main) /\ Within(main, Tail(words)))
NoAnnexe == [dwelling |-> ""]
FindAnnexe(rows, matched) ==
    LET annexes == SelectSeq(rows, LAMBDA row : IsAnnexe(row, Words(matched.address)))
    IN  IF Len(annexes) = 1 THEN annexes[1] ELSE NoAnnexe

\* _csv_band_d_rate: the entries of the table that a council's rate may be taken from; the
\* first in the file's order is used, so each is possible.
NamedAlike(council) == {k \in DOMAIN Rates : <<council, k>> \in Begins \/ <<k, council>> \in Begins}
RateEntries(council) ==
    LET today == IF council \in DOMAIN Renamed THEN Renamed[council] ELSE council
    IN  IF council \in DOMAIN Rates THEN {council}
        ELSE IF NamedAlike(council) # {} THEN NamedAlike(council)
        ELSE IF today \in DOMAIN Rates THEN {today}
        ELSE IF today \in Boroughs THEN {LondonEntry} \cap DOMAIN Rates
        ELSE {}

\* lookup_matched_rate, when the council's own service gives no figure.
LookupMatchedRate(row) == IF HasAuthority(row) THEN RateEntries(row.authority) ELSE {}

LookupCouncilTax(s) ==
    LET active == ActiveRows(s.rows)
        building == ExtractBuilding(s.address)
        matches == MatchRows(active, building, s.address)
        selection == SelectMatchedRow(matches, s.address)
    IN  IF s.address = << >> THEN Failure("no address provided")
        ELSE IF active = << >> THEN Failure("no active properties in VOA results")
        ELSE IF matches = << >> THEN Failure("no VOA match for building")
        ELSE IF selection.is # "ok" THEN selection
        ELSE [is |-> "ok", row |-> selection.row, annexe |-> FindAnnexe(active, selection.row),
              entries |-> LookupMatchedRate(selection.row)]

-----------------------------------------------------------------------------
(***************************************************************************)
(* The energy certificate                                                  *)
(***************************************************************************)
\* _should_lookup_epc: an address that begins with a road names no building; a house number
\* loses its letter.
ShouldLookup(address) == address[1][1] \in Numbers \/ address[1] \notin Roads
BuildingId(first) ==
    IF first[1] \in DOMAIN Lettered THEN << Lettered[first[1]] >>
    ELSE IF first[1] \in PlainNumbers THEN << first[1] >>
    ELSE first

\* _filter_candidates: a number with the word that follows it, or else a name anywhere.
FilterCandidates(certs, id, address) ==
    LET words == Words(address)
        at == SelectInSeq(words, LAMBDA w : w = id[1])
        street == IF at \in 1..(Len(words) - 1) THEN words[at + 1] ELSE ""
        NumberFits(line) == \E i \in DOMAIN line :
            IF street = "" THEN line[i] = id[1] ELSE PairAt(line, i, id[1], street)
    IN  SelectSeq(certs, LAMBDA cert :
            IF id[1] \in PlainNumbers THEN NumberFits(Words(cert.address)) ELSE Within(id, Words(cert.address)))

\* _match_by_building: a certificate whose line begins the address asked for is preferred.
MatchByBuilding(certs, id, address) ==
    LET candidates == FilterCandidates(certs, id, address)
        exact == ExactMatches(candidates, address)
    IN  IF candidates = << >> THEN Failure("no matching certificate for this address")
        ELSE IF exact # << >> THEN [is |-> "ok", certs |-> exact]
        ELSE IF \E i \in DOMAIN candidates : candidates[i].address # candidates[1].address
        THEN Failure("address matched multiple properties")
        ELSE [is |-> "ok", certs |-> candidates]

\* _newest_band, of certificates dated by small numbers.
NewestCert(certs) ==
    certs[CHOOSE i \in DOMAIN certs :
            \A j \in DOMAIN certs : certs[j].date < certs[i].date \/ (certs[j].date = certs[i].date /\ i <= j)]

LookupEpc(s) ==
    LET match == MatchByBuilding(s.rows, BuildingId(s.address[1]), s.address)
    IN  IF ~ShouldLookup(s.address) THEN Failure("address has no building identifier")
        ELSE IF s.rows = << >> THEN Failure("no certificates found")
        ELSE IF match.is # "ok" THEN match
        ELSE IF NewestCert(match.certs).band = "" THEN Failure("certificate has no energy band")
        ELSE [is |-> "ok", cert |-> NewestCert(match.certs)]

-----------------------------------------------------------------------------
(***************************************************************************)
(* Properties                                                              *)
(***************************************************************************)
\* The entry belongs to the dwelling asked for.
Own(row) == row.dwelling = search.dwelling
HasOwn(rows) == \E i \in DOMAIN rows : Own(rows[i])

\* Some other building of the postcode has a name that starts with this one and goes on.
NameContinues(name) ==
    \E i \in DOMAIN search.rows : \E part \in Elements(search.rows[i].address) : IsStrictPrefix(name, part)

TaxIsOwn(tax) ==
    LET building == ExtractBuilding(search.address)
    IN  /\ HasOwn(ActiveRows(search.rows)) => Own(tax.row)
        /\ building.unit = << >> \/ ~NameContinues(building.name) =>
               BuildingOf[tax.row.dwelling] = BuildingOf[search.dwelling]

AnnexeIsReal(tax) ==
    tax.annexe # NoAnnexe /\ ~NameContinues(tax.row.address[1]) =>
        /\ tax.annexe.dwelling # tax.row.dwelling
        /\ BuildingOf[tax.annexe.dwelling] = BuildingOf[tax.row.dwelling]

RateIsOwn(tax) ==
    NamedAlike(tax.row.authority) = {} =>
        tax.entries \subseteq {tax.row.authority, LondonEntry} \cup {Renamed[c] : c \in DOMAIN Renamed \cap {tax.row.authority}}

\* A council tax band is that of the dwelling asked for when the register lists it, and of
\* something in the same building when it does not (tests/integration/test_council_tax.py:203
\* "that flat is at 15, not 5"); the annexe charged with it is a dwelling of its own in the
\* same building; and the rate is that of its council or of the council's successor.
CouncilTaxIsOwn ==
    search # NoSearch =>
        LET tax == LookupCouncilTax(search)
        IN  tax.is = "ok" => TaxIsOwn(tax) /\ AnnexeIsReal(tax) /\ RateIsOwn(tax)

\* An energy band is that of the dwelling asked for when the register has a certificate for
\* it (epc.py:223-227), unless the house number has a letter, which is dropped, or another
\* dwelling's line is the beginning of this address.
Shadowed ==
    \E i \in DOMAIN search.rows :
        ~Own(search.rows[i]) /\ IsPrefix(Words(search.rows[i].address), Words(search.address))
EpcIsOwn ==
    search # NoSearch /\ search.address[1][1] \notin DOMAIN Lettered /\ ~Shadowed =>
        LET epc == LookupEpc(search) IN (epc.is = "ok" /\ HasOwn(search.rows)) => Own(epc.cert)

\* The entry of a register that is shown for a property is that property's own.
FactsAreOwn == CouncilTaxIsOwn /\ EpcIsOwn
=============================================================================
