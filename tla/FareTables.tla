----------------------------- MODULE FareTables -----------------------------
(* The table of bus fares the site reads (scripts/parse_netex_fares.py, extract_bus_fares.py):  *)
(* each operator publishes files of stops, fare zones and prices, one after the other they are  *)
(* read and merged, and the result of each operator is kept so that a killed run can resume.    *)
EXTENDS Naturals, Sequences, FiniteSets
LOCAL INSTANCE SequencesExt
LOCAL INSTANCE Functions

CONSTANTS Extractions,   \* what the operators publish: sequences of sequences of files
          NoExtraction,
          NoPrice

VARIABLE extraction

Kinds == {"single", "return", "day"}
IdsIn(things) == {things[i].id : i \in DOMAIN things}

-----------------------------------------------------------------------------
(* One file: stops with a name, and where they are if that is known; zones that list stops, by  *)
(* id and in words; elements, each a pair of zones; products; prices of elements, in the order  *)
(* of the file, each with the product of the fare table it is in ("" outside of the tables);    *)
(* and the zones of the first tariff.                                                           *)

\* The first of an id counts.
StopIn(file, id) == file.stops[CHOOSE i \in DOMAIN file.stops :
    file.stops[i].id = id /\ \A j \in 1..(i - 1) : file.stops[j].id # id]
StopsIn(file) == {StopIn(file, id) : id \in IdsIn(file.stops)}

\* Where no stop's place is known the file is read all the same.
ServesStation(file) ==
    /\ file.stops # <<>>
    /\ (\E s \in StopsIn(file) : s.at = "near") \/ (\A s \in StopsIn(file) : s.at = "unknown")

MembersOf(file, zone) == SelectSeq(zone.members, LAMBDA id : id \in IdsIn(file.stops))

\* Mutant of ZonesOfStops: the last zone that lists a stop takes it.
ZonesOfStopsLast(file) ==
    FoldLeft(LAMBDA zones, zone :
               LET named == {StopIn(file, id).name : id \in Range(MembersOf(file, zone))}
               IN  [n \in DOMAIN zones \cup named |-> IF n \in named THEN zone.id ELSE zones[n]],
             <<>>, file.zones)

\* By the name of the stop; the first zone that lists one of that name takes it.
ZonesOfStops(file) ==
    FoldLeft(LAMBDA zones, zone :
               LET named == {StopIn(file, id).name : id \in Range(MembersOf(file, zone))}
               IN  [n \in DOMAIN zones \cup named |-> IF n \in DOMAIN zones THEN zones[n] ELSE zone.id],
             <<>>, file.zones)

Put(fares, pair, kind, price) ==
    [p \in DOMAIN fares \cup {pair} |->
       IF p # pair THEN fares[p]
       ELSE [k \in (IF p \in DOMAIN fares THEN DOMAIN fares[p] ELSE {}) \cup {kind} |->
               IF k = kind THEN price ELSE fares[p][k]]]

Has(fares, pair, kind) == pair \in DOMAIN fares /\ kind \in DOMAIN fares[pair]
PutIfAbsent(fares, pair, kind, price) ==
    IF price = NoPrice \/ Has(fares, pair, kind) THEN fares ELSE Put(fares, pair, kind, price)

\* A zone is left and entered; prices are kept for the one entered.
Boarding(zone) == [zone EXCEPT !.side = "boarding"]
PairOf(element) == <<Boarding(element.from), Boarding(element.to)>>

GroupFares(file) ==
    FoldLeft(LAMBDA fares, e : PutIfAbsent(fares, <<e.from, Boarding(e.to)>>, "single", e.group), <<>>, file.elements)

\* The last element of an id answers for it.
ElementNamed(file, id) == file.elements[CHOOSE i \in DOMAIN file.elements :
    file.elements[i].id = id /\ \A j \in (i + 1)..Len(file.elements) : file.elements[j].id # id]

\* Every price of an element is read as that of a single, those in the fare tables too.
ElementFares(file, fares) ==
    FoldLeft(LAMBDA h, p : IF p.of \in IdsIn(file.elements)
                           THEN PutIfAbsent(h, PairOf(ElementNamed(file, p.of)), "single", p.price) ELSE h,
             fares, file.prices)

\* An element sells a product whose id is, or contains, an id that it names, unless its zones
\* are tariff zones; and one of an offer that it names only if its zones are spelt small: an
\* element of XML without children is false, so the other spelling is looked up and not found.
Sells(element, product) ==
    \/ element.sold \cap ({product.id} \cup product.contains) # {} /\ element.refs # "Tariff"
    \/ product.id \in element.offered /\ element.refs = "zone"
ProductFares(file, fares) ==
    FoldLeft(LAMBDA h, product :
               FoldLeft(LAMBDA g, e : IF Sells(e, product) THEN Put(g, PairOf(e), product.kind, product.price) ELSE g,
                        h, file.elements),
             fares, SelectSeq(file.products, LAMBDA p : p.kind \in Kinds /\ p.price # NoPrice))

KindOf(file, id) == IF id \in {p.id : p \in {q \in Range(file.products) : q.kind \in Kinds}}
                    THEN (CHOOSE p \in Range(file.products) : p.id = id /\ p.kind \in Kinds).kind ELSE "none"
TableFares(file, fares) ==
    FoldLeft(LAMBDA h, p : IF KindOf(file, p.product) # "none" /\ p.of \in IdsIn(file.elements)
                           THEN Put(h, PairOf(ElementNamed(file, p.of)), KindOf(file, p.product), p.price) ELSE h,
             fares, file.prices)

\* Mutant of CoveredStops: all the zones of the tariff are meant.
CoveredStopsOfAll(file) == UNION {z.texts : z \in {y \in Range(file.zones) : y.id \in Range(file.tariff)}}

\* The stops of the first zone of the tariff, as that zone words them.
CoveredStops(file) == UNION {z.texts : z \in {y \in Range(file.zones) : <<y.id>> = SubSeq(file.tariff, 1, 1)}}

\* A price in a table that names no element holds for all those stops.
NetworkFares(file) ==
    LET everywhere(p) == p.of = "" /\ KindOf(file, p.product) \in {"day", "return"} /\ CoveredStops(file) # {}
        chosen == SelectSeq(file.prices, everywhere)
    IN  [i \in DOMAIN chosen |-> [price |-> chosen[i].price, kind |-> KindOf(file, chosen[i].product), stops |-> CoveredStops(file)]]

FaresIn(file) == TableFares(file, ProductFares(file, ElementFares(file, GroupFares(file))))

-----------------------------------------------------------------------------
(* The files of an operator. *)
PricedZones(fares) == UNION {{pair[1], pair[2]} : pair \in DOMAIN fares}

\* For each name the zones it was given, in the order they came up, and whether the file that
\* was the last to give it that zone has a price for it.
AddCandidates(candidates, file) ==
    LET zones == ZonesOfStops(file)
        priced == PricedZones(FaresIn(file))
        old(n) == IF n \in DOMAIN candidates THEN candidates[n] ELSE <<>>
        now(n) == [zone |-> zones[n], priced |-> zones[n] \in priced]
        added(n) == IF n \notin DOMAIN zones THEN old(n)
                    ELSE IF \E i \in DOMAIN old(n) : old(n)[i].zone = zones[n]
                    THEN [i \in DOMAIN old(n) |-> IF old(n)[i].zone = zones[n] THEN now(n) ELSE old(n)[i]]
                    ELSE Append(old(n), now(n))
    IN  [n \in DOMAIN candidates \cup DOMAIN zones |-> added(n)]

AddFares(fares, more) ==
    [pair \in DOMAIN fares \cup DOMAIN more |->
       [k \in {l \in Kinds : Has(fares, pair, l) \/ Has(more, pair, l)} |->
          IF Has(more, pair, k) THEN more[pair][k] ELSE fares[pair][k]]]

Merged(files) ==
    FoldLeft(LAMBDA h, file : [fares |-> AddFares(h.fares, FaresIn(file)),
                               candidates |-> AddCandidates(h.candidates, file),
                               network |-> h.network \o NetworkFares(file)],
             [fares |-> <<>>, candidates |-> <<>>, network |-> <<>>],
             SelectSeq(files, ServesStation))

BestZone(candidates) ==
    IF \E i \in DOMAIN candidates : candidates[i].priced
    THEN SelectSeq(candidates, LAMBDA c : c.priced)[1].zone ELSE candidates[1].zone

\* Mutant of StopZones: a stop keeps its zone whether or not it has a price.
StopZonesAll(candidates, fares) == [n \in DOMAIN candidates |-> BestZone(candidates[n])]

StopZones(candidates, fares) ==
    [n \in {m \in DOMAIN candidates : BestZone(candidates[m]) \in PricedZones(fares)} |-> BestZone(candidates[n])]

\* Mutant of ApplyNetworkFares: the price for everywhere replaces the one of the pair.
ApplyNetworkFaresOver(network, zones, fares) ==
    FoldLeft(LAMBDA h, n :
               LET covered == {zones[s] : s \in DOMAIN zones \cap n.stops}
               IN  [pair \in DOMAIN h |->
                      IF Cardinality(covered) > 1 /\ {pair[1], pair[2]} \subseteq covered
                      THEN [k \in DOMAIN h[pair] \cup {n.kind} |-> IF k = n.kind THEN n.price ELSE h[pair][k]]
                      ELSE h[pair]],
             fares, network)

ApplyNetworkFares(network, zones, fares) ==
    FoldLeft(LAMBDA h, n :
               LET covered == {zones[s] : s \in DOMAIN zones \cap n.stops}
               IN  [pair \in DOMAIN h |->
                      IF Cardinality(covered) > 1 /\ {pair[1], pair[2]} \subseteq covered /\ n.kind \notin DOMAIN h[pair]
                      THEN [k \in DOMAIN h[pair] \cup {n.kind} |-> IF k = n.kind THEN n.price ELSE h[pair][k]]
                      ELSE h[pair]],
             fares, network)

NoData == [zones |-> <<>>, fares |-> <<>>]
ExtractFrom(merged, zones) ==
    IF zones = <<>> \/ merged.fares = <<>> THEN NoData
    ELSE [zones |-> zones, fares |-> ApplyNetworkFares(merged.network, zones, merged.fares)]
ExtractMerged(merged) == ExtractFrom(merged, StopZones(merged.candidates, merged.fares))
ExtractOperatorFares(files) == ExtractMerged(Merged(files))

-----------------------------------------------------------------------------
(* The run over the operators: kept results are taken as they are, failures are passed over. *)

Crashed == [failed |-> TRUE]

\* Mutant of KeptResult: what failed is kept as if nothing had been published.
KeptResultEven(outcome) == TRUE

KeptResult(outcome) == outcome \notin {Crashed, NoData}
RunOver(outcomes, kept, reached) ==
    [i \in 1..reached |-> IF i \in DOMAIN kept THEN kept[i] ELSE outcomes[i]]
KeptAfter(outcomes, kept, reached) ==
    [i \in DOMAIN kept \cup {j \in 1..reached : KeptResult(outcomes[j])} |-> IF i \in DOMAIN kept THEN kept[i] ELSE outcomes[i]]
Published(answers) == [i \in {j \in DOMAIN answers : KeptResult(answers[j])} |-> answers[i]]

-----------------------------------------------------------------------------
(* What the table may say. *)
\* The file states this price of this kind for a pair of zones: as the price of a group of
\* elements, of a product they sell, or in a fare table for products of the kind.
States(file, pair, kind, price) ==
    \/ \E e \in Range(file.elements) :
         /\ PairOf(e) = pair
         /\ \/ kind = "single" /\ e.group = price
            \/ \E p \in Range(file.products) : p.kind = kind /\ p.price = price /\ Sells(e, p)
    \/ \E p \in Range(file.prices) :
         /\ p.of \in IdsIn(file.elements) /\ PairOf(ElementNamed(file, p.of)) = pair
         /\ KindOf(file, p.product) = kind /\ p.price = price

\* A price outside of the tables, or one of another kind in a table, is a single's at best.
MayMean(file, pair, price) ==
    \E p \in Range(file.prices) :
      p.of \in IdsIn(file.elements) /\ PairOf(ElementNamed(file, p.of)) = pair /\ p.price = price

Amounts(file) == {e.group : e \in Range(file.elements)} \cup {p.price : p \in Range(file.products) \cup Range(file.prices)}
Says(file, pair, kind, price) ==
    \/ States(file, pair, kind, price)
    \/ /\ kind = "single" /\ MayMean(file, pair, price)
       /\ \A stated \in Amounts(file) \ {NoPrice} : ~States(file, pair, "single", stated)
Reads(files) == {f \in Range(files) : ServesStation(f)}

\* A price of the table is one that a file states for these two zones (a single's may be another
\* element price where none is stated), or a tariff's, of a kind that no file prices for them, for
\* two stops of the tariff's first zone; and the file read last that prices the pair is the one
\* that is followed (ZoneFares, _merge_dataset_results, _apply_network_fares).
PricesAreStated(files, data) ==
    \A pair \in DOMAIN data.fares : \A kind \in DOMAIN data.fares[pair] :
      LET pricing == {i \in DOMAIN files : files[i] \in Reads(files) /\ Has(FaresIn(files[i]), pair, kind)}
      IN  IF pricing # {}
          THEN LET last == CHOOSE i \in pricing : \A j \in pricing : j <= i
               IN  Says(files[last], pair, kind, data.fares[pair][kind])
          ELSE \E f \in Reads(files) : \E p \in Range(f.prices), z \in Range(f.zones) :
                 /\ p.of = "" /\ KindOf(f, p.product) = kind /\ p.price = data.fares[pair][kind]
                 /\ f.tariff # <<>> /\ z.id = f.tariff[1]
                 /\ \E a, b \in z.texts \cap DOMAIN data.zones : pair = <<data.zones[a], data.zones[b]>>

\* A stop of the table has a zone with a price, in which a file lists a stop of its name first;
\* and one that every file gives the same, priced zone is in the table (_resolve_stop_zones).
StopsCanBePriced(files, data) ==
    /\ \A n \in DOMAIN data.zones :
         /\ data.zones[n] \in PricedZones(data.fares)
         /\ \E f \in Reads(files) : \E i \in DOMAIN f.zones :
              LET lists(j) == \E id \in Range(f.zones[j].members) : id \in IdsIn(f.stops) /\ StopIn(f, id).name = n
              IN  f.zones[i].id = data.zones[n] /\ lists(i) /\ \A j \in 1..(i - 1) : ~lists(j)
    /\ data # NoData =>
         \A f \in Reads(files) : \A n \in DOMAIN ZonesOfStops(f) :
           /\ ZonesOfStops(f)[n] \in PricedZones(data.fares)
           /\ \A g \in Reads(files) : n \in DOMAIN ZonesOfStops(g) => ZonesOfStops(g)[n] = ZonesOfStops(f)[n]
           => n \in DOMAIN data.zones

\* Killed after any operator and started again, or with one of them failing the first time, the
\* run publishes what it would have published at once (main).
ResumesAsFromScratch(outcomes) ==
    LET all == Len(outcomes)
        scratch == Published(RunOver(outcomes, <<>>, all))
    IN  \A reached \in 0..all, failing \in 0..all :
          LET first == [i \in DOMAIN outcomes |-> IF i = failing THEN Crashed ELSE outcomes[i]]
          IN  Published(RunOver(outcomes, KeptAfter(first, <<>>, reached), all)) = scratch

FareTablesHold ==
    extraction # NoExtraction =>
      \A outcomes \in {[i \in DOMAIN extraction |-> ExtractOperatorFares(extraction[i])]} :
        /\ \A i \in DOMAIN extraction :
             PricesAreStated(extraction[i], outcomes[i]) /\ StopsCanBePriced(extraction[i], outcomes[i])
        /\ ResumesAsFromScratch(outcomes)
=============================================================================
