----------------------------- MODULE HousingCost -----------------------------
(***************************************************************************)
(* The money of one property for one household: stamp duty, the loan, the  *)
(* deposit each person brings (houses/model/domain.py, houses/nodes and    *)
(* settings_payload.py), and the monthly cost computed twice: as one total *)
(* (TotalMonthlyHousingCostNode) and as the two figures of the headline    *)
(* (GroupMonthlyCostNode).                                                 *)
(*                                                                         *)
(* Amounts are whole numbers of a unit (a pound, or a fraction so small    *)
(* that what is paid a month is whole, see WellFormed).  What the code     *)
(* prices in four-decimal shares is kept in ten-thousandths.               *)
(***************************************************************************)
EXTENDS Integers, Sequences, FiniteSets, FiniteSetsExt

CONSTANTS
    Adults,        \* names of the adults of the household
    Children,      \* names of the children
    Gone,          \* a name that belongs to nobody any more
    Households,    \* the households and properties to be priced
    NoHousehold

ASSUME HouseholdAssumption ==
    /\ IsFiniteSet(Adults) /\ Adults # {} /\ IsFiniteSet(Children)
    /\ Adults \cap Children = {} /\ Gone \notin Adults \cup Children

VARIABLE household

People == Adults \cup Children
Monthly(yearly) == yearly \div 12
AtLeastZero(n) == IF n < 0 THEN 0 ELSE n

-----------------------------------------------------------------------------
(***************************************************************************)
(* Tiered rates                                                            *)
(***************************************************************************)
Open == -1
\* StampDutyNode's bands, in thousands of pounds; rates in per cent.
Bands == << [from |-> 0, to |-> 250, rate |-> 0], [from |-> 250, to |-> 925, rate |-> 5],
            [from |-> 925, to |-> 1500, rate |-> 10], [from |-> 1500, to |-> Open, rate |-> 12] >>

\* Mutant: a band starts above its boundary and the one before ends below it.
InBandStrictly(price, i) ==
    Bands[i].from < price /\ (Bands[i].to = Open \/ price < Bands[i].to)

\* A price on a boundary is in both bands; the first one is taken.
InBand(price, i) == Bands[i].from <= price /\ (Bands[i].to = Open \/ price <= Bands[i].to)

\* TieredRate.evaluate: the tax of the band the price is in and of all before it.
TaxAt(price, i) ==
    (price - Bands[i].from) * Bands[i].rate
        + SumFunction([j \in 1 .. i - 1 |-> (Bands[j].to - Bands[j].from) * Bands[j].rate])

Untaxable == -1
TieredRate(price) ==
    LET bands == {i \in DOMAIN Bands : InBand(price, i)}
    IN  IF bands = {} THEN Untaxable ELSE TaxAt(price, Min(bands))

StampDuty(current, price) == IF current THEN 0 ELSE TieredRate(price)

(***************************************************************************)
(* PMT, with whole monthly rates so that powers stay integers: the payment *)
(* times Annuity.                                                          *)
(***************************************************************************)
\* (1 + rate)^months
Compound(rate, months) ==
    LET grown[m \in 0 .. months] == IF m = 0 THEN 1 ELSE (1 + rate) * grown[m - 1]
    IN  grown[months]

Annuity(rate, months) == IF rate = 0 THEN months ELSE Compound(rate, months) - 1
\* Mutant: a payment at the start of each month.
PMTInAdvance(principal, rate, months) ==
    IF rate = 0 THEN principal ELSE principal * rate * Compound(rate, months - 1)

PMT(principal, rate, months) ==
    IF rate = 0 THEN principal ELSE principal * rate * Compound(rate, months)

-----------------------------------------------------------------------------
(***************************************************************************)
(* The deposit                                                             *)
(***************************************************************************)
HasCoOwners(person) == person.coOwners # <<>>
CoOwnersOf(person) == {person.coOwners[i].name : i \in DOMAIN person.coOwners}
EntriesOf(person, name) == {i \in DOMAIN person.coOwners : person.coOwners[i].name = name}
ShareOf(person, name) == SumFunction([i \in EntriesOf(person, name) |-> person.coOwners[i].share])
GivenAway(person) == SumFunction([i \in DOMAIN person.coOwners |-> person.coOwners[i].share])

EffectiveSellingHome(person) ==
    IF person.selling # "unset" THEN person.selling = "yes"
    ELSE person.sale # 0 \/ person.owed # 0

Sellers(h) == {p \in Adults : EffectiveSellingHome(h.persons[p])}
Gross(h, p) == AtLeastZero(h.persons[p].sale - h.persons[p].owed)

\* Mutant: the holder of a home keeps all of it.
EquityForHolder(h, p) ==
    (IF p \in Sellers(h) THEN Gross(h, p) * 100 ELSE 0)
        + SumFunction([q \in Sellers(h) \ {p} |-> Gross(h, q) * ShareOf(h.persons[q], p)])

\* _equity_for, in hundredths of a pound: what is left of one's own home, and the
\* shares in the homes of others.
EquityFor(h, p) ==
    (IF p \in Sellers(h) THEN Gross(h, p) * (100 - GivenAway(h.persons[p])) ELSE 0)
        + SumFunction([q \in Sellers(h) \ {p} |-> Gross(h, q) * ShareOf(h.persons[q], p)])

HomeEquityContributions(h) == [p \in Adults |-> EquityFor(h, p)]

\* EquityTotalNode.compute: cash counts for a purchase only.
EquityTotal(h) ==
    SumFunction([p \in Adults |-> HomeEquityContributions(h)[p]
                                   + (IF h.current THEN 0 ELSE 100 * h.persons[p].cash)])

\* _deposit_breakdown of the settings page.
DepositOf(h, p) == HomeEquityContributions(h)[p] + 100 * h.persons[p].cash
DepositTotal(h) == SumFunction([p \in Adults |-> DepositOf(h, p)])

\* The homes of others in which p has a part that counts.
Sources(h, p) == {q \in Sellers(h) \ {p} : p \in CoOwnersOf(h.persons[q])}

\* Mutant: the line of a holder states the whole sale although parts of it are given away.
LineOfSoleOwner(h, p, cash) ==
    LET person == h.persons[p]
        share == HomeEquityContributions(h)[p]
    IN  [result |-> share + cash,
         terms |-> {<<"cash", cash>>} \cup
            (IF EffectiveSellingHome(person) /\ share > 0
             THEN {<<"sale", 100 * person.sale>>, <<"mortgage", -100 * person.owed>>} ELSE {})]

\* _co_owner_source_line: of all the entries that name p, the last one in the home of the last
\* holder listed (any of them here) stands in the line.
LastPart(h, p) ==
    LET last == CHOOSE q \in Sources(h, p) : TRUE
        entries == h.persons[last].coOwners
    IN  Gross(h, last) * entries[Max(EntriesOf(h.persons[last], p))].share

\* equity_line: the terms the line lists, by its branches, and the result it states.  The
\* settings page shows the cash, the equity node none of it for a current home.
EquityLine(h, p, cash) ==
    LET person == h.persons[p]
        share == HomeEquityContributions(h)[p]
        holds == share > 0 /\ EffectiveSellingHome(person)
        home == IF holds /\ GivenAway(person) = 0
                THEN {<<"sale", 100 * person.sale>>, <<"mortgage", -100 * person.owed>>}
                ELSE IF holds THEN {<<"home", 100 * Gross(h, p)>>, <<"home share", share>>}
                ELSE IF share > 0 THEN {<<"part", LastPart(h, p)>>}
                ELSE {}
    IN  [result |-> share + cash, terms |-> home \cup {<<"cash", cash>>}]

-----------------------------------------------------------------------------
(***************************************************************************)
(* The monthly cost as one total                                           *)
(***************************************************************************)
\* CommuteBreakdownNode.compute
CommuteYearly(h, p) == h.persons[p].daily * h.persons[p].trips * h.persons[p].weeks
CommuteTotal(h) == SumFunction([p \in People |-> CommuteYearly(h, p)])

\* What the settings and the listing may hold (_parse_co_owners, _parse_money): parts of a
\* home are whole per cents, not more than a hundred in all.  The unit is so small that a
\* year's commute is a whole number of it a month.
WellFormed(h) ==
    /\ h.price \in Nat \ {0}
    /\ {h.sinking, h.payment, h.rental, h.council, h.annexe} \subseteq Int
    /\ \A p \in People :
          LET person == h.persons[p]
          IN  /\ {person.sale, person.owed, person.cash, person.insurance, person.rent} \subseteq Int
              /\ {person.daily, person.trips, person.weeks} \subseteq Int
              /\ CommuteYearly(h, p) % 12 = 0
              /\ person.coOwners \in Seq([name : STRING, share : 1 .. 100])
              /\ GivenAway(person) <= 100

ASSUME AmountsAssumption == \A h \in Households : WellFormed(h)

LifeInsuranceTotal(h) == SumFunction([p \in People |-> h.persons[p].insurance])
MonthlySinkingFund(h) == Monthly(h.sinking)

\* Mutant: an owner-occupied home keeps the costs of a purchase.
TotalWithoutStatus(h) ==
    h.payment + MonthlySinkingFund(h) + LifeInsuranceTotal(h)
        + Monthly(CommuteTotal(h)) + Monthly(h.council) - h.rental

TotalMonthlyHousingCost(h) ==
    h.payment
        + (IF h.current THEN 0 ELSE MonthlySinkingFund(h) + LifeInsuranceTotal(h))
        + Monthly(CommuteTotal(h)) + Monthly(h.council) - h.rental

-----------------------------------------------------------------------------
(***************************************************************************)
(* The monthly cost as the joint owners' figure and the others'            *)
(***************************************************************************)
HoldsHome(person) == person.sale > 0 \/ person.owed > 0 \/ HasCoOwners(person)

\* joint_owner_names: names, of which some may belong to no adult.
JointOwnerNames(h) ==
    LET names == {p \in Adults : HoldsHome(h.persons[p])}
                   \cup UNION {CoOwnersOf(h.persons[p]) : p \in Adults}
    IN  IF names = {} THEN Adults ELSE names

Couple(h) == Adults \cap JointOwnerNames(h)
Others(h) == Adults \ JointOwnerNames(h)

\* A share rounded to four decimals, in ten-thousandths.  Ties, of which the code rounds
\* up or down by their last digit, need 32 adults.
Share(part, whole) == (20000 * part + whole) \div (2 * whole)

\* Mutant: a payer who left still counts in the denominator.
PayersWithStaleNames(stored) == stored

\* payer_split: stored names are matched against the household.
MatchedPayers(stored) == stored \cap Adults

\* _annexe_allocation: an annexe that is billed, and not ignored, is paid by the
\* matching payers, by all adults when none is left.
AnnexeMonthly(h) == IF h.annexeIgnored THEN 0 ELSE Monthly(h.annexe)
AnnexePayers(h) ==
    IF AnnexeMonthly(h) = 0 THEN {}
    ELSE IF MatchedPayers(h.annexePayers) = {} THEN Adults ELSE MatchedPayers(h.annexePayers)

MainShare(h, group, share) ==
    LET payers == MatchedPayers(h.councilPayers)
    IN  Monthly(h.council) * (IF payers = {} THEN share
                              ELSE Share(Cardinality(group \cap payers), Cardinality(payers)))

AnnexeShare(h, group) ==
    LET payers == AnnexePayers(h)
    IN  IF payers = {} THEN 0
        ELSE AnnexeMonthly(h) * Share(Cardinality(group \cap payers), Cardinality(payers))

SinkingShare(h, share) == IF h.current THEN 0 ELSE share * MonthlySinkingFund(h)
RentPaid(h, group) ==
    IF h.current THEN SumFunction([p \in group |-> h.persons[p].rent]) ELSE 0
Insurance(h, group) ==
    IF h.current THEN 0 ELSE SumFunction([p \in group |-> h.persons[p].insurance])
Commutes(h, group) == SumFunction([p \in group |-> Monthly(CommuteYearly(h, p))])

\* group_figure, with the rent row of _group_figure_result
GroupFigure(h, group, share) ==
    10000 * (Commutes(h, group) + Insurance(h, group) + RentPaid(h, group))
        + MainShare(h, group, share) + AnnexeShare(h, group) + SinkingShare(h, share)

\* _assemble_result: the owners' share counts names, the others' share people.
OwnerShare(h) == Share(Cardinality(JointOwnerNames(h)), Cardinality(Adults))
OthersShare(h) == Share(Cardinality(Others(h)), Cardinality(Adults))
CoupleValue(h) == GroupFigure(h, Couple(h), OwnerShare(h)) + 10000 * (h.payment - h.rental)
OthersValue(h) == GroupFigure(h, Others(h), OthersShare(h))

-----------------------------------------------------------------------------
(***************************************************************************)
(* Properties                                                              *)
(***************************************************************************)
\* Nobody owns a part of a home under a name that is not an adult's.
OwnersKnown(h) == JointOwnerNames(h) \subseteq Adults

ChildCosts(h) ==
    SumFunction([p \in Children |-> Monthly(CommuteYearly(h, p))])
        + (IF h.current THEN 0 ELSE SumFunction([p \in Children |-> h.persons[p].insurance]))

\* The two figures of the headline and the one total are the same money: together
\* the figures are the total, with the annexe's bill and the rent of the current
\* home, which only they count, and without what children cost, which only the total
\* counts.  Every bill is allocated in full whatever payers were stored.
FiguresAgree ==
    household # NoHousehold /\ OwnersKnown(household) =>
        CoupleValue(household) + OthersValue(household)
          = 10000 * (TotalMonthlyHousingCost(household) + AnnexeMonthly(household)
                     + RentPaid(household, Adults) - ChildCosts(household))

\* The deposit is shared out, not changed: what the household brings is the value of
\* the homes that are sold and its cash, less what was promised to names nobody has.
DepositIsShared(h) ==
    LET lost(q) == Gross(h, q) * SumFunction([n \in CoOwnersOf(h.persons[q]) \ (Adults \ {q})
                                                 |-> ShareOf(h.persons[q], n)])
        homes == SumFunction([q \in Sellers(h) |-> 100 * Gross(h, q) - lost(q)])
        cash == SumFunction([p \in Adults |-> 100 * h.persons[p].cash])
    IN  /\ EquityTotal(h) = homes + (IF h.current THEN 0 ELSE cash)
        /\ DepositTotal(h) = homes + cash

\* The home equity of p comes from one home, of which p is named a part once.
OneHome(h, p) ==
    /\ Cardinality(Sources(h, p) \cup ({p} \cap Sellers(h))) <= 1
    /\ \A q \in Sources(h, p) : Cardinality(EntriesOf(h.persons[q], p)) = 1
\* The whole home, which the line of a holder who keeps a part of it states before that part.
StatedTwice(h, p) ==
    IF p \in Sellers(h) /\ GivenAway(h.persons[p]) # 0 /\ HomeEquityContributions(h)[p] > 0
    THEN 100 * Gross(h, p) ELSE 0

\* A line of the deposit's provenance adds up to the result it states, for a person whose
\* home equity comes from one home -- but that a holder who gave parts of a home away reads the
\* whole home and the part kept, so that the terms exceed the result by the home.
LineAddsUp(h, p) ==
    OneHome(h, p) =>
      \A cash \in {0, 100 * h.persons[p].cash} :
        LET line == EquityLine(h, p, cash)
        IN  line.result + StatedTwice(h, p) = SumFunction([t \in line.terms |-> t[2]])

\* Stamp duty is the marginal tax: every pound is taxed at the rate of its own band
\* and no other, at and around each boundary.
DutyIsMarginal(price) ==
    LET taxed(i) == LET end == IF Bands[i].to = Open \/ price < Bands[i].to THEN price ELSE Bands[i].to
                    IN  AtLeastZero(end - Bands[i].from) * Bands[i].rate
    IN  TieredRate(price) = SumFunction([i \in DOMAIN Bands |-> taxed(i)])

\* Paying PMT every month repays the loan in the last month and not before.
LoanIsRepaid(loan, rate, months) ==
    LET a == Annuity(rate, months)
        balance[m \in 0 .. months] ==
            IF m = 0 THEN loan * a ELSE (1 + rate) * balance[m - 1] - PMT(loan, rate, months)
    IN  \A m \in 0 .. months : balance[m] = 0 <=> m = months

\* What a purchase takes: the settings page and the equity node agree on what the household
\* brings, home equity is attributed without loss and each line of its explanation adds up,
\* as far as LineAddsUp says; and the duty and the loan's payments do what their names say.
PurchaseHolds ==
    household # NoHousehold =>
        /\ DepositIsShared(household)
        /\ \A p \in Adults : LineAddsUp(household, p)
        /\ DutyIsMarginal(household.price)
        /\ \A rate \in 0 .. 2, months \in 1 .. 6 : LoanIsRepaid(household.price, rate, months)
=============================================================================
