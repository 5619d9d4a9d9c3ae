SPECIFICATION Spec
CONSTANTS
    Adults = {"a", "b", "c"}
    Children = {"k"}
    Gone = "gone"
    Households <- SomeHouseholds
    NoHousehold = NoHousehold
    Trips <- SomeTrips
    NoTrip = NoTrip
    NoFigure = NoFigure
    Unpriced = Unpriced
    Broken = Broken
    BusWalkPenalty = 10
    MaxWalkToStation = 20
    Searches <- SomeSearches
    NoSearch = NoSearch
    Lettered <- LetteredNumbers
    PlainNumbers = {"1", "2", "12"}
    UnitWords = {"FLAT", "UNIT", "APARTMENT", "MAISONETTE"}
    Roads <- SomeRoads
    Rates <- SomeRates
    Begins <- SomeBegins
    Renamed <- SomeRenamed
    Boroughs = {"ealing", "brent"}
    LondonEntry = "London boroughs"
    BuildingOf <- SomeBuildings
    Lookups <- SomeLookups
    NoLookup = NoLookup
    OutcodeOf <- Outcode
    Radius = 5
    MaxSingle = 3
    NoAnswer = NoAnswer
    Graphs <- SomeGraphs
    NoGraph = NoGraph
    Settings = {0, 1, 2}
    Areas <- SomeAreas
    NoArea = NoArea
    MaxLocations = 4
    MinIslandCells = 4
    NoRoad = NoRoad
    Offices = {"pimlico", "aldgate"}
    Lists <- SomeLists
    InBox = {"near", "mid", "named", "mistaken"}
    Inner = {"near"}
    Minutes <- SomeMinutes
    MinutesByName <- SomeMinutesByName
    Floors <- SomeFloors
    ShedConfigs = {60, 96}
    NoRoute = NoRoute
    NoShed = NoShed
    CheckpointEvery = 2
    Outages <- SomeOutages
    MaxRuns = 3
    MaxEdits = 1
    DriveSettings <- SomeDriveSettings
    NotSet = NotSet
    Overrides = {0, 75}
    Coordinates = {1, 2, 3}
    Houses = {"houses"}
    Unreachable = {3}
    NoFile = NoFile
    Torn = Torn
    MaxDrives = 2
    MaxChanges = 1
    OldTables <- OldTablesTried
    NewRows <- NewRowsTried
    Manifests <- ManifestsTried
    SlugOf <- SlugsTried
    Ids <- IdsTried
    NoOne = NoOne
    Null = Null
    Unreadable = Unreadable
    Now = 9
    BatchRows = 2
    MaxStarts = 2
    MaxSaves = 1
    Formulas <- FormulasTried
    NoFormula = NoFormula
    Internal <- InternalTexts
    Depth = 3
    Extractions <- SomeExtractions
    NoExtraction = NoExtraction
    NoPrice = NoPrice
    GraphCases <- SomeGraphCases
    NoGraphCase = NoGraphCase
    Pipelines <- SomePipelines
    FirstChild = "kim"
    TflCallers = {c1, c2}
    TflUses = {"plan", "duration", "fare"}
    TflWorlds <- SomeWorlds
    TflFailures = {"busy", "refused", "garbled"}
    MaxUses = 2
    WireCases <- SomeWireCases
    NoWireCase = NoWireCase
    Missing = Missing
CHECK_DEADLOCK FALSE
INVARIANTS FiguresAgree PurchaseHolds CommuteHolds LookupsHold GraphsAgree AreasAreDrawn BatchesAgree MigrationHolds ExpressionsHold FareTablesHold
