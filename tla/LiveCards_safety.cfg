SPECIFICATION FairSpec
CONSTANTS
    Rids = {"home", "r"}
    Clients = {"c"}
    Home = "home"
    Costed = {"home", "r"}
    Failing = {"r"}
    NoCard = NoCard
    MaxVersion = 1
    MaxTroubles = 2
    MaxLoads = 1
INVARIANT UpdateIsComing
PROPERTY UpdatesArrive
CHECK_DEADLOCK FALSE
