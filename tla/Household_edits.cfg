SPECIFICATION EditSpec
CONSTANTS
    People = {"p", "q"}
    Figures = {0, 1}
    Original <- Unchanged
    Malformed = TRUE
    Crashes = TRUE
    MaxActs = 4
    MaxRestarts = 1
    Documents <- SomeHouseholds
    SchoolLabels = {"Primary"}
    DefaultMpg = 45
    Unroutable = {"nowhere"}
    MaxWrites = 2
    MaxOpenings = 2
INVARIANTS RestorePoint RealWhenInactive HouseholdIsFollowed
CHECK_DEADLOCK FALSE
