SPECIFICATION FairSpec
CONSTANTS
  Boxes = {"houses","houses-standby"}
  NoBox = NoBox
  LiveInstance = "houses"
  Runs = {1,2,3}
  MaxActive = 2
  MaxWrites = 2
  RunnersDie = TRUE
INVARIANTS NoWriteLost LiveIsComplete 
PROPERTIES FreezeEnds
CHECK_DEADLOCK FALSE
