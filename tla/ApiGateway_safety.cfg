SPECIFICATION FairSpec
CONSTANTS
  Callers = {"a","b","d"}
  Requests = {"r"}
  Bare = {}
  Pace = 2
  DayLength = 4
  Answers = {"data","overlimit","garbled","notfound","quota","busy"}
  Legacy = {"busy"}
  MaxTime = 6
  MaxRestarts = 1
INVARIANTS OverrunBounded AnswersAreGenuine
PROPERTIES StoredIsWhatWasGiven CallsEnd
CHECK_DEADLOCK FALSE
