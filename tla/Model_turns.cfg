\* A window of three messages on runs of up to five rounds.
SPECIFICATION Spec
CONSTANTS
  notes = notes
  wiki = wiki
  x = x
  Providers = {notes, wiki}
  Tools <- ReadersByName
  read = read
  Joint = Joint
  NameParts <- PartsOfNames
  MaxProviders = 2
  MaxToolIterations = 5
  MaxMessages = 3
  RepeatThreshold = 3
  IterationFloor = 2
  StreakThreshold = 2
  HasInput = TRUE
  Results = {ok}
  MaxCalls = 2
  MaxCallsInRun = 4
  MaxResumes = 2
INVARIANTS
  WindowIsOfTheWhole
  MessagesBounded
  TaskAndRoundsKept
  StallIsSteered
  RoutedAsChecked
CHECK_DEADLOCK FALSE
