\* One run beside another; up to three events, or up to three artifacts.
SPECIFICATION Spec
CONSTANTS
  asker = asker
  mover = mover
  custom = custom
  None = None
  Handles = {h1}
  Runs = {"r1", "r2"}
  Run = "r1"
  Paths = {p1}
  Contents = {x, y}
  Calls = {c1}
  Tools = {t1}
  Records = {m1}
  HostProviders <- SomeProviders
  Namings <- SomeNamings
  Holders <- SomeHolders
  Outages <- SomeOutages
  TaskWindow = 2
  Instances <- EventsOrFiles
INVARIANTS
  StaleOnlyByQuietChange
  ActivityFollowsJournal
  ListedIsServed
  MaterializedAsRegistered
  PathStaysWritable
PROPERTIES
  EditsSurvive
  ImplementsStore
