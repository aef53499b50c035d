\* An Emit during a query.
SPECIFICATION CacheSpec
CONSTANTS
  Runs = {r1}
  Emitters = {e1}
  Kinds = {tool}
  ExplicitSeqs = {}
  MaxSeq = 3
  MaxRestarts = 0
  Relevant = {tool}
INVARIANTS
  WorldStateConsistentWithJournal
