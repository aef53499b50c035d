\* Two emitters beside the queries of the owner, one restart.
SPECIFICATION CacheSpec
CONSTANTS
  Runs = {r1}
  Emitters = {e1, e2}
  Kinds = {tool, heartbeat}
  ExplicitSeqs = {}
  MaxSeq = 3
  MaxRestarts = 1
  Relevant = {tool}
SYMMETRY EmitterSymmetry
INVARIANTS
  AnswerMissesOnlyRaced
  WatermarkExactWhenQuiet
PROPERTIES
  ImplementsLog
