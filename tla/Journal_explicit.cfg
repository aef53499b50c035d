\* Drafts with a sequence of their own, above and below the journal's end.
SPECIFICATION FairSpec
CONSTANTS
  Runs = {r1}
  Emitters = {e1, e2, e3}
  Kinds = {tool, heartbeat}
  ExplicitSeqs = {1, 3}
  MaxSeq = 3
  MaxRestarts = 1
INVARIANTS
  AllocationStillFresh
PROPERTIES
  EmitTerminates
