\* Two runs of one session, three calls at once (two loops and a host call), one
\* cancelled context or crash, and two failed lookups of the session.
SPECIFICATION Spec
CONSTANTS
  Runs = {r1, r2}
  Sessions = {s1}
  SessionOf <- OneSession
  Approvals = {a1}
  ApprovalOf <- ApprovalsOfFirstRun
  Callers = {c1, c2, c3}
  MaxCuts = 1
  MaxMisreads = 2
SYMMETRY CallerSymmetry
INVARIANTS
  DrainNeverStranded
  StoppedSessionRunsNothing
  RunningRunIsDriven
  EndedMeansStopped
PROPERTIES
  ImplementsGate
  LeasesAreLocks
