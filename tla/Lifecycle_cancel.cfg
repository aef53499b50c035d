SPECIFICATION Spec
CONSTANTS
  Runs = {r1}
  Sessions = {s1}
  SessionOf <- OneSession
  Approvals = {a1}
  ApprovalOf <- ApprovalsOfFirstRun
  Callers = {c1, c2}
  MaxCuts = 0
  MaxMisreads = 0
INVARIANTS
  StoppedSessionHasNoActiveRun
