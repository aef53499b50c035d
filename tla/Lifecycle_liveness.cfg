\* Two runs of one session, two calls at once, one cancelled context: a drain
\* that is stranded by it, and one that is not.
SPECIFICATION FairSpec
CONSTANTS
  Runs = {r1, r2}
  Sessions = {s1}
  SessionOf <- OneSession
  Approvals = {a1}
  ApprovalOf <- ApprovalsOfFirstRun
  Callers = {c1, c2}
  MaxCuts = 1
  MaxMisreads = 0
PROPERTIES
  DrainCompletes
