\* Three runs in two sessions, one record, two grants.
SPECIFICATION Spec
CONSTANTS
  Runs = {"r1", "r2", "r3"}
  SessionOf <- SessionOfRuns
  Checks <- SomeChecks
  Tasks = {"none", "t1"}
  Overrides <- SomeOverrides
  ModelApprovals <- SomeApprovals
  MaxRequests = 1
  MaxGrants = 2
INVARIANTS
  AdmittedIsCovered
  DecisionHonoured
  SnapshotFollowsRecords
  OfferedDecisionsAccepted
  ActiveGrantsHold
  AuthorizedIsAdmitted
