\* Three resumes from the latest checkpoint, no approval.  A run may end.
SPECIFICATION FairSpec
CONSTANTS
  MaxToolIterations = 2
  Answers <- ReadAnswers
  ModelNamesCalls = FALSE
  ResumeNodes = {"context_packet", "model_request", "model_response", "tool_call", "tool_observation", "approval_pending", "terminal"}
  LatestOnly = TRUE
  MaxResumes = 3
CHECK_DEADLOCK FALSE
INVARIANTS
  RecordedNotRepeated
  RoundsBounded
PROPERTIES
  LoopExits
