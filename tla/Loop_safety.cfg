\* Two resumes, from any approval or checkpoint of the run.  A run may end.
SPECIFICATION Spec
CONSTANTS
  MaxToolIterations = 2
  Answers <- MixAnswers
  ModelNamesCalls = TRUE
  ResumeNodes = {"model_response", "tool_call", "tool_observation", "approval_pending"}
  LatestOnly = FALSE
  MaxResumes = 2
CHECK_DEADLOCK FALSE
INVARIANTS
  NothingRunsUnapproved
  FreshRunConverges
  EveryCallAnswered
  SuspendedRunResumable
