SPECIFICATION Spec
CONSTANTS
  Workers = {w1, w2}
  NumJobs = 4
  Suites <- MCSuites
  Skipped <- MCSkipped
CHECK_DEADLOCK FALSE
INVARIANTS
  TypeOK
  JobsConserved
  SuccessIsEarned
  CleanShutdown
PROPERTY
  Terminates
