SPECIFICATION MCSpec
CONSTANTS
  TaskCount = 2
  RolloutCount = 2
  ErrorPolicies = {"stop_run", "continue_task", "continue_run"}
  MaxFaults = 2
  MaxInterrupts = 1
INVARIANTS
  CompletedMeansComplete
  ErrorPolicyRespected
  FinalManifestSealsRun
  ManifestAgreesWithOutcome
PROPERTIES
  FinalizedRunIsImmutable
  RunEnds
