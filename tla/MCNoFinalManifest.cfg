SPECIFICATION MCSpec
CONSTANTS
  TaskCount = 1
  RolloutCount = 2
  ErrorPolicies = {"stop_run", "continue_task", "continue_run"}
  MaxFaults = 1
  MaxInterrupts = 0
INVARIANTS
  EveryRunGetsAFinalManifest
