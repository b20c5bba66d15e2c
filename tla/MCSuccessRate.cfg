SPECIFICATION HostSpec
CONSTANTS
  Components = {"metrics"}
  Jobs <- MCJobs
  BatchStreams <- MCBatchStreams
  Episodes <- MCEpisodes
  GroupOf <- MCGroupOf
  MaxFrames = 3
  Ranks <- MCRanks
  Settings <- MCSettings
  MaxPasses = 1
  Deployers = {"d1", "d2", "d3"}
  DeployConfigs = {"c1", "c2"}
  MaxContainers = 2
  MaxDeployFaults = 2
  Deployments = {"p", "q"}
  MaxForeignRuns = 1
  MaxComposeFaults = 2
  MaxOwnerFaults = 3
  ReportTasks = {"s", "t"}
  Rollouts = 2
  Endings = {"success", "failure", "time_limit", "policy_error", "aborted"}
  Samples = {0, 1, 7}
  NonFinite = 99
  MaxSamples = 6
  ShownSamples = 4
  Simulators = {"a", "b", "c"}
  MaximumSteps = 3
  InitialStates = 2
  Profiles = {"primary_rgb", "native_oft"}
  MaxSimFaults = 2
  Trees <- MCTrees
  HostStates <- MCHosts
  Rewrites <- MCRewrites
  MaxRewrites = 1
  Pairings <- MCPairings
  Primary = "primary"
  ProtocolDimension = 7
  MaxImageBytes = 6
  MaxProprioBytes = 8
  MaxFrameBytes = 20
  ActionValues = {2, 4, 5, 7}
  MaxExchanges = 2
  MaxPolicyFaults = 1
  MetricPlans <- MCMetricPlans
  ActionKinds <- MCActionKinds
  MaxActions = 4
  MaxRollouts = 2
CHECK_DEADLOCK FALSE
INVARIANT PolicyErrorsAreEligible
