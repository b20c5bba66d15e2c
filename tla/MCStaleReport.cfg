SPECIFICATION StorageSpec
CONSTANTS
  Components = {"reports"}
  TrainingRuns = {"t1", "t2"}
  Contents = {"c1", "c2"}
  NoContent = "none"
  MaxTrainErrors = 1
  MaxTrainInterrupts = 2
  MaxTrainKills = 1
  Resolvers = {"p", "q"}
  Requests <- MCRequests
  MaxChanges = 2
  MaxResolverKills = 1
  Managers = {"m1", "m2", "m3"}
  Targets = {"s", "t"}
  Remote = {"t"}
  Paired = {"t"}
  MaxDataFaults = 1
  Names = {"n1", "n2"}
  Hashes = {"h"}
  ShortHash <- MCShortHash
  Engines = {"p", "q"}
  MaxSourceEpisodes = 1
  MaxGenerations = 2
  MaxReportFaults = 1
  Exporters = {"p", "q"}
  ExportRuns = {"a", "b", "c"}
  SuiteOf <- MCSuiteOf
  ModelOf <- MCModelOf
  SchemaOf <- MCSchemaOf
  Exports = {"iso", "grp"}
  IsolatedOf <- MCIsolatedOf
  MaxExports = 3
  MaxExportFaults = 1
  Setups <- MCSetups
  PolicyEpisodes = {"e1", "e2"}
  PoseValues = {0, 11}
  GripperValues = {0, 5, 11}
  ChunkLength = 2
  MaxLoads = 2
  MaxIssued = 2
  MaxSnapshotChanges = 1
  MaxRuntimeFaults = 1
  QuicSettings <- MCQuicSettings
  Payloads <- MCPayloads
  TensorFiles = {"t1", "t2"}
  HostModels <- MCHostModels
  QuicEpisodes = {"e1", "e2"}
  GripperCodes = {0, 5, 11}
  MaxReplacements = 2
  MaxProviderFaults = 1
  MaxAnswers = 2
CHECK_DEADLOCK FALSE
INVARIANT ReportsDescribeTheirInputs
