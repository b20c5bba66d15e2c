SPECIFICATION MCSpec
CONSTANTS
  pick = pick
  place = place
  MaximumSteps = 3
  MaximumHorizon = 3
  Modes = {"receding_horizon", "open_loop_chunk", "fixed_replan_interval"}
  ReplanInterval = 2
  Instructions = {pick, place}
  InitialInstruction = pick
  RecordObservations = TRUE
  MaxEpisodes = 2
  MaxInterrupts = 2
INVARIANTS
  ExecutesCurrentInstruction
  ReplansExactlyWhenDue
  ExecutionIsRecorded
PROPERTIES
  ImplementsContract
  EveryEpisodeEnds
