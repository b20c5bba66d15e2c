-------------------------------- MODULE MCHost --------------------------------
(* The components that drive containers, processes and the simulator, and   *)
(* the algorithms of training and reporting, each checked by itself: `part` *)
(* names the one a behaviour is about.                                      *)
EXTENDS TrainingLoop, EpisodePartition, ModelDeployment, ComposeDeployment,
        ServiceProcess, ReportModel, LiberoAdapter, ConfigResolution, PolicyExchange,
        EpisodeMetrics
CONSTANT Components
VARIABLE part

MCJobs ==
  {[method |-> m, head |-> h, fit |-> f, partition |-> p, accumulation |-> a, maxSteps |-> n] :
     m \in {"quic", "lora", "full"}, h, f, p \in BOOLEAN, a, n \in 1..2}
MCBatchStreams == {<<>>, <<2>>, <<2, 1>>, <<2, 2, 1>>, <<1, 2, 2, 1>>}

MCEpisodes == {1, 2, 3, 4}
MCGroupOf == [e \in MCEpisodes |-> IF e = 4 THEN "b" ELSE "a"]
MCRanks == {[e \in MCEpisodes |-> e], [e \in MCEpisodes |-> 5 - e]}
\* The last one rounds a group of three as 0.28 does one of 25 episodes.
MCSettings ==
  {[limit |-> 0, cap |-> 0, stride |-> 1, part |-> 1, whole |-> 3, over |-> {}],
   [limit |-> 2, cap |-> 1, stride |-> 2, part |-> 9, whole |-> 10, over |-> {}],
   [limit |-> 0, cap |-> 2, stride |-> 2, part |-> 1, whole |-> 2, over |-> {}],
   [limit |-> 0, cap |-> 1, stride |-> 1, part |-> 1, whole |-> 3, over |-> {3}]}

Doc(kind, parent, type, given) ==
  [kind |-> kind, extends |-> parent, type |-> type,
   set |-> [k \in SettingKeys |-> IF k \in DOMAIN given THEN given[k] ELSE "unset"]]
MCBase ==
  Doc("policy", "none", "openvla_vanilla",
      [checkpoint |-> "c1", processor |-> "c1", camera |-> "cam", action |-> "act",
       raw |-> "false", local_only |-> "true", quantization |-> "none"])
MCTree ==
  [exp |-> Doc("experiment", "none", "none",
               [policy |-> "pol", benchmark |-> "bench", protocol |-> "proto",
                registry |-> "reg", profile |-> "openvla"]),
   pol |-> Doc("policy", "base", "openvla_vanilla", [raw |-> "true"]),
   base |-> MCBase,
   bench |-> Doc("benchmark", "none", "libero",
                 [camera |-> "cam", action |-> "act", steps |-> "10", suite |-> "libero_10"]),
   proto |-> Doc("protocol", "none", "none",
                 [mode |-> "receding_horizon", interval |-> "1", steps |-> "20", record_raw |-> "true"]),
   reg |-> Doc("resource_registry", "none", "none", [c1 |-> "remote/main", c2 |-> "p2"])]
MCRewrites ==
  [exp |-> {Doc("experiment", "none", "none",
               [policy |-> "pol", benchmark |-> "bench", protocol |-> "proto",
                registry |-> "reg", profile |-> "oft"])},
   pol |-> {MCBase, Doc("policy", "pol", "openvla_vanilla", [raw |-> "true"]),
            Doc("policy", "base", "openvla_oft", [raw |-> "true"]),
            Doc("policy", "base", "openvla_vanilla", [raw |-> "true", processor |-> "c2"]),
            [MCBase EXCEPT !.type = "openvla_oft", !.set["checkpoint"] = "c2"],
            [MCBase EXCEPT !.type = "openvla_quic"]},
   base |-> {[MCBase EXCEPT !.set["camera"] = "unset"]},
   bench |-> {Doc("benchmark", "none", "mock",
                 [camera |-> "cam", action |-> "act", steps |-> "10"])},
   proto |-> {Doc("protocol", "none", "none",
                 [mode |-> "receding_horizon", interval |-> "2", steps |-> "20", record_raw |-> "false"])},
   reg |-> {Doc("resource_registry", "none", "none", [c1 |-> a, c2 |-> b]) :
              a \in {"local/main", "p1"}, b \in {"p2", "remote/main"}}
           \union {Doc("resource_registry", "none", "none", [c1 |-> "undigested", c2 |-> "p2"]),
                   Doc("resource_registry", "none", "none",
                       [c1 |-> "p1", c1_method |-> "lora", c2 |-> "p2"])}]
\* A merged LoRA policy, whose checkpoint must be declared as one.
MCLora ==
  [MCTree EXCEPT !["pol"].type = "openvla_lora_merged", !["base"].type = "openvla_lora_merged",
                 !["reg"].set = [@ EXCEPT !["c1"] = "p1", !["c1_method"] = "lora"]]
MCHosts ==
  {[runs |-> r, images |-> i, adapter |-> r # "file"] :
     r \in {"absent", "directory", "file"},
     i \in {{"benchmark", "openvla", "oft", "quic", "reporting"}, {"benchmark", "oft", "reporting"}}}
MCTrees == {MCTree, MCLora} \union
  UNION {{[MCTree EXCEPT ![d] = doc] : doc \in MCRewrites[d]} : d \in DOMAIN MCTree}

Shape(n, c) == [pixels |-> n, channels |-> c]
Camera(n, shapes) ==
  [name |-> n, shapes |-> shapes, dtype |-> "uint8", encodings |-> {"raw"}, colors |-> {"rgb"},
   required |-> TRUE, min |-> 1, max |-> 1]
Vector(n, sizes) == [name |-> n, shapes |-> sizes, dtype |-> "float32", units |-> "m", required |-> TRUE]
MCAction == [dimension |-> 7, convention |-> "delta", gripper |-> "closed_positive", dtype |-> "float32",
             low |-> 2, high |-> 6]
MCBench ==
  [version |-> 1, images |-> {Camera("primary", {Shape(1, 3)})}, proprio |-> {}, privileged |-> {"state"},
   action |-> MCAction, dynamic |-> FALSE, source |-> "benchmark"]
MCDual == [MCBench EXCEPT !.images = @ \union {Camera("wrist", {Shape(1, 3)})}, !.proprio = {Vector("state", {1})}]
Benches ==
  {MCBench, MCDual,
   [MCBench EXCEPT !.images = {Camera("primary", {Shape(1, 3), Shape(2, 3)})}],
   [MCBench EXCEPT !.images = {[Camera("primary", {Shape(1, 3)}) EXCEPT !.colors = {"rgb", "bgr"}, !.max = 2]}],
   [MCBench EXCEPT !.images = {Camera("wrist", {Shape(1, 3)})}, !.dynamic = TRUE],
   [MCBench EXCEPT !.images = {Camera("primary", {Shape(3, 3)})}, !.source = "user"],
   [MCDual EXCEPT !.images = {Camera("primary", {Shape(2, 3)}), Camera("wrist", {Shape(2, 3)})}, !.proprio = {Vector("state", {1, 2})}],
   [MCBench EXCEPT !.action.gripper = "open_positive", !.version = 2],
   [MCBench EXCEPT !.action.dimension = 6, !.action.dtype = "float64"]}
Fit(n) == [min |-> n, max |-> n]
MCVanilla ==
  [kind |-> "vanilla", version |-> 1, images |-> {Camera("primary", {Shape(1, 3)})}, proprio |-> {},
   imageCount |-> Fit(1), proprioCount |-> [min |-> 0, max |-> 9], action |-> MCAction,
   single |-> TRUE, chunks |-> FALSE, least |-> 1, most |-> 1, dynamic |-> TRUE]
MCOft ==
  [MCVanilla EXCEPT !.kind = "oft", !.images = @ \union {Camera("wrist", {Shape(1, 3)})}, !.imageCount = Fit(2),
   !.proprio = {Vector("state", {1})}, !.proprioCount = Fit(1),
   !.single = FALSE, !.chunks = TRUE, !.least = 2, !.most = 2]
MCQuic ==
  [MCVanilla EXCEPT !.kind = "quic", !.images = {Camera("primary", {Shape(1, 3), Shape(2, 3)}),
       [Camera("wrist", {Shape(1, 3), Shape(2, 3)}) EXCEPT !.required = FALSE]},
   !.imageCount = [min |-> 1, max |-> 2], !.proprio = {[Vector("state", {1}) EXCEPT !.required = FALSE]},
   !.chunks = TRUE, !.most = 2, !.action.low = 3, !.action.high = 5, !.dynamic = FALSE]
Pols ==
  {MCVanilla, MCOft, MCQuic,
   [MCVanilla EXCEPT !.images = {[Camera("primary", {Shape(1, 3)}) EXCEPT !.colors = {"bgr"}, !.max = 2]}, !.kind = "quic"],
   [MCOft EXCEPT !.images = {Camera("primary", {Shape(1, 3)})}, !.imageCount = Fit(1)],
   [MCQuic EXCEPT !.images = {Camera("wrist", {Shape(1, 3)})}, !.action.high = 7, !.dynamic = TRUE],
   [MCVanilla EXCEPT !.action.dimension = 6, !.action.dtype = "float64"],
   [MCVanilla EXCEPT !.action.gripper = "open_positive", !.version = 2]}
MCPairings == [benchmark : Benches, policy : Pols, transport : {"local", "remote"}]

MCPlan(enabled, required, convention, onError) ==
  [enabled |-> enabled, required |-> required, requireSelected |-> FALSE, recordSignals |-> TRUE,
   collisions |-> FALSE, frequency |-> TRUE, eligible |-> TRUE, attributable |-> TRUE,
   convention |-> convention, onError |-> onError, threshold |-> 5, deadband |-> 1,
   stable |-> 2, minimumRun |-> 3]
MCMetricPlans ==
  {MCPlan(MetricIds, {}, "closed_positive", "continue_task"),
   MCPlan(MetricIds, {"action.smoothness_2"}, "open_positive", "continue_run"),
   [MCPlan(MetricIds, {"task.success"}, "binary_closed_one", "stop_run") EXCEPT
      !.requireSelected = TRUE, !.frequency = FALSE, !.minimumRun = 2],
   [MCPlan({"task.success_rate", "failure.collision_rate", "failure.gripper_flicker_rate"},
           {"task.success_rate", "failure.collision_rate"}, "binary_open_one", "continue_task") EXCEPT
      !.collisions = TRUE, !.stable = 1, !.deadband = 0],
   [MCPlan({"task.success_rate", "failure.repeated_no_op_rate", "failure.gripper_flicker_rate"}, {},
           "no_gripper", "continue_run") EXCEPT
      !.eligible = FALSE, !.recordSignals = FALSE],
   [MCPlan(MetricIds, {"failure.collision_rate"}, "none", "continue_run") EXCEPT
      !.requireSelected = TRUE]}
MCActionKinds ==
  [still : {TRUE}, gripper : {-10, 0}] \cup [still : {FALSE}, gripper : {5, 10}]

hostVars ==
  <<loopVars, partitionVars, deployVars, composeVars, ownerVars, reportModelVars, liberoVars,
    configVars, exchangeVars, metricVars, part>>

HostInit ==
  /\ LoopInit /\ PartitionInit /\ DeployInit /\ ComposeInit /\ OwnerInit
  /\ ReportModelInit /\ LiberoInit /\ ConfigInit /\ ExchangeInit /\ MetricsInit
  /\ part \in Components
  /\ part # "config" => /\ tree = MCTree
                        /\ hub = [tip |-> "r1", ref |-> "none", cached |-> {}]
                        /\ host = CHOOSE h \in HostStates : TRUE
  /\ part # "exchange" => pairing = CHOOSE p \in Pairings : TRUE
  /\ part # "metrics" => metricPlan = CHOOSE p \in MetricPlans : TRUE

HostNext ==
  \/ part = "loop" /\ LoopNext
  \/ part = "partition" /\ PartitionNext
  \/ part = "deploy" /\ DeployNext
  \/ part = "compose" /\ ComposeNext
  \/ part = "owner" /\ OwnerNext
  \/ part = "model" /\ ReportModelNext
  \/ part = "libero" /\ LiberoNext
  \/ part = "config" /\ ConfigNext
  \/ part = "exchange" /\ ExchangeNext
  \/ part = "metrics" /\ MetricsNext

HostOthers ==
  /\ IF part = "loop" THEN TRUE ELSE UNCHANGED loopVars
  /\ IF part = "partition" THEN TRUE ELSE UNCHANGED partitionVars
  /\ IF part = "deploy" THEN TRUE ELSE UNCHANGED deployVars
  /\ IF part = "compose" THEN TRUE ELSE UNCHANGED composeVars
  /\ IF part = "owner" THEN TRUE ELSE UNCHANGED ownerVars
  /\ IF part = "model" THEN TRUE ELSE UNCHANGED reportModelVars
  /\ IF part = "libero" THEN TRUE ELSE UNCHANGED liberoVars
  /\ IF part = "config" THEN TRUE ELSE UNCHANGED configVars
  /\ IF part = "exchange" THEN TRUE ELSE UNCHANGED exchangeVars
  /\ IF part = "metrics" THEN TRUE ELSE UNCHANGED metricVars
  /\ UNCHANGED part

HostSpec == HostInit /\ [][HostNext /\ HostOthers]_hostVars
=============================================================================
