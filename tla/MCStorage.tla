------------------------------ MODULE MCStorage ------------------------------
(* The components that keep their state in directories, each checked by     *)
(* itself: `part` names the one a behaviour is about.                       *)
EXTENDS TrainingRun, CheckpointResolver, DataManagement, DataCatalog, DerivedReports,
        DerivedExports, PolicyRuntime, QuicProvider
CONSTANT Components
VARIABLE part

storageVars ==
  <<trainingVars, resolverVars, dataVars, catalogVars, reportVars, exportVars, policyVars,
    quicVars, part>>

StorageInit ==
  /\ TrainingInit /\ ResolverInit /\ DataInit /\ CatalogInit
  /\ DerivedReportsInit /\ DerivedExportsInit /\ PolicyInit /\ QuicInit
  /\ part \in Components
  /\ part # "policy" => setup = (CHOOSE s \in Setups : TRUE) /\ weightsOnDisk = "pinned"
  /\ part # "quic" => /\ quicSettings = CHOOSE s \in QuicSettings : TRUE
                      /\ directory = [payload |-> quicSettings.manifest, tensors |-> "t1",
                                      head |-> "none", host |-> CHOOSE h \in HostModels : TRUE]

StorageNext ==
  \/ part = "training" /\ TrainingNext
  \/ part = "resolver" /\ ResolverNext
  \/ part = "data" /\ DataNext
  \/ part = "catalog" /\ CatalogNext
  \/ part = "reports" /\ DerivedReportsNext
  \/ part = "exports" /\ DerivedExportsNext
  \/ part = "policy" /\ PolicyNext
  \/ part = "quic" /\ QuicNext

Others ==
  /\ IF part = "training" THEN TRUE ELSE UNCHANGED trainingVars
  /\ IF part = "resolver" THEN TRUE ELSE UNCHANGED resolverVars
  /\ IF part = "data" THEN TRUE ELSE UNCHANGED dataVars
  /\ IF part = "catalog" THEN TRUE ELSE UNCHANGED catalogVars
  /\ IF part = "reports" THEN TRUE ELSE UNCHANGED reportVars
  /\ IF part = "exports" THEN TRUE ELSE UNCHANGED exportVars
  /\ IF part = "policy" THEN TRUE ELSE UNCHANGED policyVars
  /\ IF part = "quic" THEN TRUE ELSE UNCHANGED quicVars
  /\ UNCHANGED part

StorageSpec == StorageInit /\ [][StorageNext /\ Others]_storageVars

\* Kinds of checkpoint, a local override or none, online or not.
MCRequests ==
  {[kind |-> "pinned", local |-> TRUE, offline |-> FALSE],
   [kind |-> "pinned", local |-> FALSE, offline |-> TRUE],
   [kind |-> "latest", local |-> TRUE, offline |-> FALSE],
   [kind |-> "latest", local |-> FALSE, offline |-> FALSE],
   [kind |-> "trained", local |-> TRUE, offline |-> TRUE]}

\* Two directory names with one short hash.
MCShortHash == [n \in Names |-> CHOOSE h \in Hashes : TRUE]

\* Runs of two models, of one or two suites and metric schemas.
MCSuiteOf == [a |-> "spatial", b |-> "spatial", c |-> "object"]
MCModelOf == [a |-> "vla", b |-> "oft", c |-> "vla"]
MCSchemaOf == [a |-> 1, b |-> 2, c |-> 1]
MCIsolatedOf == [iso |-> {"a"}, grp |-> {}]

\* Settings of the policies: unpinned and pinned, merged without a manifest, chunks.
MCSetups ==
  {[kind |-> "vanilla", bits |-> "none", pinned |-> FALSE],
   [kind |-> "vanilla", bits |-> "4bit", pinned |-> TRUE],
   [kind |-> "lora", bits |-> "8bit", pinned |-> TRUE],
   [kind |-> "lora", bits |-> "none", pinned |-> FALSE],
   [kind |-> "oft", bits |-> "none", pinned |-> TRUE]}

\* A token adapter, a chunk adapter of convolutions with fitted statistics, and two that are refused.
TokenPayload ==
  [format |-> 1, targets |-> {"linear"}, family |-> "openvla_token", revision |-> "r1", key |-> "k1",
   mode |-> "host", sealed |-> "none", preprocessing |-> "modern", tensors |-> "t1", horizon |-> 0,
   headHash |-> "none", profile |-> "custom", host |-> "h1", statistics |-> "s1"]
MCPayloads ==
  {TokenPayload,
   [TokenPayload EXCEPT !.format = 2, !.targets = {"linear", "conv2d"}, !.mode = "train-q99",
                        !.sealed = "contract", !.horizon = 2, !.headHash = "t2", !.statistics = "s2"],
   [TokenPayload EXCEPT !.format = 1, !.targets = {"conv2d"}],
   [TokenPayload EXCEPT !.tensors = "t2"]}
MCQuicSettings ==
  {[manifest |-> p, tensors |-> "t1", revision |-> "r1", key |-> "k1", prompt |-> "modern",
    dimension |-> 7, codec |-> c, artifact |-> a] :
     p \in MCPayloads, c \in {"libero", "decoded"}, a \in BOOLEAN}
MCHostModels == {[identity |-> "h1", statistics |-> "s1"], [identity |-> "h2", statistics |-> "s1"]}
=============================================================================
