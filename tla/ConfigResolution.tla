-------------------------- MODULE ConfigResolution --------------------------
(***************************************************************************)
(* resolver.py, config_bundle.py and the preflight of deployment.py: the   *)
(* configuration documents of an experiment, composed along `extends`,     *)
(* bundled for a container by one implementation and resolved there by     *)
(* another, while the documents and the model hub may change.              *)
(*                                                                         *)
(* A document is a kind, a parent, a type and its settings; a setting it   *)
(* leaves to its parent is "unset".  A reference is a document's name.     *)
(* The documents whose content never decides anything here (metrics,       *)
(* artifact store, action interface, execution profile) are left out, and  *)
(* a deployment that gets this far starts its container once.              *)
(***************************************************************************)
EXTENDS Naturals, FiniteSets

CONSTANTS
  Trees,          \* the documents an experiment may start from: name -> document
  HostStates,     \* the runs directory, the current images and the adapter it may start from
  Rewrites,       \* documents the user may put in the place of another: name -> set
  MaxRewrites     \* bound: changes of documents, hub and cache together

VARIABLES
  tree,           \* the documents below configs/
  hub,            \* the newest revision: what the hub has, what refs/main says, what is cached
  host,           \* what the deployment's preflight looks at
  deploy,         \* the deployment command: where it is and what it holds
  rewrites        \* what is left of the bound

SettingKeys == {"policy", "benchmark", "protocol", "registry", "profile",
         "checkpoint", "processor", "quantization", "camera", "action", "raw", "local_only",
         "suite", "record_raw", "mode", "interval", "steps", "c1", "c2", "c1_method", "c2_method"}

\* A tree of documents; "none" stands for no reference and names none.
IsDocument(doc) ==
  DOMAIN doc = {"kind", "extends", "type", "set"} /\ DOMAIN doc.set = SettingKeys
IsTree(docs) ==
  /\ IsFiniteSet(DOMAIN docs) /\ "none" \notin DOMAIN docs
  /\ \A d \in DOMAIN docs : IsDocument(docs[d])

ASSUME ConfigAssumption ==
  /\ \A docs \in Trees : IsTree(docs) /\ DOMAIN docs \subseteq DOMAIN Rewrites
  /\ \A d \in DOMAIN Rewrites : \A doc \in Rewrites[d] : IsDocument(doc)
  /\ MaxRewrites \in Nat

configVars == <<tree, hub, host, deploy, rewrites>>

Moving == {"local/main", "remote/main"}
Booleans == {"true", "false"}
Failed(why) == [error |-> why]
Ok(x) == x.error = "none"
NoDocuments == [k \in {} |-> "unset"]

-----------------------------------------------------------------------------
(* schema.py: what a composed document must say.                           *)

Given(set, keys) == \A k \in keys : set[k] # "unset"

ExperimentSchema(type, set) ==
  /\ Given(set, {"policy", "benchmark", "protocol", "registry"})
  /\ set["profile"] \in {"openvla", "oft", "quic", "unset"}
BenchmarkSchema(type, set) ==
  /\ type \in {"libero", "mock"}
  /\ Given(set, {"camera", "action"})
  /\ type = "mock" => set["steps"] \notin {"unset", "0"}
  /\ type = "libero" =>
       set["suite"] \in {"libero_spatial", "libero_object", "libero_goal", "libero_10"}
PolicySchema(type, set) ==
  /\ type \in {"mock", "openvla_vanilla", "openvla_lora_merged", "openvla_oft", "openvla_quic"}
  /\ Given(set, {"camera", "action"}) /\ set["raw"] \in Booleans
  /\ type # "mock" =>
       /\ Given(set, {"checkpoint", "processor"})
       /\ set["quantization"] \in {"none", "8bit", "4bit"} /\ set["local_only"] \in Booleans
  /\ type = "openvla_quic" => set["quantization"] = "none" /\ set["raw"] = "false"
ProtocolSchema(type, set) ==
  /\ set["mode"] \in {"receding_horizon", "open_loop_chunk", "fixed_replan_interval"}
  /\ set["steps"] \notin {"unset", "0"} /\ Given(set, {"interval"})
  /\ set["record_raw"] \in Booleans
\* A pinned revision comes with the digest of its files and may declare the
\* method that made them, a moving one has neither.
MethodKey(id) == CASE id = "c1" -> "c1_method" [] id = "c2" -> "c2_method"
RegistrySchema(type, set) ==
  \A id \in {"c1", "c2"} :
     /\ set[id] \notin {"unset", "undigested", "digested local/main"}
     /\ set[MethodKey(id)] \in {"unset", "lora", "oft"}
     /\ set[id] \in Moving => set[MethodKey(id)] = "unset"

Valid(kind, type, set) ==
  CASE kind = "experiment" -> ExperimentSchema(type, set)
    [] kind = "benchmark" -> BenchmarkSchema(type, set)
    [] kind = "policy" -> PolicySchema(type, set)
    [] kind = "protocol" -> ProtocolSchema(type, set)
    [] kind = "resource_registry" -> RegistrySchema(type, set)

-----------------------------------------------------------------------------
(* Composition.                                                            *)

\* A child's settings win, the parent's fill in.
Merge(parent, child) ==
  [k \in SettingKeys |-> IF child[k] = "unset" THEN parent[k] ELSE child[k]]

\* The resolver and the bundle check a document as they compose it; the
\* selection of a checkpoint asks for its kind only (checkpointing.py, _composed).
Validated(kind) == [kind |-> kind, checked |-> TRUE]
Unvalidated(kind) == [kind |-> kind, checked |-> FALSE]

\* A document over what its parent was composed to.
ComposedOver(parent, doc, rule) ==
  LET set == IF doc.extends = "none" THEN doc.set ELSE Merge(parent.set, doc.set)
  IN  IF doc.kind # rule.kind THEN Failed("kind")
      ELSE IF doc.extends # "none" /\ ~Ok(parent) THEN parent
      ELSE IF rule.checked /\ doc.extends # "none" /\ parent.type # doc.type THEN Failed("type")
      ELSE IF rule.checked /\ ~Valid(rule.kind, doc.type, set) THEN Failed("schema")
      ELSE [error |-> "none", type |-> doc.type, set |-> set]

\* What every document is composed to when the documents `above` wait for it.
Composed(docs, rule) ==
  LET composed[above \in SUBSET DOMAIN docs] ==
        [name \in DOMAIN docs |->
           IF name \in above THEN Failed("cycle")
           ELSE ComposedOver(IF docs[name].extends \in DOMAIN docs
                               THEN composed[above \union {name}][docs[name].extends]
                               ELSE Failed("missing"), docs[name], rule)]
  IN  composed

Load(docs, name, kind) ==
  IF name \in DOMAIN docs THEN Composed(docs, Validated(kind))[{}][name] ELSE Failed("missing")
LoadUnchecked(docs, name, kind) ==
  IF name \in DOMAIN docs THEN Composed(docs, Unvalidated(kind))[{}][name] ELSE Failed("missing")

\* Mutant of Closure: the ancestors of a document are forgotten.
ClosureOfLeaf(docs, name) == {name}

\* The documents one composition reads: the document and its ancestors, which
\* are the least set that holds it and the parents of its members.
HoldsParents(docs, set) ==
  \A d \in set : docs[d].extends \in DOMAIN docs => docs[d].extends \in set
Closure(docs, name) ==
  {d \in DOMAIN docs : \A set \in SUBSET DOMAIN docs :
                         name \in set /\ HoldsParents(docs, set) => d \in set}

-----------------------------------------------------------------------------
(* ConfigBundleBuilder.build: what the container will be given.            *)

\* The override is written into the leaf of the policy, and the composed
\* policy is validated with it.
Overlaid(docs, policy, quantization) ==
  IF quantization = "unset" THEN docs
  ELSE [docs EXCEPT ![policy].set["quantization"] = quantization]

ComponentNames == {"policy", "benchmark", "protocol", "registry"}
KindOf(k) == IF k = "registry" THEN "resource_registry" ELSE k

BuildBundle(docs, experiment, quantization) ==
  LET top == Load(docs, experiment, "experiment")
      policy == top.set["policy"]
      bad == {k \in ComponentNames : ~Ok(Load(docs, top.set[k], KindOf(k)))}
      selected == Closure(docs, experiment) \union UNION {Closure(docs, top.set[k]) : k \in ComponentNames}
  IN  IF ~Ok(top) THEN top
      ELSE IF bad # {} THEN Failed("component")
      ELSE IF ~Ok(Load(Overlaid(docs, policy, quantization), policy, "policy")) THEN Failed("override")
      ELSE [error |-> "none", experiment |-> experiment, policy |-> policy,
            files |-> [d \in selected |-> Overlaid(docs, policy, quantization)[d]]]

-----------------------------------------------------------------------------
(* ConfigResolver.resolve.                                                 *)

ProfileOf(type) ==
  CASE type \in {"openvla_vanilla", "openvla_lora_merged"} -> "openvla"
    [] type = "openvla_oft" -> "oft" [] type = "openvla_quic" -> "quic" [] type = "mock" -> "none"

\* What the components must agree on.
ReferencesAgree(top, policy, benchmark) ==
  /\ top.set["profile"] # "unset" => top.set["profile"] = ProfileOf(policy.type)
  /\ benchmark.set["action"] = policy.set["action"]
  /\ benchmark.set["camera"] = policy.set["camera"]
ProtocolIsSound(protocol) ==
  protocol.set["mode"] # "fixed_replan_interval" => protocol.set["interval"] = "1"
BenchmarkIsSound(benchmark, protocol) ==
  benchmark.type = "mock" => benchmark.set["steps"] = protocol.set["steps"]
\* The method its checkpoint must declare; QuIC asks nothing of its host's.
MethodOf(type) ==
  CASE type = "openvla_lora_merged" -> {"lora"} [] type = "openvla_oft" -> {"oft"}
    [] type = "openvla_vanilla" -> {"unset"} [] type = "openvla_quic" -> {"unset", "lora", "oft"}
PolicyIsSound(policy, benchmark, registry) ==
  policy.type # "mock" =>
    /\ policy.set["local_only"] = "true"
    /\ registry.set[MethodKey(policy.set["checkpoint"])] \in MethodOf(policy.type)
    /\ policy.type # "openvla_vanilla" => policy.set["checkpoint"] = policy.set["processor"]
    /\ policy.type \in {"openvla_oft", "openvla_lora_merged"} =>
         benchmark.set["suite"] = "libero_10"
RecordingIsPossible(policy, protocol) ==
  protocol.set["record_raw"] = "true" => policy.set["raw"] = "true"

Compatible(top, policy, benchmark, protocol, registry) ==
  /\ ReferencesAgree(top, policy, benchmark)
  /\ ProtocolIsSound(protocol)
  /\ BenchmarkIsSound(benchmark, protocol)
  /\ PolicyIsSound(policy, benchmark, registry)
  /\ RecordingIsPossible(policy, protocol)

\* The commit a moving selector stands for at this moment, and whether its
\* snapshot is in the cache; a container has neither network nor cache.
Latest(selector, where) ==
  IF where = "container" THEN "none"
  ELSE LET revision == IF selector = "remote/main" THEN hub.tip ELSE hub.ref
       IN  IF revision \in hub.cached THEN revision ELSE "none"

RevisionOf(id, selector, env) ==
  IF selector \notin Moving THEN selector
  ELSE IF id = env.id THEN env.revision
  ELSE Latest(selector, env.where)

SelectedIds(policy) == {policy.set["checkpoint"], policy.set["processor"]} \ {"unset"}

\* The scientific document holds the components, the registry and what moving
\* selectors stood for; where files are is part of the execution document only.
Identities(documents, ids, revision, env) ==
  [error |-> "none",
   scientific |->
     [components |-> documents,
      identity |-> [id \in {i \in ids : documents["registry"].set[i] \in Moving} |-> revision[id]]],
   execution |-> [revision |-> revision, where |-> env.where, profile |-> env.profile]]

Resolve(docs, experiment, env) ==
  LET top == Load(docs, experiment, "experiment")
      at(k) == Load(docs, top.set[k], KindOf(k))
      ids == SelectedIds(at("policy"))
      revision == [id \in ids |-> RevisionOf(id, at("registry").set[id], env)]
  IN  IF ~Ok(top) THEN top
      ELSE IF \E k \in ComponentNames : ~Ok(at(k))
        THEN at(CHOOSE k \in ComponentNames : ~Ok(at(k)))
      ELSE IF \E id \in ids : revision[id] = "none" THEN Failed("checkpoint")
      ELSE IF ~Compatible(top, at("policy"), at("benchmark"), at("protocol"), at("registry"))
        THEN Failed("incompatible")
      ELSE Identities([k \in ComponentNames |-> at(k)], ids, revision, env)

Host == [where |-> "host", id |-> "none", revision |-> "none", profile |-> "unset"]
InContainer(handed) == [handed EXCEPT !.where = "container"]

-----------------------------------------------------------------------------
(* The deployment command.                                                 *)

Idle == [at |-> "plan", cli |-> "unset", profile |-> "unset", bundle |-> NoDocuments,
         built |-> NoDocuments, handed |-> Host, root |-> NoDocuments, outcome |-> Failed("none yet"),
         direct |-> Failed("none yet"), steady |-> TRUE]

ConfigInit ==
  /\ tree \in Trees
  /\ hub \in [tip : {"r1"}, ref : {"r1", "none"}, cached : {{}, {"r1"}}]
  /\ host \in HostStates
  /\ deploy = Idle
  /\ rewrites = MaxRewrites

Give(next) == deploy' = next /\ UNCHANGED <<tree, hub, host, rewrites>>

\* The profile of the command line, or else of the experiment, must be the one
\* the policy needs; the command line may name a quantization.
Plan ==
  /\ deploy.at = "plan"
  /\ \E cli \in {"unset", "4bit"}, chosen \in {"unset", "openvla", "oft", "quic"} :
       LET top == Load(tree, "exp", "experiment")
           policy == Load(tree, top.set["policy"], "policy")
           profile == IF chosen # "unset" THEN chosen ELSE top.set["profile"]
           refused == \/ ~Ok(top)
                      \/ top.set["profile"] = "unset"
                      \/ ~Ok(policy)
                      \/ profile # ProfileOf(policy.type)
                      \/ policy.type = "openvla_quic" /\ cli # "unset"
       IN  Give(IF refused THEN [deploy EXCEPT !.at = "failed"]
                ELSE [deploy EXCEPT !.at = "build", !.cli = cli, !.profile = profile])

\* `built` is history: the documents the bundle was built from.
Build ==
  /\ deploy.at = "build"
  /\ LET bundle == BuildBundle(tree, "exp", deploy.cli)
     IN  Give([deploy EXCEPT !.at = IF Ok(bundle) THEN "preflight" ELSE "failed",
                             !.bundle = bundle, !.built = tree])

ImagesOf(profile) == {"benchmark", profile, "reporting"}

\* Directories are made when they are absent; every image must carry the
\* contract this version expects.
Preflight ==
  /\ deploy.at = "preflight"
  /\ IF host.runs = "absent" THEN host' = [host EXCEPT !.runs = "directory"] ELSE UNCHANGED host
  /\ deploy' = [deploy EXCEPT !.at =
                  IF /\ host.runs \in {"absent", "directory"}
                     /\ ImagesOf(deploy.profile) \subseteq host.images
                     /\ deploy.profile = "quic" => host.adapter
                    THEN "select" ELSE "failed"]
  /\ UNCHANGED <<tree, hub, rewrites>>

\* A moving selector is read whatever else its entry says.
SelectorOf(entry) == IF entry = "digested local/main" THEN "local/main" ELSE entry

\* The checkpoint is selected from the documents as they are now, by an
\* implementation of its own that checks less than the resolver: an entry may be
\* missing or pinned without digests, and a moving one is not asked for any.
\* The command downloads what is not cached, unless it is offline.
SelectCheckpoint ==
  /\ deploy.at = "select"
  /\ \E offline \in BOOLEAN :
       LET top == LoadUnchecked(tree, "exp", "experiment")
           policy == LoadUnchecked(tree, top.set["policy"], "policy")
           registry == LoadUnchecked(tree, top.set["registry"], "resource_registry")
           id == policy.set["checkpoint"]
           entry == registry.set[id]
           selector == SelectorOf(entry)
           revision == IF selector = "remote/main" THEN hub.tip
                       ELSE IF selector = "local/main" THEN hub.ref ELSE selector
           fails == \/ ~Ok(top) \/ ~Ok(policy) \/ ~Ok(registry)
                    \/ id \notin {"c1", "c2"}
                    \/ entry \in {"unset", "undigested"}
                    \/ selector = "remote/main" /\ offline
                    \/ revision = "none"
                    \/ selector \in Moving /\ offline /\ revision \notin hub.cached
       IN  Give(IF fails THEN [deploy EXCEPT !.at = "failed"]
                ELSE [deploy EXCEPT !.at = "materialize",
                                    !.handed = [where |-> "host", id |-> id, revision |-> revision,
                                                profile |-> deploy.profile]])

\* A file with an overlay is written from it, any other is copied as it is
\* now; its hash is not looked at again.
Copied(d) ==
  IF deploy.bundle.files[d] # deploy.built[d] THEN deploy.bundle.files[d] ELSE tree[d]

Materialize ==
  /\ deploy.at = "materialize"
  /\ IF DOMAIN deploy.bundle.files \subseteq DOMAIN tree
       THEN Give([deploy EXCEPT !.at = "container",
                                !.root = [d \in DOMAIN deploy.bundle.files |-> Copied(d)]])
       ELSE Give([deploy EXCEPT !.at = "failed"])

\* The benchmark's container resolves what it was given; `direct` is history:
\* what the host would resolve from all the documents the bundle was built
\* from, with the same override and the revision handed over.
ResolveInContainer ==
  /\ deploy.at = "container"
  /\ Give([deploy EXCEPT
             !.at = "ended",
             !.outcome = Resolve(deploy.root, "exp", InContainer(deploy.handed)),
             !.direct = Resolve(Overlaid(deploy.built, deploy.bundle.policy, deploy.cli),
                                "exp", deploy.handed)])

\* The user replaces or removes a document; `steady` is history.
Rewrite ==
  /\ rewrites > 0 /\ rewrites' = rewrites - 1
  /\ \E d \in DOMAIN tree :
       \/ \E doc \in Rewrites[d] : doc # tree[d] /\ tree' = [tree EXCEPT ![d] = doc]
       \/ tree' = [e \in DOMAIN tree \ {d} |-> tree[e]]
  /\ deploy' = [deploy EXCEPT !.steady = FALSE]
  /\ UNCHANGED <<hub, host>>

\* The hub publishes a revision, or a download caches the newest one.
MoveHub ==
  /\ rewrites > 0 /\ rewrites' = rewrites - 1
  /\ \/ hub.tip = "r1" /\ hub' = [hub EXCEPT !.tip = "r2"]
     \/ hub.tip \notin hub.cached
        /\ hub' = [hub EXCEPT !.ref = hub.tip, !.cached = @ \union {hub.tip}]
  /\ UNCHANGED <<tree, host, deploy>>

ConfigNext ==
  /\ deploy.at \notin {"ended", "failed"}
  /\ \/ Plan \/ Build \/ Preflight \/ SelectCheckpoint \/ Materialize \/ ResolveInContainer
     \/ Rewrite \/ MoveHub

ConfigSpec == ConfigInit /\ [][ConfigNext]_configVars

-----------------------------------------------------------------------------
(* Properties.                                                             *)

CompositionErrors == {"missing", "cycle", "kind", "type", "schema"}

\* If the files that were copied are the ones the bundle recorded, it holds
\* every document the container's resolution reads, so a composition that
\* passed on the host passes there, and what the container resolves is what the
\* host would have resolved from its own documents with the same override,
\* whatever the hub and the cache have become since the revision was chosen.
\* With documents nobody touched, the services started are the policy's and the
\* revision is the one mounted, and the container refuses only what the host
\* would refuse or a second moving checkpoint, which only the host can look up.
ContainerResolvesTheSame ==
  deploy.at = "ended" /\ deploy.root = deploy.bundle.files =>
    /\ deploy.outcome.error \notin CompositionErrors
    /\ Ok(deploy.outcome) =>
         /\ Ok(deploy.direct)
         /\ deploy.outcome.scientific = deploy.direct.scientific
         /\ deploy.cli # "unset" =>
              deploy.outcome.scientific.components["policy"].set["quantization"]
                = deploy.cli
    /\ deploy.steady /\ Ok(deploy.direct)
         /\ DOMAIN deploy.direct.scientific.identity \subseteq {deploy.handed.id} =>
         /\ Ok(deploy.outcome)
         /\ deploy.outcome.execution.revision[deploy.handed.id] = deploy.handed.revision
         /\ deploy.profile = ProfileOf(deploy.outcome.scientific.components["policy"].type)
=============================================================================
