----------------------------- MODULE QuicProvider -----------------------------
(* The QuIC policy: a descriptor is read from an adapter artifact, an        *)
(* external provider is bound to it, loads the artifact over a dense host    *)
(* and answers predictions.  The artifact and the host checkpoint are        *)
(* directories that may be replaced between any two steps.                   *)
EXTENDS Integers, Sequences

CONSTANTS
  QuicSettings,       \* the policy's configuration
  Payloads,           \* adapter.json files; a payload is its own hash
  TensorFiles,        \* contents of the tensor files
  HostModels,         \* host checkpoints
  QuicEpisodes,       \* IDs of the client's episodes, each used once
  GripperCodes,       \* decoded gripper coordinates, in tenths
  MaxReplacements,    \* bound on the files that are replaced
  MaxProviderFaults,  \* bound on exceptions of provider and libraries
  MaxAnswers          \* bound on the predictions of a behaviour

ASSUME QuicAssumption == GripperCodes \subseteq Int

NoValue == "none"

VARIABLES
  quicSettings,   \* this process's configuration
  directory,      \* the artifact on disk, and the host checkpoint
  reading,        \* what the process has read and hashed so far
  quic,           \* the adapter: state, descriptor, episode, next index
  provider,       \* the provider: what it loaded and which episode it was reset to
  answered,       \* the predictions that were handed out
  quicBudget      \* what may still be replaced or fail
quicVars == <<quicSettings, directory, reading, quic, provider, answered, quicBudget>>

Unloaded == [tensors |-> NoValue, head |-> NoValue, host |-> NoValue, targets |-> {}]
NoProvider == [there |-> FALSE, loaded |-> Unloaded, episode |-> NoValue]
Undescribed ==
  [manifest |-> NoValue, tensors |-> NoValue, head |-> NoValue, targets |-> {}, host |-> NoValue,
   statistics |-> NoValue, fitted |-> FALSE, horizon |-> 1, ready |-> FALSE]

QuicInit ==
  /\ quicSettings \in QuicSettings
  /\ directory \in {d \in [payload : Payloads, tensors : TensorFiles, head : TensorFiles \union {NoValue},
                           host : HostModels] :
                      d.payload = quicSettings.manifest}
  /\ reading = [stage |-> "start", payload |-> NoValue, torn |-> FALSE]
  /\ quic = [state |-> "created", descriptor |-> Undescribed, episode |-> NoValue, used |-> {}, index |-> 0]
  /\ provider = NoProvider
  /\ answered = <<>>
  /\ quicBudget = [replace |-> MaxReplacements, faults |-> MaxProviderFaults]

-----------------------------------------------------------------------------
(* The descriptor. *)

(* What a payload must say before any tensor file is opened. *)
PayloadFits(p) ==
  /\ p.format \in {1, 2} /\ p.targets # {}
  /\ p.family = "openvla_token" /\ p.revision = quicSettings.revision
  /\ p.key = quicSettings.key
  /\ \/ p.mode = "host" /\ p.sealed = NoValue
     \/ p.mode = "train-q99" /\ p.sealed = "contract"
  /\ p.preprocessing = quicSettings.prompt

(* A chunk policy has a head with its own record; a token policy has none. *)
HeadFits(p) ==
  IF p.horizon > 0
  THEN /\ p.headHash = directory.head
       /\ quicSettings.prompt = "modern" /\ quicSettings.dimension = 7
       /\ p.targets \intersect {"lm_head", "action_head"} = {}
  ELSE p.headHash = NoValue /\ directory.head = NoValue

(* Only linear targets, and convolutions of the second format. *)
Placeable(p) ==
  /\ p.targets \subseteq {"linear", "conv2d", "lm_head", "action_head"}
  /\ "conv2d" \in p.targets => p.format = 2

CodecFits == quicSettings.codec = "libero" => quicSettings.dimension = 7

HashPayload ==
  /\ reading.stage = "start" /\ quicSettings.artifact
  /\ directory.payload = quicSettings.manifest
  /\ reading' = [reading EXCEPT !.stage = "hashed"]
  /\ UNCHANGED <<quicSettings, directory, quic, provider, answered, quicBudget>>

ReadPayload ==
  /\ reading.stage = "hashed"
  /\ PayloadFits(directory.payload)
  /\ reading' = [reading EXCEPT !.stage = "read", !.payload = directory.payload]
  /\ UNCHANGED <<quicSettings, directory, quic, provider, answered, quicBudget>>

HashTensors ==
  /\ reading.stage = "read"
  /\ directory.tensors = reading.payload.tensors /\ directory.tensors = quicSettings.tensors
  /\ reading' = [reading EXCEPT !.stage = "tensors"]
  /\ UNCHANGED <<quicSettings, directory, quic, provider, answered, quicBudget>>

(* The manifest's hash is taken again, from what the file holds by now. *)
Describe ==
  /\ reading.stage = "tensors"
  /\ HeadFits(reading.payload) /\ Placeable(reading.payload) /\ CodecFits
  /\ reading.payload.profile # "QP0"
  /\ LET p == reading.payload IN
     quic' = [quic EXCEPT !.descriptor =
       [manifest |-> directory.payload, tensors |-> quicSettings.tensors, head |-> p.headHash,
        targets |-> p.targets, host |-> p.host, statistics |-> p.statistics,
        fitted |-> p.mode = "train-q99",
        horizon |-> IF p.horizon > 0 THEN p.horizon ELSE 1, ready |-> TRUE]]
  /\ reading' = [reading EXCEPT !.stage = "idle"]
  /\ UNCHANGED <<quicSettings, directory, provider, answered, quicBudget>>

(* A descriptor document names a method whose provider is not implemented. *)
DescribeSkeleton ==
  /\ reading.stage = "start" /\ ~quicSettings.artifact
  /\ quic' = [quic EXCEPT !.descriptor = Undescribed]
  /\ reading' = [reading EXCEPT !.stage = "idle"]
  /\ UNCHANGED <<quicSettings, directory, provider, answered, quicBudget>>

-----------------------------------------------------------------------------
(* Initialization: provider, negotiation, load. *)

RuntimeReady == quic.descriptor.ready

BindProvider ==
  /\ quic.state = "created" /\ reading.stage = "idle" /\ RuntimeReady
  /\ provider' = [NoProvider EXCEPT !.there = TRUE]
  /\ reading' = [reading EXCEPT !.stage = "bound"]
  /\ UNCHANGED <<quicSettings, directory, quic, answered, quicBudget>>

(* What was negotiated is what is on disk when the load begins. *)
ArtifactUnchangedButTensors(d) ==
  /\ directory.payload = d.manifest
  /\ d.head # NoValue => directory.head = d.head
ArtifactUnchanged(d) ==
  /\ directory.payload = d.manifest /\ directory.tensors = d.tensors
  /\ d.head # NoValue => directory.head = d.head

VerifyArtifact ==
  /\ reading.stage = "bound" /\ provider.loaded = Unloaded
  /\ ArtifactUnchanged(quic.descriptor)
  /\ reading' = [reading EXCEPT !.stage = "verified", !.payload = NoValue]
  /\ UNCHANGED <<quicSettings, directory, quic, provider, answered, quicBudget>>

VerifyHost ==
  /\ reading.stage = "verified"
  /\ directory.host.identity = quic.descriptor.host
  /\ reading' = [reading EXCEPT !.stage = "host"]
  /\ UNCHANGED <<quicSettings, directory, quic, provider, answered, quicBudget>>

(* A fitted contract puts its own statistics into the host. *)
HostStatistics(host) == IF quic.descriptor.fitted THEN quic.descriptor.statistics ELSE host.statistics

LoadArtifact ==
  /\ reading.stage = "host"
  /\ HostStatistics(directory.host) = quic.descriptor.statistics
  /\ directory.payload.targets = quic.descriptor.targets
  /\ provider' = [provider EXCEPT !.loaded =
       [tensors |-> directory.tensors, head |-> directory.head, host |-> directory.host.identity,
        targets |-> directory.payload.targets]]
  /\ reading' = [reading EXCEPT !.stage = "loaded"]
  /\ UNCHANGED <<quicSettings, directory, quic, answered, quicBudget>>

BecomeAvailable ==
  /\ reading.stage = "loaded"
  /\ quic' = [quic EXCEPT !.state = "ready"]
  /\ reading' = [reading EXCEPT !.stage = "idle"]
  /\ UNCHANGED <<quicSettings, directory, provider, answered, quicBudget>>

(* Whatever refuses or fails: the provider is closed and given up. *)
InitializeFails ==
  /\ reading.stage \in {"bound", "verified", "host", "loaded"}
  /\ \/ reading.stage = "bound" /\ ~ArtifactUnchanged(quic.descriptor) /\ UNCHANGED quicBudget
     \/ reading.stage = "verified" /\ directory.host.identity # quic.descriptor.host /\ UNCHANGED quicBudget
     \/ /\ reading.stage = "host"
        /\ \/ HostStatistics(directory.host) # quic.descriptor.statistics
           \/ directory.payload.targets # quic.descriptor.targets
        /\ UNCHANGED quicBudget
     \/ quicBudget.faults > 0 /\ quicBudget' = [quicBudget EXCEPT !.faults = @ - 1]
  /\ provider' = NoProvider
  /\ reading' = [reading EXCEPT !.stage = "idle"]
  /\ UNCHANGED <<quicSettings, directory, quic, answered>>

(* Between the check of a file and its use, a replacement is not noticed. *)
ReplaceFile ==
  /\ quicBudget.replace > 0
  /\ \/ \E p \in Payloads \ {directory.payload} : directory' = [directory EXCEPT !.payload = p]
     \/ \E t \in TensorFiles \ {directory.tensors} : directory' = [directory EXCEPT !.tensors = t]
     \/ \E t \in TensorFiles \ {directory.head} :
          directory.head # NoValue /\ directory' = [directory EXCEPT !.head = t]
     \/ \E h \in HostModels \ {directory.host} : directory' = [directory EXCEPT !.host = h]
  /\ reading' = [reading EXCEPT !.torn = @ \/ reading.stage \in {"hashed", "read", "tensors", "verified", "host"}]
  /\ quicBudget' = [quicBudget EXCEPT !.replace = @ - 1]
  /\ UNCHANGED <<quicSettings, quic, provider, answered>>

-----------------------------------------------------------------------------
(* Episodes. *)

ResetQuicEpisode(e) ==
  /\ quic.state = "ready" /\ e \notin quic.used /\ provider.loaded # Unloaded
  /\ quic' = [quic EXCEPT !.state = "active", !.episode = e, !.index = 0, !.used = @ \union {e}]
  /\ provider' = [provider EXCEPT !.episode = e]
  /\ UNCHANGED <<quicSettings, directory, reading, answered, quicBudget>>

(* The pose codec thresholds the gripper and refuses one outside 0..1. *)
Transformed(code) ==
  IF quicSettings.codec # "libero" THEN code
  ELSE IF code < 5 THEN 10 ELSE IF code > 5 THEN -10 ELSE 0
Transformable(code) == quicSettings.codec = "libero" => code \in 0..10
WithinBounds(action) == action \in -10..10

(* The provider answers for the episode it was reset to, and the adapter      *)
(* accepts actions of the negotiated number, within the negotiated bounds.    *)
AnswerAccepted(code, rows) ==
  /\ provider.episode = quic.episode
  /\ Transformable(code) /\ WithinBounds(Transformed(code))
  /\ rows = quic.descriptor.horizon

AnswerPrediction ==
  /\ quic.state = "active" /\ Len(answered) < MaxAnswers
  /\ \E code \in GripperCodes, rows \in 1..2 :
       /\ AnswerAccepted(code, rows)
       /\ quic' = [quic EXCEPT !.index = @ + 1]
       /\ answered' = Append(answered, [id |-> <<quic.episode, quic.index>>, decoded |-> code,
                                        action |-> Transformed(code), rows |-> rows])
  /\ UNCHANGED <<quicSettings, directory, reading, provider, quicBudget>>

(* The provider is not told: it keeps the episode until the next reset. *)
EndQuicEpisode ==
  /\ quic.state = "active"
  /\ quic' = [quic EXCEPT !.state = "ready", !.episode = NoValue, !.index = 0]
  /\ UNCHANGED <<quicSettings, directory, reading, provider, answered, quicBudget>>

CloseQuic ==
  /\ quic.state # "closed" /\ reading.stage \in {"start", "idle"}
  /\ quic' = [quic EXCEPT !.state = "closed", !.episode = NoValue]
  /\ provider' = NoProvider
  /\ UNCHANGED <<quicSettings, directory, reading, answered, quicBudget>>

QuicNext ==
  \/ HashPayload \/ ReadPayload \/ HashTensors \/ Describe \/ DescribeSkeleton
  \/ BindProvider \/ VerifyArtifact \/ VerifyHost \/ LoadArtifact \/ BecomeAvailable \/ InitializeFails
  \/ ReplaceFile
  \/ \E e \in QuicEpisodes : ResetQuicEpisode(e)
  \/ AnswerPrediction \/ EndQuicEpisode \/ CloseQuic

QuicSpec == QuicInit /\ [][QuicNext]_quicVars

-----------------------------------------------------------------------------
(* What the provider serves is what the settings name: the tensors, the head, *)
(* the host and the targets of the descriptor, unless a file was replaced     *)
(* between its check and its use.                                             *)
DescriptorIsServed ==
  quic.state \in {"ready", "active"} =>
    /\ quic.descriptor.ready /\ provider.loaded # Unloaded
    /\ provider.loaded.targets = quic.descriptor.targets
    /\ ~reading.torn =>
         /\ quic.descriptor.manifest = quicSettings.manifest
         /\ provider.loaded.tensors = quicSettings.tensors
         /\ provider.loaded.host = quic.descriptor.host
         /\ quic.descriptor.horizon > 1 => provider.loaded.head = quic.descriptor.head

(* A provider is bound only below an adapter that serves or is initializing,  *)
(* and it is at the adapter's episode.                                        *)
ProviderFollowsAdapter ==
  /\ quic.state = "active" => provider.episode = quic.episode
  /\ provider.there => quic.state \in {"ready", "active"}
                       \/ reading.stage \in {"bound", "verified", "host", "loaded"}

(* Predictions have distinct IDs, the announced horizon, and for LIBERO a     *)
(* gripper that closes where the model's opens.                               *)
AnswersAreSound ==
  \A i, j \in DOMAIN answered :
    /\ i < j => answered[i].id # answered[j].id
    /\ answered[i].rows = quic.descriptor.horizon /\ WithinBounds(answered[i].action)
    /\ quicSettings.codec = "libero" =>
         /\ answered[i].decoded < 5 <=> answered[i].action > 0
         /\ answered[i].decoded > 5 <=> answered[i].action < 0

(* A QuIC policy serves the artifact, host and interface it negotiated, or    *)
(* nothing.                                                                   *)
ProviderServesTheDescriptor == DescriptorIsServed /\ ProviderFollowsAdapter /\ AnswersAreSound
=============================================================================
