----------------------------- MODULE PolicyExchange -----------------------------
(* A benchmark and a policy agree on channels and actions, and then exchange  *)
(* observations and predictions, in one process or over the remote protocol. *)
(* The negotiation looks at what both declare; what an episode sends is       *)
(* converted, checked and refused by other code, at every hop.               *)
EXTENDS Integers, FiniteSets, FiniteSetsExt

CONSTANTS
  Pairings,          \* a benchmark, a policy and a transport
  Primary,           \* the camera every remote prediction needs
  ProtocolDimension, \* the action dimension of the protocol (7 in the code)
  MaxImageBytes, MaxProprioBytes, MaxFrameBytes,  \* limits of the protocol
  ActionValues,      \* commanded values
  MaxExchanges,      \* bound on the exchanges of an episode
  MaxPolicyFaults    \* bound on predictions that break the policy's own declaration

(* What a declaration consists of.  A unit stands for the units of a vector.  *)
ImageSpecs ==
  [name : STRING, shapes : SUBSET [pixels : Nat, channels : Nat], dtype : STRING, encodings : SUBSET STRING,
   colors : SUBSET STRING, required : BOOLEAN, min : Nat, max : Nat]
VectorSpecs == [name : STRING, shapes : SUBSET Nat, dtype : STRING, units : STRING, required : BOOLEAN]
ActionSpecs ==
  [dimension : Nat, convention : STRING, gripper : STRING, dtype : STRING, low : Int, high : Int]
BenchmarkCapabilities ==
  [version : Nat, images : SUBSET ImageSpecs, proprio : SUBSET VectorSpecs, privileged : SUBSET STRING,
   action : ActionSpecs, dynamic : BOOLEAN, source : STRING]
CountRanges == [min : Nat, max : Nat]
PolicyCapabilities ==
  [kind : {"vanilla", "oft", "quic"}, version : Nat, images : SUBSET ImageSpecs, proprio : SUBSET VectorSpecs,
   imageCount : CountRanges, proprioCount : CountRanges, action : ActionSpecs, single : BOOLEAN, chunks : BOOLEAN,
   least : Nat, most : Nat, dynamic : BOOLEAN]

NamesOf(channels) == {c.name : c \in channels}
Named(channels, n) == CHOOSE c \in channels : c.name = n

(* What a declaration's constructor accepts. *)
WellFormedChannels(images, vectors) ==
  /\ IsFiniteSet(images) /\ IsFiniteSet(vectors)
  /\ Cardinality(NamesOf(images \union vectors)) = Cardinality(images) + Cardinality(vectors)
  /\ \A i \in images :
       /\ i.shapes # {} /\ i.encodings # {} /\ i.colors # {}
       /\ i.min <= i.max
       /\ i.required => i.min > 0
  /\ \A v \in vectors : v.shapes # {}
WellFormedAction(spec) == spec.dimension > 0 /\ spec.low <= spec.high
WellFormedBenchmark(b) ==
  b \in BenchmarkCapabilities /\ WellFormedChannels(b.images, b.proprio) /\ WellFormedAction(b.action)
WellFormedPolicy(p) ==
  /\ p \in PolicyCapabilities
  /\ WellFormedChannels(p.images, p.proprio) /\ WellFormedAction(p.action)
  /\ p.imageCount.min <= p.imageCount.max /\ p.proprioCount.min <= p.proprioCount.max
  /\ p.single \/ p.chunks
  /\ 0 < p.least /\ p.least <= p.most
  /\ p.single => p.least = 1
  /\ ~p.chunks => p.most = 1

(* OpenVLA takes one raw RGB picture. *)
VanillaDeclaration(p) ==
  \A r \in p.images :
    /\ r.required /\ r.dtype = "uint8" /\ r.encodings = {"raw"} /\ r.colors = {"rgb"}
    /\ \A shape \in r.shapes : shape.channels = 3

(* OFT takes two pictures and one vector, all required, and counts them. *)
OftDeclaration(p) ==
  /\ \A r \in p.images \union p.proprio : r.required
  /\ LET exactly(n) == [min |-> n, max |-> n]
     IN p.imageCount = exactly(Cardinality(p.images)) /\ p.proprioCount = exactly(Cardinality(p.proprio))

ASSUME PolicyExchangeAssumption ==
  /\ ActionValues \subseteq Int
  /\ {MaxImageBytes, MaxProprioBytes, MaxFrameBytes, MaxExchanges, MaxPolicyFaults} \subseteq Nat
  /\ \A p \in Pairings :
       /\ p.transport \in {"local", "remote"}
       /\ WellFormedBenchmark(p.benchmark) /\ WellFormedPolicy(p.policy)
       /\ p.policy.kind = "vanilla" => VanillaDeclaration(p.policy)
       /\ p.policy.kind = "oft" => OftDeclaration(p.policy)

VARIABLES
  pairing,    \* the two components and the transport between them
  announced,  \* the policy's capabilities as the runner holds them
  report,     \* the errors and the warnings of the negotiation
  stage,      \* how far the run, or the exchange, has come
  shown,      \* the benchmark's observation
  seen,       \* the observation the policy is given
  predicted,  \* the policy's prediction
  taken,      \* the prediction the runner is given
  executed,   \* the last action that was applied, with its prediction
  exchanges,  \* exchanges so far
  broken,     \* predictions that broke the policy's declaration
  cause       \* why the run stopped, "none" as long as it has not
exchangeVars == <<pairing, announced, report, stage, shown, seen, predicted, taken, executed,
                  exchanges, broken, cause>>

bench == pairing.benchmark
pol == pairing.policy
Remote == pairing.transport = "remote"

NoObservation == [images |-> {}, proprio |-> {}]
NoPrediction == [horizon |-> 0]
ExchangeInit ==
  /\ pairing \in Pairings
  /\ announced = pairing.policy
  /\ report = [errors |-> {}, warnings |-> {}]
  /\ stage = "created"
  /\ shown = NoObservation /\ seen = NoObservation
  /\ predicted = NoPrediction /\ taken = NoPrediction /\ executed = NoPrediction
  /\ exchanges = 0 /\ broken = 0
  /\ cause = "none"

Fail(why) == stage' = "failed" /\ cause' = why

-----------------------------------------------------------------------------
(* Announcing and negotiating. *)

(* Limits cross the wire as float32, whatever precision the policy declared. *)
Narrow(n) == n - (n % 2)
SpecOverWire(spec) == [spec EXCEPT !.low = Narrow(@), !.high = Narrow(@)]
CapabilitiesOverWire(c) == [c EXCEPT !.action = SpecOverWire(@)]

InitializePolicy ==
  /\ stage = "created"
  /\ announced' = IF Remote THEN CapabilitiesOverWire(pol) ELSE pol
  /\ stage' = "announced"
  /\ UNCHANGED <<pairing, report, shown, seen, predicted, taken, executed, exchanges, broken, cause>>

CheckImage(supplied, required) ==
  {i \in {"shape", "dtype", "encoding", "color", "count"} :
     \/ i = "shape" /\ supplied.shapes \intersect required.shapes = {}
     \/ i = "dtype" /\ supplied.dtype # required.dtype
     \/ i = "encoding" /\ supplied.encodings \intersect required.encodings = {}
     \/ i = "color" /\ supplied.colors \intersect required.colors = {}
     \/ i = "count" /\ (supplied.max < required.min \/ required.max < supplied.min)}

CheckProprioception(supplied, required) ==
  {i \in {"shape", "dtype", "unit"} :
     \/ i = "shape" /\ supplied.shapes \intersect required.shapes = {}
     \/ i = "dtype" /\ supplied.dtype # required.dtype
     \/ i = "unit" /\ supplied.units # required.units}

(* The limits of the two actions are not compared. *)
Conventions(spec) == <<spec.dimension, spec.convention, spec.gripper, spec.dtype>>

(* A required channel that is not supplied is an error, an optional one a     *)
(* warning, and one that is only an evaluation signal an error in any case.  *)
Unsupplied(b, required, supplied) == {r \in required : r.name \notin NamesOf(supplied)}
Privileged(b, required, supplied) == {r \in Unsupplied(b, required, supplied) : r.name \in b.privileged}
Missing(b, required, supplied) ==
  {r \in Unsupplied(b, required, supplied) \ Privileged(b, required, supplied) : r.required}
Optional(b, required, supplied) ==
  Unsupplied(b, required, supplied) \ (Privileged(b, required, supplied) \union Missing(b, required, supplied))

CountsFitMinimum(channels, range) == Cardinality(channels) >= range.min
CountsFit(channels, range) == Cardinality(channels) \in range.min..range.max

NegotiateCapabilities(b, p) ==
  LET images == UNION {CheckImage(Named(b.images, r.name), r) :
                         r \in {q \in p.images : q.name \in NamesOf(b.images)}}
      proprio == UNION {CheckProprioception(Named(b.proprio, r.name), r) :
                          r \in {q \in p.proprio : q.name \in NamesOf(b.proprio)}}
      missing == Missing(b, p.images, b.images) \union Missing(b, p.proprio, b.proprio)
      privileged == Privileged(b, p.images, b.images) \union Privileged(b, p.proprio, b.proprio)
      optional == Optional(b, p.images, b.images) \union Optional(b, p.proprio, b.proprio)
  IN [errors |->
        {<<"channel", i>> : i \in images \union proprio}
        \union {<<"missing", r.name>> : r \in missing}
        \union {<<"privileged", r.name>> : r \in privileged}
        \union (IF b.version = p.version THEN {} ELSE {<<"version", "">>})
        \union (IF CountsFit(b.images, p.imageCount) /\ CountsFit(b.proprio, p.proprioCount)
                THEN {} ELSE {<<"count", "">>})
        \union (IF Conventions(b.action) = Conventions(p.action) THEN {} ELSE {<<"action", "">>})
        \union (IF b.dynamic /\ ~p.dynamic THEN {<<"dynamic", "">>} ELSE {}),
      warnings |-> NamesOf(optional)]

(* connect_components: the run stops unless the report has no error. *)
Negotiate ==
  /\ stage = "announced"
  /\ report' = NegotiateCapabilities(bench, announced)
  /\ IF report'.errors = {} THEN stage' = "connected" /\ UNCHANGED cause ELSE Fail("incompatible")
  /\ UNCHANGED <<pairing, announced, shown, seen, predicted, taken, executed, exchanges, broken>>

(* The episode context carries the instruction, and the protocol takes only  *)
(* the benchmark's own.                                                      *)
StartEpisode ==
  /\ stage = "connected"
  /\ IF Remote /\ bench.source # "benchmark" THEN Fail("protocol") ELSE stage' = "active" /\ UNCHANGED cause
  /\ UNCHANGED <<pairing, announced, report, shown, seen, predicted, taken, executed, exchanges, broken>>

-----------------------------------------------------------------------------
(* An observation. *)

Images(spec) ==
  [name : {spec.name}, copy : 1..spec.max, shape : spec.shapes, dtype : {spec.dtype},
   encoding : spec.encodings, color : spec.colors]

(* As many images of a channel as its specification allows. *)
Conforms(images, spec) ==
  LET copies == {i \in images : i.name = spec.name}
      least == IF spec.required THEN spec.min ELSE 0
  IN /\ \E n \in least..spec.max : {i.copy : i \in copies} = 1..n
     /\ \A i, j \in copies : i.copy = j.copy => i = j

Vectors(spec) == [name : {spec.name}, shape : spec.shapes, dtype : {spec.dtype}, units : {spec.units}]

Observe ==
  /\ stage = "active" /\ exchanges < MaxExchanges
  /\ \E images \in SUBSET UNION {Images(s) : s \in bench.images},
        vectors \in SUBSET UNION {Vectors(s) : s \in bench.proprio} :
       /\ \A s \in bench.images : Conforms(images, s)
       /\ \A s \in bench.proprio : \E v \in vectors : {w \in vectors : w.name = s.name} = {v}
       /\ shown' = [images |-> images, proprio |-> vectors]
  /\ stage' = "shown"
  /\ seen' = NoObservation /\ predicted' = NoPrediction /\ taken' = NoPrediction
  /\ UNCHANGED <<pairing, announced, report, executed, exchanges, broken, cause>>

ShowLocally ==
  /\ stage = "shown" /\ ~Remote
  /\ seen' = shown
  /\ stage' = "seen"
  /\ UNCHANGED <<pairing, announced, report, shown, predicted, taken, executed, exchanges, broken, cause>>

(* The images by name: of two with one name the last is kept.  A lone primary *)
(* camera goes in the older form of the payload, which does not count them.   *)
Kept(images) == {i \in images : \A j \in images : j.name = i.name => j.copy <= i.copy}
Legacy(o) == NamesOf(o.images) = {Primary} /\ o.proprio = {}
Bytes(image) == image.shape.pixels * image.shape.channels
Base64(n) == 4 * ((n + 2) \div 3)

ImageEncodable(i) ==
  /\ i.encoding = "raw" /\ i.dtype = "uint8" /\ i.shape.channels = 3
  /\ Bytes(i) <= MaxImageBytes
VectorEncodable(v) == v.dtype = "float32" /\ 4 * v.shape <= MaxProprioBytes

FrameBytes(o) ==
  MapThenSumSet(LAMBDA i : Base64(Bytes(i)), Kept(o.images))
  + MapThenSumSet(LAMBDA v : Base64(4 * v.shape), o.proprio)

Sendable(o) ==
  /\ Primary \in NamesOf(o.images)
  /\ Legacy(o) \/ Kept(o.images) = o.images
  /\ \A i \in Kept(o.images) : ImageEncodable(i)
  /\ \A v \in o.proprio : VectorEncodable(v)
  /\ FrameBytes(o) <= MaxFrameBytes

(* Every image is sent, and read, as RGB: its colour space is not looked at.  *)
OverWire(o) == [o EXCEPT !.images = {[i EXCEPT !.color = "rgb"] : i \in Kept(@)}]

SendObservation ==
  /\ stage = "shown" /\ Remote
  /\ IF Sendable(shown)
     THEN seen' = OverWire(shown) /\ stage' = "seen" /\ UNCHANGED cause
     ELSE Fail("protocol") /\ UNCHANGED seen
  /\ UNCHANGED <<pairing, announced, report, shown, predicted, taken, executed, exchanges, broken>>

-----------------------------------------------------------------------------
(* A prediction. *)

(* OpenVLA takes one RGB picture of its camera, whatever else is shown; OFT    *)
(* exactly its channels; QuIC what its provider declared, and no other.  Of   *)
(* several pictures of one camera the last two keep the last.                *)
UsableVanilla(o) ==
  \A r \in pol.images :
    LET found == {i \in o.images : i.name = r.name}
    IN /\ Cardinality(found) = 1
       /\ \A i \in found : /\ i.encoding = "raw" /\ i.color = "rgb"
                           /\ i.shape.channels = 3 /\ i.dtype = "uint8"

ShapedAs(channels, specs) ==
  \A c \in channels : c.name \in NamesOf(specs) =>
    c.shape \in Named(specs, c.name).shapes /\ c.dtype = Named(specs, c.name).dtype

UsableOft(o) ==
  /\ NamesOf(o.images) = NamesOf(pol.images) /\ NamesOf(o.proprio) = NamesOf(pol.proprio)
  /\ ShapedAs(Kept(o.images), pol.images) /\ ShapedAs(o.proprio, pol.proprio)

UsableQuic(o) ==
  /\ \A r \in pol.images : r.required => r.name \in NamesOf(o.images)
  /\ \A r \in pol.proprio : r.required => r.name \in NamesOf(o.proprio)
  /\ ShapedAs(Kept(o.images), pol.images) /\ ShapedAs(o.proprio, pol.proprio)
  /\ \A i \in Kept(o.images) : i.name \in NamesOf(pol.images) =>
       i.encoding \in Named(pol.images, i.name).encodings /\ i.color \in Named(pol.images, i.name).colors

Usable(o) ==
  CASE pol.kind = "vanilla" -> UsableVanilla(o)
    [] pol.kind = "oft" -> UsableOft(o)
    [] pol.kind = "quic" -> UsableQuic(o)

(* PolicyAdapter.predict: the specification, limits included, and the horizon *)
(* are those of the capabilities this side holds.                            *)
Declared(prediction, capabilities) ==
  /\ prediction.spec = capabilities.action
  /\ prediction.horizon \in capabilities.least..capabilities.most
  /\ prediction.horizon = 1 => capabilities.single
  /\ prediction.horizon > 1 => capabilities.chunks

(* A faulty policy returns another horizon, convention, precision or value.   *)
Predictions ==
  [horizon : 1..(pol.most + 1),
   spec : {pol.action, [pol.action EXCEPT !.gripper = "other"], SpecOverWire(pol.action)},
   dtype : {"float32", "float64"}, value : ActionValues]
Honest(p) ==
  /\ Declared(p, pol) /\ p.dtype = pol.action.dtype
  /\ p.value \in pol.action.low..pol.action.high

Predict ==
  /\ stage = "seen"
  /\ \/ /\ ~Usable(seen)
        /\ Fail("observation")
        /\ UNCHANGED <<predicted, broken>>
     \/ /\ Usable(seen)
        /\ \E p \in Predictions :
             /\ Honest(p) \/ broken < MaxPolicyFaults
             /\ broken' = IF Honest(p) THEN broken ELSE broken + 1
             /\ predicted' = p
             /\ IF Declared(p, pol) THEN stage' = "predicted" /\ UNCHANGED cause
                ELSE Fail("declaration")
  /\ UNCHANGED <<pairing, announced, report, shown, seen, taken, executed, exchanges>>

TakeLocally ==
  /\ stage = "predicted" /\ ~Remote
  /\ taken' = predicted
  /\ stage' = "taken"
  /\ UNCHANGED <<pairing, announced, report, shown, seen, predicted, executed, exchanges, broken, cause>>

Answerable(p) ==
  /\ p.dtype = "float32" /\ p.spec.dimension = ProtocolDimension /\ p.spec.dtype = "float32"
  /\ p.spec.gripper = "closed_positive"

(* The client's own PolicyAdapter checks the prediction once more. *)
AnswerPrediction ==
  /\ stage = "predicted" /\ Remote
  /\ LET answer == [predicted EXCEPT !.spec = SpecOverWire(@)]
     IN IF ~Answerable(predicted) THEN Fail("protocol") /\ UNCHANGED taken
        ELSE IF ~Declared(answer, announced) THEN Fail("declaration") /\ UNCHANGED taken
        ELSE taken' = answer /\ stage' = "taken" /\ UNCHANGED cause
  /\ UNCHANGED <<pairing, announced, report, shown, seen, predicted, executed, exchanges, broken>>

(* The runner looks at the horizon, the benchmark at the action itself. *)
Executable(p) ==
  /\ p.horizon \in 1..announced.most
  /\ p.spec.dimension = bench.action.dimension
  /\ p.dtype = bench.action.dtype
  /\ p.value \in bench.action.low..bench.action.high

Execute ==
  /\ stage = "taken"
  /\ IF Executable(taken)
     THEN executed' = taken /\ stage' = "active" /\ exchanges' = exchanges + 1 /\ UNCHANGED cause
     ELSE Fail("action") /\ UNCHANGED <<executed, exchanges>>
  /\ UNCHANGED <<pairing, announced, report, shown, seen, predicted, taken, broken>>

ExchangeNext ==
  \/ InitializePolicy \/ Negotiate \/ StartEpisode
  \/ Observe \/ ShowLocally \/ SendObservation
  \/ Predict \/ TakeLocally \/ AnswerPrediction \/ Execute

ExchangeSpec == ExchangeInit /\ [][ExchangeNext]_exchangeVars

-----------------------------------------------------------------------------
(* The runner's verdict on what it was told is the verdict on what the policy *)
(* declared: the wire changes nothing that is negotiated.                    *)
VerdictIsThePolicys ==
  report.errors = {} /\ stage \notin {"created", "announced"} =>
    NegotiateCapabilities(bench, pol) = report

(* What the policy is given is what the benchmark showed, except that the     *)
(* wire calls any colour RGB and keeps only the last of several pictures of a *)
(* lone primary camera.  Nothing is ever invented.                           *)
SeenIsShown ==
  stage \in {"seen", "predicted", "taken"} =>
    /\ seen.proprio = shown.proprio
    /\ NamesOf(seen.images) = NamesOf(shown.images)
    /\ \A i \in seen.images : \E j \in shown.images : [i EXCEPT !.color = j.color] = j
    /\ (~Remote \/ ((\A i \in shown.images : i.color = "rgb") /\ Kept(shown.images) = shown.images))
         => seen = shown

(* An action that is applied has the benchmark's conventions and is within    *)
(* its limits, from a prediction of a horizon the policy announced.           *)
OnlyNegotiatedActions ==
  executed # NoPrediction =>
    /\ Conventions(executed.spec) = Conventions(bench.action)
    /\ executed.dtype = bench.action.dtype
    /\ executed.value \in bench.action.low..bench.action.high
    /\ executed.horizon \in pol.least..pol.most

(* What negotiation does not look at: that everything the benchmark may show  *)
(* is acceptable (and not only something of it), the limits of the actions,   *)
(* and, over the wire, the domain of the protocol.                           *)
EverythingShownIsTaken ==
  /\ \A s \in bench.images : s.min = 1 /\ s.max = 1 /\ s.required
  /\ \A s \in bench.images, r \in pol.images :
       s.name = r.name => /\ s.shapes \subseteq r.shapes /\ s.encodings \subseteq r.encodings
                          /\ s.colors \subseteq r.colors
  /\ \A s \in bench.proprio, r \in pol.proprio : s.name = r.name => s.shapes \subseteq r.shapes
  /\ bench.action.low <= pol.action.low /\ pol.action.high <= bench.action.high
ProtocolDomain ==
  /\ bench.source = "benchmark" /\ Primary \in NamesOf(bench.images)
  /\ \A s \in bench.images : /\ s.encodings = {"raw"} /\ s.dtype = "uint8" /\ s.colors = {"rgb"}
                             /\ \A shape \in s.shapes : shape.channels = 3 /\ shape.pixels * 3 <= MaxImageBytes
  /\ \A s \in bench.proprio : s.dtype = "float32" /\ \A n \in s.shapes : 4 * n <= MaxProprioBytes
  /\ bench.action.dimension = ProtocolDimension /\ bench.action.dtype = "float32"
  /\ bench.action.gripper = "closed_positive"
FramesFit == FrameBytes(shown) <= MaxFrameBytes

(* A pair that was found compatible runs: its exchanges fail only because of  *)
(* a prediction that breaks the policy's declaration, or in what negotiation  *)
(* does not look at.                                                         *)
CompatibleIsServed ==
  cause \notin {"none", "incompatible"} =>
    broken > 0 \/ ~EverythingShownIsTaken \/ (Remote /\ ~(ProtocolDomain /\ FramesFit))

(* What was negotiated is what an episode does: the verdict is the policy's,  *)
(* its observations are the benchmark's, the actions are of the negotiated    *)
(* convention, and a compatible pair is served.                              *)
NegotiationIsHonoured ==
  VerdictIsThePolicys /\ SeenIsShown /\ OnlyNegotiatedActions /\ CompatibleIsServed
=============================================================================
