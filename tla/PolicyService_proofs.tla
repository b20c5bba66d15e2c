-------------------------- MODULE PolicyService_proofs --------------------------
(* The inference session of PolicyService, for every set of clients, every   *)
(* set of failing hooks and every number of requests.                        *)
EXTENDS PolicyService, SequenceTheorems, TLAPS

LEMMA NoEpisodeType == NoEpisode \in EpisodeType
BY DEF NoEpisode, EpisodeType

LEMMA AnswerHasType ==
  ASSUME NEW r \in RequestType, NEW status \in {"ok", "busy", "error"}
  PROVE  Answer(r, status) \in AnswerType
BY DEF Answer, AnswerType, RequestType

LEMMA AppendType ==
  ASSUME NEW S, NEW f \in [Clients -> Seq(S)], NEW c \in Clients, NEW e \in S
  PROVE  [f EXCEPT ![c] = Append(@, e)] \in [Clients -> Seq(S)]
<1>1. Append(f[c], e) \in Seq(S)
  BY AppendProperties
<1> QED BY <1>1

LEMMA TailType ==
  ASSUME NEW S, NEW f \in [Clients -> Seq(S)], NEW c \in Clients, f[c] # <<>>
  PROVE  /\ [f EXCEPT ![c] = Tail(@)] \in [Clients -> Seq(S)]
         /\ Head(f[c]) \in S
<1>1. f[c] \in Seq(S)
  OBVIOUS
<1>2. Tail(f[c]) \in Seq(S) /\ Head(f[c]) \in S
  BY <1>1, HeadTailProperties
<1> QED BY <1>2

(* Responding to a request leaves handlers, requests and answers typed.      *)
LEMMA RespondType ==
  ASSUME TypeOK, NEW c \in Clients, NEW answer \in AnswerType, Respond(c, answer)
  PROVE  /\ request' \in [Clients -> RequestType \union {Nothing}]
         /\ responses' \in [Clients -> Seq(AnswerType)]
         /\ handler' \in [Clients -> {"receiving", "health", "locking", "dispatching",
                                      "leaving", "gone"}]
         /\ handler'[c] \in {"receiving", "leaving"}
         /\ \A d \in Clients \ {c} : handler'[d] = handler[d] /\ request'[d] = request[d]
<1>1. request' \in [Clients -> RequestType \union {Nothing}]
  BY DEF TypeOK, Respond
<1>2. responses' \in [Clients -> Seq(AnswerType)]
  <2>1. responses \in [Clients -> Seq(AnswerType)]
    BY DEF TypeOK
  <2>2. [responses EXCEPT ![c] = Append(@, answer)] \in [Clients -> Seq(AnswerType)]
    BY <2>1, AppendType
  <2> QED BY <2>1, <2>2 DEF Respond
<1>3. \/ handler' = [handler EXCEPT ![c] = "receiving"]
      \/ handler' = [handler EXCEPT ![c] = "leaving"]
  BY DEF Respond
<1>4. request' = [request EXCEPT ![c] = Nothing]
  BY DEF Respond
<1>5. handler \in [Clients -> {"receiving", "health", "locking", "dispatching", "leaving",
                              "gone"}] /\ request \in [Clients -> RequestType \union {Nothing}]
  BY DEF TypeOK
<1> QED BY <1>1, <1>2, <1>3, <1>4, <1>5

LEMMA TypeInitially == Init => TypeOK
<1> SUFFICES ASSUME Init PROVE TypeOK
  OBVIOUS
<1>1. /\ requests \in [Clients -> Seq(RequestType)]
      /\ responses \in [Clients -> Seq(AnswerType)]
  <2>1. <<>> \in Seq(RequestType) /\ <<>> \in Seq(AnswerType)
    OBVIOUS
  <2> QED BY <2>1 DEF Init
<1>2. /\ request \in [Clients -> RequestType \union {Nothing}]
      /\ awaiting \in [Clients -> RequestType \union {Nothing}]
  BY DEF Init
<1>3. /\ handler \in [Clients -> {"receiving", "health", "locking", "dispatching", "leaving",
                                    "gone"}]
      /\ state \in [Clients -> {"created", "handshaken", "ready", "episode_active", "closed"}]
      /\ sent \in [Clients -> Nat] /\ number \in [Clients -> Nat] /\ step \in [Clients -> Nat]
      /\ received \in [Clients -> SUBSET [asked: Nat, answered: Nat]]
  BY DEF Init
<1>4. /\ adapterEpisode \in EpisodeType /\ episodeId \in EpisodeType
      /\ boundRun \in Clients \union {NoClient} /\ owner \in Clients \union {NoClient}
      /\ lock \in Clients \union {NoClient}
      /\ seenSteps = {} /\ timedOut = {} /\ refused = {}
      /\ adapterState = "ready"
  BY NoEpisodeType DEF Init
<1> QED BY <1>1, <1>2, <1>3, <1>4 DEF TypeOK

(* The request a client sends.                                               *)
LEMMA SendsOne ==
  ASSUME TypeOK, NEW c \in Clients, NEW op \in Operations, Send(c, op)
  PROVE  \E r \in RequestType :
           /\ requests' = [requests EXCEPT ![c] = Append(@, r)]
           /\ awaiting' = [awaiting EXCEPT ![c] = r]
           /\ sent' = [sent EXCEPT ![c] = @ + 1]
           /\ r.id = sent[c] + 1 /\ r.op = op
           /\ r.episode = [client |-> c, number |-> number'[c]] /\ r.step = step'[c]
<1> DEFINE n == IF op = "reset_episode" THEN number[c] + 1 ELSE number[c]
           s == IF op = "reset_episode" THEN 0
                ELSE IF op = "predict" THEN step[c] + 1 ELSE step[c]
           r == [id |-> sent[c] + 1, op |-> op,
                 episode |-> [client |-> c, number |-> n], step |-> s]
<1>1. /\ requests' = [requests EXCEPT ![c] = Append(@, r)]
      /\ awaiting' = [awaiting EXCEPT ![c] = r] /\ sent' = [sent EXCEPT ![c] = @ + 1]
      /\ number' = [number EXCEPT ![c] = n] /\ step' = [step EXCEPT ![c] = s]
  BY DEF Send
<1>2. /\ number[c] \in Nat /\ step[c] \in Nat /\ sent[c] \in Nat
      /\ number \in [Clients -> Nat] /\ step \in [Clients -> Nat]
  BY DEF TypeOK
<1>3. n \in Nat /\ s \in Nat /\ sent[c] + 1 \in Nat
  BY <1>2
<1>4. number'[c] = n /\ step'[c] = s
  BY <1>1, <1>2
<1>5. r \in RequestType
  BY <1>3 DEF RequestType, EpisodeType
<1>6. /\ r.id = sent[c] + 1 /\ r.op = op /\ r.step = step'[c]
      /\ r.episode = [client |-> c, number |-> number'[c]]
  BY <1>4
<1> HIDE DEF r
<1> QED BY <1>1, <1>5, <1>6

LEMMA SendType ==
  ASSUME TypeOK, NEW c \in Clients, NEW op \in Operations, Send(c, op)
  PROVE  TypeOK'
<1> DEFINE n == IF op = "reset_episode" THEN number[c] + 1 ELSE number[c]
           s == IF op = "reset_episode" THEN 0 ELSE IF op = "predict" THEN step[c] + 1 ELSE step[c]
           r == [id |-> sent[c] + 1, op |-> op, episode |-> [client |-> c, number |-> n],
                 step |-> s]
<1>1. n \in Nat /\ s \in Nat /\ sent[c] + 1 \in Nat
  <2>1. number[c] \in Nat /\ step[c] \in Nat /\ sent[c] \in Nat
    BY DEF TypeOK
  <2> QED BY <2>1
<1>2. r \in RequestType
  BY <1>1 DEF RequestType, EpisodeType
<1>3. requests' \in [Clients -> Seq(RequestType)]
  BY <1>2, AppendType DEF TypeOK, Send
<1>4. /\ number' = [number EXCEPT ![c] = n] /\ step' = [step EXCEPT ![c] = s]
      /\ sent' = [sent EXCEPT ![c] = @ + 1] /\ awaiting' = [awaiting EXCEPT ![c] = r]
  BY DEF Send
<1>5. /\ number' \in [Clients -> Nat] /\ step' \in [Clients -> Nat] /\ sent' \in [Clients -> Nat]
      /\ awaiting' \in [Clients -> RequestType \union {Nothing}]
  <2> HIDE DEF n, s, r
  <2> QED BY <1>1, <1>2, <1>4 DEF TypeOK
<1> QED BY <1>3, <1>5 DEF TypeOK, Send, model, session, threads

LEMMA ReceiveType ==
  ASSUME TypeOK, NEW c \in Clients, Receive(c)
  PROVE  TypeOK'
<1>1. responses' \in [Clients -> Seq(AnswerType)] /\ Head(responses[c]) \in AnswerType
  BY TailType DEF TypeOK, Receive
<1>2. awaiting' \in [Clients -> RequestType \union {Nothing}]
  BY DEF TypeOK, Receive
<1>3. awaiting[c] \in RequestType
  BY DEF TypeOK, Receive
<1>4. received' \in [Clients -> SUBSET [asked: Nat, answered: Nat]]
  <2>1. awaiting[c].step \in Nat /\ Head(responses[c]).step \in Nat
    BY <1>1, <1>3 DEF RequestType, AnswerType
  <2>2. received[c] \subseteq [asked: Nat, answered: Nat]
    BY DEF TypeOK
  <2>3. received[c] \union {[asked |-> awaiting[c].step, answered |-> Head(responses[c]).step]}
          \subseteq [asked: Nat, answered: Nat]
    BY <2>1, <2>2
  <2> QED BY <2>2, <2>3 DEF TypeOK, Receive
<1>5. state' \in [Clients -> {"created", "handshaken", "ready", "episode_active", "closed"}]
  <2>1. awaiting[c].op \in Operations
    BY <1>3 DEF RequestType
  <2> QED BY <2>1 DEF TypeOK, Receive, StateAfter, Operations
<1> QED BY <1>1, <1>2, <1>4, <1>5 DEF TypeOK, Receive, model, session, threads

-----------------------------------------------------------------------------
(* A handler serves its own client, and the one that dispatches holds the    *)
(* lock and the session.                                                     *)

OwnRequests(c) ==
  /\ handler[c] \in {"health", "locking", "dispatching"} => request[c] # Nothing
  /\ handler[c] \in {"locking", "dispatching"} => request[c].op # "health"
  /\ request[c] # Nothing => request[c].episode.client = c
  /\ \A k \in 1..Len(requests[c]) : requests[c][k].episode.client = c

LockHeld == \A c \in Clients : handler[c] = "dispatching" => lock = c /\ owner = c

ServiceInv ==
  /\ TypeOK
  /\ \A c \in Clients : OwnRequests(c)
  /\ LockHeld
  /\ EpisodeBelongsToOwner

(* The model changes only in the step of a handler thread: those of a        *)
(* client and the other ones of the service keep the invariant.              *)
LEMMA ModelUntouched ==
  ASSUME ServiceInv, TypeOK', UNCHANGED <<model, owner>>,
         \A c \in Clients : OwnRequests(c)',
         \A c \in Clients : handler'[c] = "dispatching" => handler[c] = "dispatching",
         lock' = lock
  PROVE  ServiceInv'
BY DEF ServiceInv, LockHeld, EpisodeBelongsToOwner, model

LEMMA SendPreserves ==
  ASSUME ServiceInv, NEW c \in Clients, NEW op \in Operations, Send(c, op)
  PROVE  ServiceInv'
<1>1. TypeOK'
  BY SendType DEF ServiceInv
<1>2. PICK r \in RequestType : requests' = [requests EXCEPT ![c] = Append(@, r)]
                                 /\ r.episode.client = c
  <2>1. TypeOK
    BY DEF ServiceInv
  <2>2. PICK r \in RequestType : /\ requests' = [requests EXCEPT ![c] = Append(@, r)]
                                 /\ r.episode = [client |-> c, number |-> number'[c]]
    BY <2>1, SendsOne
  <2>3. r.episode.client = c
    BY <2>2
  <2> QED BY <2>2, <2>3
<1>3. /\ UNCHANGED <<model, session, threads>>
      /\ requests \in [Clients -> Seq(RequestType)]
  BY DEF Send, ServiceInv, TypeOK
<1>4. ASSUME NEW d \in Clients PROVE OwnRequests(d)'
  <2>1. OwnRequests(d) /\ requests[d] \in Seq(RequestType)
    BY <1>3 DEF ServiceInv
  <2>2. CASE d = c
    <3>1. requests'[d] = Append(requests[d], r)
      BY <1>2, <1>3, <2>2
    <3>2. \A k \in 1..Len(requests'[d]) : requests'[d][k].episode.client = d
      BY <1>2, <2>1, <2>2, <3>1 DEF OwnRequests
    <3> QED BY <1>3, <2>1, <3>2 DEF OwnRequests, threads
  <2>3. CASE d # c
    BY <1>2, <1>3, <2>1, <2>3 DEF OwnRequests, threads
  <2> QED BY <2>2, <2>3
<1> QED BY <1>1, <1>3, <1>4, ModelUntouched DEF session, threads

LEMMA ClientPreserves ==
  ASSUME ServiceInv, NEW c \in Clients, Receive(c) \/ Timeout(c) \/ Disconnect(c)
  PROVE  ServiceInv'
<1>1. TypeOK'
  <2>1. CASE Receive(c)
    BY <2>1, ReceiveType DEF ServiceInv
  <2>2. CASE Timeout(c)
    BY <2>2 DEF Timeout, ServiceInv, TypeOK, model, session, threads, wires
  <2>3. CASE Disconnect(c)
    BY <2>3 DEF Disconnect, ServiceInv, TypeOK, model, session, threads, wires
  <2> QED BY <2>1, <2>2, <2>3
<1>2. UNCHANGED <<model, session, threads, requests>>
  BY DEF Receive, Timeout, Disconnect, wires
<1>3. \A d \in Clients : OwnRequests(d)'
  BY <1>2 DEF ServiceInv, OwnRequests, threads
<1> QED BY <1>1, <1>2, <1>3, ModelUntouched DEF session, threads

(* A response ends the serving of a request.                                 *)
LEMMA RespondPreserves ==
  ASSUME ServiceInv, NEW c \in Clients, NEW answer \in AnswerType, Respond(c, answer),
         UNCHANGED requests
  PROVE  /\ \A d \in Clients : OwnRequests(d)'
         /\ \A d \in Clients : handler'[d] = "dispatching" => d # c /\ handler[d] = "dispatching"
<1>1. /\ handler'[c] \in {"receiving", "leaving"}
      /\ \A d \in Clients \ {c} : handler'[d] = handler[d] /\ request'[d] = request[d]
  BY RespondType DEF ServiceInv
<1>2. request'[c] = Nothing
  BY DEF Respond, ServiceInv, TypeOK
<1>3. ASSUME NEW d \in Clients PROVE OwnRequests(d)'
  <2>1. OwnRequests(d)
    BY DEF ServiceInv
  <2> QED BY <1>1, <1>2, <2>1 DEF OwnRequests
<1> QED BY <1>1, <1>3

LEMMA ReadPreserves ==
  ASSUME ServiceInv, NEW c \in Clients, ReadRequest(c)
  PROVE  ServiceInv'
<1> DEFINE r == Head(requests[c])
<1>1. /\ requests \in [Clients -> Seq(RequestType)]
      /\ requests[c] \in Seq(RequestType) /\ requests[c] # <<>>
      /\ request \in [Clients -> RequestType \union {Nothing}]
      /\ handler \in [Clients -> {"receiving", "health", "locking", "dispatching", "leaving",
                                  "gone"}]
      /\ OwnRequests(c)
  BY DEF ReadRequest, ServiceInv, TypeOK
<1>2. /\ request' = [request EXCEPT ![c] = r]
      /\ requests' = [requests EXCEPT ![c] = Tail(@)]
      /\ handler' = [handler EXCEPT ![c] = IF r.op = "health" THEN "health" ELSE "locking"]
      /\ UNCHANGED <<model, session, responses, client, refused>>
  BY DEF ReadRequest
<1>3. r \in RequestType /\ requests' \in [Clients -> Seq(RequestType)]
  BY <1>1, <1>2, TailType
<1>4. r = requests[c][1] /\ 1 \in 1..Len(requests[c])
  BY <1>1
<1>5. r.episode.client = c
  BY <1>1, <1>4 DEF OwnRequests
<1>6. r # Nothing
  BY <1>3 DEF RequestType, Nothing, Operations
<1>7. /\ request' \in [Clients -> RequestType \union {Nothing}]
      /\ handler' \in [Clients -> {"receiving", "health", "locking", "dispatching", "leaving",
                                   "gone"}]
  BY <1>1, <1>2, <1>3
<1>8. TypeOK'
  BY <1>2, <1>3, <1>7 DEF ServiceInv, TypeOK, model, session, client
<1>9. \A k \in 1..Len(Tail(requests[c])) :
        /\ Tail(requests[c])[k] = requests[c][k + 1]
        /\ k + 1 \in 1..Len(requests[c])
  BY <1>1
<1>10. ASSUME NEW d \in Clients PROVE OwnRequests(d)'
  <2>1. OwnRequests(d)
    BY DEF ServiceInv
  <2>2. CASE d = c
    <3>1. requests'[d] = Tail(requests[c]) /\ request'[d] = r
          /\ handler'[d] = IF r.op = "health" THEN "health" ELSE "locking"
      BY <1>1, <1>2, <2>2
    <3>2. \A k \in 1..Len(requests'[d]) : requests'[d][k].episode.client = d
      BY <1>9, <2>1, <2>2, <3>1 DEF OwnRequests
    <3> HIDE DEF r
    <3> QED BY <1>5, <1>6, <2>2, <3>1, <3>2 DEF OwnRequests
  <2>3. CASE d # c
    BY <1>1, <1>2, <2>1, <2>3 DEF OwnRequests
  <2> QED BY <2>2, <2>3
<1>11. \A d \in Clients : handler'[d] = "dispatching" => handler[d] = "dispatching"
  BY <1>1, <1>2
<1> QED BY <1>2, <1>8, <1>10, <1>11, ModelUntouched DEF session

(* Answers given without the model: a probe's, and a refusal.                *)
LEMMA RefusalPreserves ==
  ASSUME ServiceInv, NEW c \in Clients, AnswerHealth(c) \/ Busy(c)
  PROVE  ServiceInv'
<1>1. OwnRequests(c) /\ request[c] \in RequestType
  BY DEF AnswerHealth, Busy, ServiceInv, OwnRequests, TypeOK
<1>2. PICK answer \in AnswerType : Respond(c, answer)
  BY <1>1, AnswerHasType DEF AnswerHealth, Busy
<1>3. UNCHANGED <<model, session, requests, client, refused>>
  BY DEF AnswerHealth, Busy
<1>4. TypeOK'
  BY <1>2, <1>3, RespondType DEF ServiceInv, TypeOK, model, session, client
<1> QED BY <1>2, <1>3, <1>4, RespondPreserves, ModelUntouched DEF session

LEMMA HangUpPreserves ==
  ASSUME ServiceInv, NEW c \in Clients, HangUp(c)
  PROVE  ServiceInv'
<1>1. TypeOK'
  BY DEF HangUp, ServiceInv, TypeOK, model, session, wires, client
<1>2. /\ \A d \in Clients : handler'[d] = IF d = c THEN "leaving" ELSE handler[d]
      /\ UNCHANGED <<model, session, request, requests>>
  BY DEF HangUp, ServiceInv, TypeOK, wires
<1>3. \A d \in Clients : OwnRequests(d)'
  BY <1>2 DEF ServiceInv, OwnRequests
<1> QED BY <1>1, <1>2, <1>3, ModelUntouched DEF session

(* A session is claimed only by its owner or when nobody owns it, and then   *)
(* no episode is active.                                                     *)
LEMMA ClaimPreserves ==
  ASSUME ServiceInv, NEW c \in Clients, Claim(c)
  PROVE  ServiceInv'
<1>1. TypeOK'
  BY DEF Claim, ServiceInv, TypeOK, model, wires, client
<1>2. /\ \A d \in Clients : handler'[d] = IF d = c THEN "dispatching" ELSE handler[d]
      /\ handler[c] = "locking" /\ lock = NoClient /\ owner \in {NoClient, c}
      /\ owner' = c /\ lock' = c
      /\ UNCHANGED <<model, request, requests>>
  BY DEF Claim, MayOwn, ServiceInv, TypeOK, wires
<1>3. \A d \in Clients : OwnRequests(d)'
  BY <1>2 DEF ServiceInv, OwnRequests
<1>4. LockHeld'
  BY <1>2, ServiceAssumption DEF ServiceInv, LockHeld
<1>5. EpisodeBelongsToOwner'
  BY <1>2, ServiceAssumption DEF ServiceInv, EpisodeBelongsToOwner, model
<1> QED BY <1>1, <1>3, <1>4, <1>5 DEF ServiceInv

(* The session is released by its owner's thread alone, and its episode with *)
(* it.                                                                       *)
LEMMA ReleasePreserves ==
  ASSUME ServiceInv, NEW c \in Clients, Release(c)
  PROVE  ServiceInv'
<1>1. /\ \A d \in Clients : handler'[d] = IF d = c THEN "gone" ELSE handler[d]
      /\ handler' \in [Clients -> {"receiving", "health", "locking", "dispatching", "leaving",
                                   "gone"}]
      /\ handler[c] = "leaving" /\ lock = NoClient
      /\ UNCHANGED <<lock, request, wires, client, refused>>
  BY DEF Release, ServiceInv, TypeOK
<1>2. \A d \in Clients : OwnRequests(d)'
  BY <1>1 DEF ServiceInv, OwnRequests, wires
<1>3. LockHeld'
  BY <1>1, ServiceAssumption DEF ServiceInv, LockHeld
<1>4. CASE UNCHANGED <<model, owner>>
  <2>1. TypeOK'
    BY <1>1, <1>4 DEF ServiceInv, TypeOK, model, wires, client
  <2> QED BY <1>2, <1>3, <1>4, <2>1 DEF ServiceInv, EpisodeBelongsToOwner, model
<1>5. CASE owner' = NoClient /\ EndActive
  <2>1. TypeOK'
    BY <1>1, <1>5, NoEpisodeType DEF ServiceInv, TypeOK, EndActive, wires, client
  <2>2. EpisodeBelongsToOwner'
    BY <1>5 DEF EndActive, EpisodeBelongsToOwner
  <2> QED BY <1>2, <1>3, <2>1, <2>2 DEF ServiceInv
<1> QED BY <1>4, <1>5 DEF Release

(* An operation runs on the model while its client holds the lock and owns   *)
(* the session.                                                              *)
LEMMA DispatchPreserves ==
  ASSUME ServiceInv, NEW c \in Clients, Dispatch(c)
  PROVE  ServiceInv'
<1> DEFINE r == request[c]
<1>1. /\ handler[c] = "dispatching" /\ lock = c /\ owner = c /\ lock' = NoClient
      /\ r \in RequestType /\ r.episode.client = c /\ r.op \in Operations \ {"health"}
      /\ UNCHANGED <<requests, client>>
  <2>1. handler[c] = "dispatching" /\ lock' = NoClient /\ UNCHANGED <<requests, client>>
    BY DEF Dispatch
  <2>2. r \in RequestType /\ r.op # "health" /\ r.episode.client = c
    BY <2>1 DEF ServiceInv, TypeOK, OwnRequests
  <2> QED BY <2>1, <2>2 DEF ServiceInv, LockHeld, RequestType
<1>2. PICK answer \in AnswerType : Respond(c, answer)
  BY <1>1, AnswerHasType DEF Dispatch
<1>3. /\ \A d \in Clients : OwnRequests(d)'
      /\ \A d \in Clients : handler'[d] = "dispatching" => d # c /\ handler[d] = "dispatching"
  BY <1>1, <1>2, RespondPreserves
<1>4. LockHeld'
  BY <1>1, <1>3 DEF ServiceInv, LockHeld
<1>5. /\ request' \in [Clients -> RequestType \union {Nothing}]
      /\ responses' \in [Clients -> Seq(AnswerType)]
      /\ handler' \in [Clients -> {"receiving", "health", "locking", "dispatching", "leaving",
                                   "gone"}]
      /\ requests' \in [Clients -> Seq(RequestType)]
  BY <1>1, <1>2, RespondType DEF ServiceInv, TypeOK
<1>6. refused' \subseteq Clients
  BY DEF Dispatch, ServiceInv, TypeOK
<1>7. r.episode \in EpisodeType /\ r.episode # NoEpisode /\ r.step \in Nat
  BY <1>1, ServiceAssumption DEF RequestType, NoEpisode
<1>8. SUFFICES
        /\ adapterState' \in {"ready", "episode_active"}
        /\ adapterEpisode' \in EpisodeType /\ episodeId' \in EpisodeType
        /\ boundRun' \in Clients \union {NoClient}
        /\ seenSteps' \subseteq Nat
        /\ owner' \in Clients \union {NoClient}
        /\ EpisodeBelongsToOwner'
  BY <1>1, <1>3, <1>4, <1>5, <1>6 DEF ServiceInv, TypeOK, client
<1>9. /\ adapterState \in {"ready", "episode_active"}
      /\ adapterEpisode \in EpisodeType /\ episodeId \in EpisodeType
      /\ boundRun \in Clients \union {NoClient} /\ seenSteps \subseteq Nat
      /\ EpisodeBelongsToOwner
  BY DEF ServiceInv, TypeOK
<1>10. CASE UNCHANGED <<model, owner>> \/ (HookEffect(r) /\ UNCHANGED owner)
  BY <1>1, <1>7, <1>9, <1>10 DEF HookEffect, model, EpisodeBelongsToOwner
<1>11. CASE Admissible(r) /\ Effect(r) /\ owner' = IF r.op = "close" THEN NoClient ELSE owner
  <2>1. CASE r.op = "initialize"
    BY <1>1, <1>9, <1>11, <2>1 DEF Admissible, Effect, EpisodeBelongsToOwner
  <2>2. CASE r.op = "reset_episode"
    BY <1>1, <1>7, <1>9, <1>11, <2>2 DEF Admissible, Effect, EpisodeBelongsToOwner
  <2>3. CASE r.op = "predict"
    BY <1>1, <1>7, <1>9, <1>11, <2>3 DEF Effect, EpisodeBelongsToOwner
  <2>4. CASE r.op \in {"end_episode", "close"}
    BY <1>1, <1>9, <1>11, <2>4, NoEpisodeType DEF Effect, EndActive, EpisodeBelongsToOwner
  <2> QED BY <1>1, <2>1, <2>2, <2>3, <2>4 DEF Operations
<1> QED BY <1>10, <1>11 DEF Dispatch

LEMMA ServiceInitially == Init => ServiceInv
<1> SUFFICES ASSUME Init PROVE ServiceInv
  OBVIOUS
<1>1. ASSUME NEW c \in Clients PROVE OwnRequests(c)
  <2>1. handler[c] = "receiving" /\ request[c] = Nothing /\ requests[c] = <<>>
    BY DEF Init
  <2> QED BY <2>1 DEF OwnRequests
<1>2. LockHeld /\ EpisodeBelongsToOwner
  BY DEF Init, LockHeld, EpisodeBelongsToOwner
<1> QED BY <1>1, <1>2, TypeInitially DEF ServiceInv

LEMMA ServicePreserved == ServiceInv /\ [Next]_vars => ServiceInv'
<1> SUFFICES ASSUME ServiceInv, [Next]_vars PROVE ServiceInv'
  OBVIOUS
<1>1. ASSUME NEW c \in Clients, ClientNext(c) PROVE ServiceInv'
  BY <1>1, SendPreserves, ClientPreserves DEF ClientNext
<1>2. ASSUME NEW c \in Clients, HandlerNext(c) PROVE ServiceInv'
  BY <1>2, ReadPreserves, RefusalPreserves, ClaimPreserves, HangUpPreserves, ReleasePreserves
     DEF HandlerNext
<1>3. ASSUME NEW c \in Clients, Dispatch(c) PROVE ServiceInv'
  BY <1>3, DispatchPreserves
<1>4. CASE UNCHANGED vars
  <2>1. TypeOK'
    BY <1>4 DEF vars, model, session, threads, wires, client, ServiceInv, TypeOK
  <2>2. \A c \in Clients : OwnRequests(c)'
    BY <1>4 DEF vars, threads, wires, ServiceInv, OwnRequests
  <2> QED BY <1>4, <2>1, <2>2, ModelUntouched DEF vars, session, threads
<1> QED BY <1>1, <1>2, <1>3, <1>4 DEF Next

(* The variables of the service and its clients keep their types.            *)
THEOREM TypeCorrect == Spec => []TypeOK
<1>1. ServiceInv => TypeOK
  BY DEF ServiceInv
<1> QED BY <1>1, ServiceInitially, ServicePreserved, PTL DEF Spec

(* The model's episode is always the session owner's (service.py:104-145,    *)
(* 209-236).                                                                 *)
THEOREM EpisodesBelongToOwners == Spec => []EpisodeBelongsToOwner
<1>1. ServiceInv => EpisodeBelongsToOwner
  BY DEF ServiceInv
<1> QED BY <1>1, ServiceInitially, ServicePreserved, PTL DEF Spec

(* An episode ends only by a step of its own client's thread: neither a      *)
(* refused claim nor another connection's release ends it (service.py:104-115, *)
(* 137-140).                                                                 *)
THEOREM EpisodesEndedByTheirClient == Spec => OnlyItsClientEndsAnEpisode
<1>1. ServiceInv /\ [Next]_vars =>
        [\A c \in Clients : adapterEpisode.client = c /\ adapterEpisode' # adapterEpisode
                              => handler'[c] # handler[c]]_vars
  <2> SUFFICES ASSUME ServiceInv, [Next]_vars, NEW c \in Clients, adapterEpisode.client = c,
                      adapterEpisode' # adapterEpisode
      PROVE  handler'[c] # handler[c]
    OBVIOUS
  <2>1. adapterEpisode # NoEpisode
    BY ServiceAssumption DEF NoEpisode
  <2>2. adapterState = "episode_active" /\ owner = c
    BY <2>1 DEF ServiceInv, EpisodeBelongsToOwner
  <2>3. PICK d \in Clients : Release(d) \/ Dispatch(d)
    BY ZenonT(40) DEF Next, ClientNext, HandlerNext, Send, Receive, Timeout, Disconnect, ReadRequest,
           AnswerHealth, Claim, Busy, HangUp, vars, model
  <2>4. CASE Release(d)
    <3>1. d = c
      BY <2>2, <2>4 DEF Release, Releases, model
    <3> QED BY <2>4, <3>1 DEF Release, ServiceInv, TypeOK
  <2>5. CASE Dispatch(d)
    <3>1. d = c
      BY <2>2, <2>5 DEF Dispatch, ServiceInv, LockHeld
    <3>2. handler[d] = "dispatching" /\ handler'[d] \in {"receiving", "leaving"}
      BY <2>5 DEF Dispatch, Respond, ServiceInv, TypeOK
    <3> QED BY <3>1, <3>2
  <2> QED BY <2>3, <2>4, <2>5
<1> QED BY <1>1, ServiceInitially, ServicePreserved, PTL DEF Spec, OnlyItsClientEndsAnEpisode

(* The service implements the session its README promises: one owner at a    *)
(* time, episodes of the owner only, and no hand-over of an active episode.  *)
THEOREM ServiceImplementsSession == Spec => ImplementsSession
<1>1. Init => Session!SessionInit
  BY DEF Init, Session!SessionInit, NoEpisode
<1>2. ServiceInv /\ [Next]_vars => [Session!SessionNext]_(Session!sessionVars)
  <2> SUFFICES ASSUME ServiceInv, [Next]_vars, ~UNCHANGED <<owner, adapterEpisode.client>>
      PROVE  Session!SessionNext
    BY DEF Session!sessionVars
  <2>1. PICK c \in Clients : Claim(c) \/ Release(c) \/ Dispatch(c)
    BY ZenonT(40) DEF Next, ClientNext, HandlerNext, Send, Receive, Timeout, Disconnect, ReadRequest,
           AnswerHealth, Busy, HangUp, vars, model, session
  <2>2. CASE Claim(c)
    <3>1. owner = NoClient /\ owner' = c /\ UNCHANGED adapterEpisode
      BY <2>2 DEF Claim, MayOwn, model
    <3> QED BY <3>1 DEF Session!SessionNext, Session!Take
  <2>3. CASE Release(c)
    <3>1. owner = c /\ owner' = NoClient /\ adapterEpisode'.client = NoClient
      BY <2>3 DEF Release, Releases, EndActive, NoEpisode, model
    <3> QED BY <3>1 DEF Session!SessionNext, Session!Leave
  <2>4. CASE Dispatch(c)
    <3> DEFINE r == request[c]
    <3>1. owner = c /\ r.episode.client = c /\ r \in RequestType /\ r.op # "health"
      BY <2>4 DEF Dispatch, ServiceInv, LockHeld, OwnRequests, TypeOK
    <3>2. Admissible(r) /\ Effect(r) /\ owner' = IF r.op = "close" THEN NoClient ELSE owner
      BY <2>4 DEF Dispatch, HookEffect, model
    <3>3. CASE r.op \in {"initialize", "predict"}
      BY <3>2, <3>3 DEF Effect
    <3>4. CASE r.op = "reset_episode"
      <4>1. adapterEpisode = NoEpisode /\ adapterEpisode' = r.episode /\ owner' = owner
        BY <3>2, <3>4 DEF Admissible, Effect, ServiceInv, EpisodeBelongsToOwner
      <4>2. Session!StartEpisode(c)
        BY <3>1, <4>1 DEF Session!StartEpisode, NoEpisode
      <4> QED BY <4>2 DEF Session!SessionNext
    <3>5. CASE r.op = "end_episode"
      <4>1. adapterEpisode = r.episode /\ adapterEpisode' = NoEpisode /\ owner' = owner
        BY <3>2, <3>5 DEF Admissible, Effect, EndActive, ServiceInv, EpisodeBelongsToOwner
      <4>2. Session!EndEpisode(c)
        BY <3>1, <4>1 DEF Session!EndEpisode, NoEpisode
      <4> QED BY <4>2 DEF Session!SessionNext
    <3>6. CASE r.op = "close"
      <4>1. adapterEpisode' = NoEpisode /\ owner' = NoClient
        BY <3>2, <3>6 DEF Effect, EndActive
      <4>2. Session!Leave(c)
        BY <3>1, <4>1 DEF Session!Leave, NoEpisode
      <4> QED BY <4>2 DEF Session!SessionNext
    <3> QED BY <3>1, <3>3, <3>4, <3>5, <3>6 DEF RequestType, Operations
  <2> QED BY <2>1, <2>2, <2>3, <2>4
<1> QED BY <1>1, <1>2, ServiceInitially, ServicePreserved, PTL
        DEF Spec, ImplementsSession, Session!SessionSpec

-----------------------------------------------------------------------------
(* Every answer a client gets to the id it waits for was made for the step   *)
(* it asked about: ids only grow, so a frame that is still on its way from   *)
(* before a timeout carries an id of the past.                               *)

Frames(queue) == {queue[k] : k \in 1..Len(queue)}

OnTheirWay(c) ==
  Frames(requests[c]) \union Frames(responses[c]) \union ({request[c]} \ {Nothing})

Carries(c, frame) ==
  /\ frame.id \in 1..sent[c]
  /\ awaiting[c] # Nothing /\ frame.id = awaiting[c].id => frame.step = awaiting[c].step

FramesMatch(c) ==
  /\ awaiting[c] # Nothing => awaiting[c].id = sent[c]
  /\ \A frame \in OnTheirWay(c) : Carries(c, frame)

FrameInv ==
  /\ ServiceInv
  /\ \A c \in Clients : FramesMatch(c)
  /\ PredictionsMatchObservations

LEMMA FramesAppended ==
  ASSUME NEW S, NEW queue \in Seq(S), NEW e \in S
  PROVE  Frames(Append(queue, e)) = Frames(queue) \union {e}
<1>1. Append(queue, e) \in Seq(S) /\ Len(Append(queue, e)) = Len(queue) + 1
      /\ Len(queue) \in Nat
      /\ \A k \in 1..Len(queue) : Append(queue, e)[k] = queue[k]
      /\ Append(queue, e)[Len(queue) + 1] = e
  OBVIOUS
<1>2. \A k \in 1..(Len(queue) + 1) : k \in 1..Len(queue) \/ k = Len(queue) + 1
  BY <1>1
<1>3. \A k \in 1..Len(queue) : k \in 1..(Len(queue) + 1)
  BY <1>1
<1>4. Len(queue) + 1 \in 1..(Len(queue) + 1)
  BY <1>1
<1> QED BY <1>1, <1>2, <1>3, <1>4 DEF Frames

LEMMA FramesTaken ==
  ASSUME NEW S, NEW queue \in Seq(S), queue # <<>>
  PROVE  /\ Head(queue) \in Frames(queue)
         /\ Frames(Tail(queue)) \subseteq Frames(queue)
<1>1. Len(queue) \in Nat \ {0} /\ Head(queue) = queue[1] /\ Len(Tail(queue)) = Len(queue) - 1
      /\ \A k \in 1..Len(Tail(queue)) : Tail(queue)[k] = queue[k + 1]
  OBVIOUS
<1>2. 1 \in 1..Len(queue) /\ \A k \in 1..Len(Tail(queue)) : k + 1 \in 1..Len(queue)
  BY <1>1
<1> QED BY <1>1, <1>2 DEF Frames

LEMMA FramesTyped ==
  ASSUME TypeOK, NEW c \in Clients
  PROVE  /\ Frames(requests[c]) \subseteq RequestType
         /\ Frames(responses[c]) \subseteq AnswerType
         /\ \A frame \in OnTheirWay(c) : frame.id \in Nat /\ frame.step \in Nat
<1>1. requests[c] \in Seq(RequestType) /\ responses[c] \in Seq(AnswerType)
      /\ request[c] \in RequestType \union {Nothing}
  BY DEF TypeOK
<1>2. Frames(requests[c]) \subseteq RequestType /\ Frames(responses[c]) \subseteq AnswerType
  BY <1>1 DEF Frames
<1> QED BY <1>1, <1>2 DEF OnTheirWay, RequestType, AnswerType

(* A step that sends nothing and only passes frames on, or answers them,     *)
(* keeps them matched.                                                       *)
LEMMA FramesPassedOn ==
  ASSUME TypeOK, TypeOK', NEW d \in Clients, FramesMatch(d), sent'[d] = sent[d],
         awaiting'[d] \in {awaiting[d], Nothing},
         \A frame \in OnTheirWay(d)' : \E old \in OnTheirWay(d) :
           frame.id = old.id /\ frame.step = old.step
  PROVE  FramesMatch(d)'
<1>1. ASSUME NEW frame \in OnTheirWay(d)' PROVE Carries(d, frame)'
  <2>1. PICK old \in OnTheirWay(d) : frame.id = old.id /\ frame.step = old.step
    OBVIOUS
  <2>2. Carries(d, old)
    BY DEF FramesMatch
  <2> QED BY <2>1, <2>2 DEF Carries
<1> QED BY <1>1 DEF FramesMatch

LEMMA SendMatches ==
  ASSUME FrameInv, TypeOK', NEW c \in Clients, NEW op \in Operations, Send(c, op)
  PROVE  FrameInv'
<1>1. /\ requests \in [Clients -> Seq(RequestType)]
      /\ awaiting \in [Clients -> RequestType \union {Nothing}] /\ sent \in [Clients -> Nat]
      /\ TypeOK
  BY DEF FrameInv, ServiceInv, TypeOK
<1>2. PICK r \in RequestType :
        /\ requests' = [requests EXCEPT ![c] = Append(@, r)]
        /\ awaiting' = [awaiting EXCEPT ![c] = r]
        /\ sent' = [sent EXCEPT ![c] = @ + 1]
        /\ r.id = sent[c] + 1
  BY <1>1, SendsOne
<1>3. /\ requests' = [requests EXCEPT ![c] = Append(@, r)]
      /\ awaiting' = [awaiting EXCEPT ![c] = r] /\ sent' = [sent EXCEPT ![c] = @ + 1]
      /\ UNCHANGED <<request, responses, received>>
  BY <1>2 DEF Send, threads
<1>4. r.id = sent[c] + 1
  BY <1>2
<1>5. ServiceInv'
  BY SendPreserves DEF FrameInv
<1>6. ASSUME NEW d \in Clients PROVE FramesMatch(d)'
  <2>1. FramesMatch(d)
    BY DEF FrameInv
  <2>2. CASE d # c
    <3>1. OnTheirWay(d)' = OnTheirWay(d) /\ sent'[d] = sent[d] /\ awaiting'[d] = awaiting[d]
      BY <1>3, <1>1, <2>2 DEF OnTheirWay
    <3> QED BY <2>1, <3>1 DEF FramesMatch, Carries
  <2>3. CASE d = c
    <3>1. sent'[c] = sent[c] + 1 /\ awaiting'[c] = r /\ requests'[c] = Append(requests[c], r)
      BY <1>3, <1>1
    <3>2. OnTheirWay(c)' = OnTheirWay(c) \union {r}
      <4>1. Frames(requests'[c]) = Frames(requests[c]) \union {r}
        BY <1>1, <1>2, <3>1, FramesAppended
      <4>2. Frames(requests[c])' = Frames(requests'[c])
            /\ Frames(responses[c])' = Frames(responses[c])
        BY <1>3 DEF Frames
      <4> QED BY <1>3, <4>1, <4>2 DEF OnTheirWay
    <3>3. ASSUME NEW frame \in OnTheirWay(c) PROVE Carries(c, frame)'
      <4>1. frame.id \in 1..sent[c]
        BY <2>1, <2>3 DEF FramesMatch, Carries
      <4>2. frame.id # r.id
        BY <1>4, <1>1, <4>1
      <4> QED BY <1>1, <3>1, <4>1, <4>2 DEF Carries
    <3>4. Carries(c, r)'
      BY <1>4, <1>1, <3>1 DEF Carries
    <3> QED BY <1>4, <2>3, <3>1, <3>2, <3>3, <3>4 DEF FramesMatch
  <2> QED BY <2>2, <2>3
<1>7. PredictionsMatchObservations'
  BY <1>3 DEF FrameInv, PredictionsMatchObservations
<1> QED BY <1>5, <1>6, <1>7 DEF FrameInv

LEMMA ReceiveMatches ==
  ASSUME FrameInv, ServiceInv', NEW c \in Clients, Receive(c)
  PROVE  FrameInv'
<1> DEFINE answer == Head(responses[c])
<1>1. /\ responses' = [responses EXCEPT ![c] = Tail(@)] /\ responses[c] # <<>>
      /\ awaiting' = [awaiting EXCEPT ![c] = Nothing] /\ awaiting[c] # Nothing
      /\ received' = [received EXCEPT ![c] =
           IF awaiting[c].op = "predict" /\ Accepts(c, answer)
           THEN @ \union {[asked |-> awaiting[c].step, answered |-> answer.step]} ELSE @]
      /\ UNCHANGED <<request, requests, sent>>
  BY DEF Receive, threads
<1>2. TypeOK /\ TypeOK'
  BY DEF FrameInv, ServiceInv
<1>3. /\ responses \in [Clients -> Seq(AnswerType)]
      /\ awaiting \in [Clients -> RequestType \union {Nothing}]
      /\ received \in [Clients -> SUBSET [asked: Nat, answered: Nat]]
  BY <1>2 DEF TypeOK
<1>4. answer \in Frames(responses[c]) /\ Frames(Tail(responses[c])) \subseteq Frames(responses[c])
  BY <1>1, <1>3, FramesTaken
<1>5. ASSUME NEW d \in Clients PROVE FramesMatch(d)'
  <2>1. OnTheirWay(d)' \subseteq OnTheirWay(d)
    BY <1>1, <1>3, <1>4 DEF OnTheirWay
  <2>2. FramesMatch(d) /\ sent'[d] = sent[d] /\ awaiting'[d] \in {awaiting[d], Nothing}
    BY <1>1, <1>3 DEF FrameInv
  <2> QED BY <1>2, <2>1, <2>2, FramesPassedOn
<1>6. PredictionsMatchObservations'
  <2>1. Carries(c, answer)
    BY <1>4 DEF FrameInv, FramesMatch, OnTheirWay
  <2>2. Accepts(c, answer) => answer.step = awaiting[c].step
    BY <1>1, <2>1 DEF Accepts, Carries
  <2>3. ASSUME NEW d \in Clients, NEW p \in received'[d] PROVE p.asked = p.answered
    <3>1. CASE p \in received[d]
      BY <3>1 DEF FrameInv, PredictionsMatchObservations
    <3>2. CASE p \notin received[d]
      <4>1. d = c /\ Accepts(c, answer)
            /\ p = [asked |-> awaiting[c].step, answered |-> answer.step]
        BY <1>1, <1>3, <2>3, <3>2
      <4> QED BY <2>2, <4>1
    <3> QED BY <3>1, <3>2
  <2> QED BY <2>3 DEF PredictionsMatchObservations
<1> QED BY <1>5, <1>6 DEF FrameInv

(* What the service does with a frame of one client: reads it, answers it or *)
(* leaves it.                                                                *)
LEMMA ReadMatches ==
  ASSUME FrameInv, ServiceInv', NEW c \in Clients, ReadRequest(c)
  PROVE  \A d \in Clients : FramesMatch(d)'
<1>1. /\ request' = [request EXCEPT ![c] = Head(requests[c])]
      /\ requests' = [requests EXCEPT ![c] = Tail(@)] /\ requests[c] # <<>>
      /\ UNCHANGED <<responses, client>>
  BY DEF ReadRequest
<1>2. TypeOK /\ TypeOK'
  BY DEF FrameInv, ServiceInv
<1>3. /\ requests \in [Clients -> Seq(RequestType)]
      /\ request \in [Clients -> RequestType \union {Nothing}]
  BY <1>2 DEF TypeOK
<1>4. Head(requests[c]) \in Frames(requests[c])
      /\ Frames(Tail(requests[c])) \subseteq Frames(requests[c])
  BY <1>1, <1>3, FramesTaken
<1>5. ASSUME NEW d \in Clients PROVE FramesMatch(d)'
  <2>1. OnTheirWay(d)' \subseteq OnTheirWay(d)
    BY <1>1, <1>3, <1>4 DEF OnTheirWay
  <2>2. FramesMatch(d) /\ sent'[d] = sent[d] /\ awaiting'[d] = awaiting[d]
    BY <1>1 DEF FrameInv, client
  <2> QED BY <1>2, <2>1, <2>2, FramesPassedOn
<1> QED BY <1>5

LEMMA AnswerMatches ==
  ASSUME FrameInv, ServiceInv', NEW c \in Clients, request[c] # Nothing,
         NEW status \in {"ok", "busy", "error"}, Respond(c, Answer(request[c], status)),
         UNCHANGED <<requests, client>>
  PROVE  \A d \in Clients : FramesMatch(d)'
<1> DEFINE answer == Answer(request[c], status)
<1>1. TypeOK /\ TypeOK'
  BY DEF FrameInv, ServiceInv
<1>2. /\ responses \in [Clients -> Seq(AnswerType)]
      /\ request \in [Clients -> RequestType \union {Nothing}]
  BY <1>1 DEF TypeOK
<1>3. answer \in AnswerType /\ answer.id = request[c].id /\ answer.step = request[c].step
  BY <1>2, AnswerHasType DEF Answer
<1> HIDE DEF answer
<1>4. /\ request' = [request EXCEPT ![c] = Nothing]
      /\ responses' = [responses EXCEPT ![c] = Append(@, answer)] \/ UNCHANGED responses
  BY DEF Respond, answer
<1>5. Frames(Append(responses[c], answer)) = Frames(responses[c]) \union {answer}
  BY <1>2, <1>3, FramesAppended
<1>6. ASSUME NEW d \in Clients PROVE FramesMatch(d)'
  <2>1. FramesMatch(d) /\ sent'[d] = sent[d] /\ awaiting'[d] = awaiting[d]
    BY DEF FrameInv, client
  <2>2. CASE d # c
    <3>1. OnTheirWay(d)' \subseteq OnTheirWay(d)
      BY <1>2, <1>4, <2>2 DEF OnTheirWay
    <3> QED BY <1>1, <2>1, <3>1, FramesPassedOn
  <2>3. CASE d = c
    <3>1. Frames(responses[c])' \subseteq Frames(responses[c]) \union {answer}
      <4>1. Frames(responses[c])' = Frames(responses'[c])
        BY DEF Frames
      <4> QED BY <1>2, <1>4, <1>5, <4>1
    <3>2. request[c] \in OnTheirWay(c)
      BY DEF OnTheirWay
    <3>3. OnTheirWay(c)' \subseteq OnTheirWay(c) \union {answer}
      BY <1>2, <1>4, <3>1 DEF OnTheirWay
    <3> QED BY <1>1, <1>3, <2>1, <2>3, <3>2, <3>3, FramesPassedOn
  <2> QED BY <2>2, <2>3
<1> QED BY <1>6

LEMMA FramesStand ==
  ASSUME FrameInv, ServiceInv',
         UNCHANGED <<request, requests, responses, sent>>,
         \A d \in Clients : awaiting'[d] \in {awaiting[d], Nothing}
  PROVE  \A d \in Clients : FramesMatch(d)'
<1>1. TypeOK /\ TypeOK'
  BY DEF FrameInv, ServiceInv
<1>2. ASSUME NEW d \in Clients PROVE FramesMatch(d)'
  <2>1. OnTheirWay(d)' = OnTheirWay(d)
    BY DEF OnTheirWay, Frames
  <2>2. FramesMatch(d) /\ sent'[d] = sent[d] /\ awaiting'[d] \in {awaiting[d], Nothing}
    BY DEF FrameInv
  <2> QED BY <1>1, <2>1, <2>2, FramesPassedOn
<1> QED BY <1>2

LEMMA FramesPreserved == FrameInv /\ [Next]_vars => FrameInv'
<1> SUFFICES ASSUME FrameInv, [Next]_vars PROVE FrameInv'
  OBVIOUS
<1>1. ServiceInv /\ ServiceInv' /\ TypeOK /\ TypeOK'
  BY ServicePreserved DEF FrameInv, ServiceInv
<1>2. ASSUME UNCHANGED received PROVE PredictionsMatchObservations'
  BY <1>2 DEF FrameInv, PredictionsMatchObservations
<1>3. ASSUME NEW c \in Clients, ClientNext(c) PROVE FrameInv'
  <2>1. CASE \E op \in Operations : Send(c, op)
    BY <1>1, <2>1, SendMatches
  <2>2. CASE Receive(c)
    BY <1>1, <2>2, ReceiveMatches
  <2>3. CASE Timeout(c) \/ Disconnect(c)
    <3>1. UNCHANGED <<request, requests, responses, sent, received>>
          /\ awaiting' = [awaiting EXCEPT ![c] = Nothing]
      BY <2>3 DEF Timeout, Disconnect, threads, wires
    <3>2. \A d \in Clients : awaiting'[d] \in {awaiting[d], Nothing}
      BY <1>1, <3>1 DEF TypeOK
    <3>3. \A d \in Clients : FramesMatch(d)'
      BY <1>1, <3>1, <3>2, FramesStand
    <3> QED BY <1>1, <1>2, <3>1, <3>3 DEF FrameInv
  <2> QED BY <1>3, <2>1, <2>2, <2>3 DEF ClientNext
<1>4. ASSUME NEW c \in Clients, HandlerNext(c) \/ Dispatch(c) PROVE FrameInv'
  <2>1. UNCHANGED client
    BY <1>4 DEF HandlerNext, ReadRequest, AnswerHealth, Claim, Busy, HangUp, Release, Dispatch
  <2>2. CASE ReadRequest(c)
    BY <1>1, <1>2, <2>1, <2>2, ReadMatches DEF FrameInv, client
  <2>3. CASE AnswerHealth(c) \/ Busy(c) \/ Dispatch(c)
    <3>1. handler[c] \in {"health", "locking", "dispatching"} /\ UNCHANGED requests
      BY <2>3 DEF AnswerHealth, Busy, Dispatch
    <3>2. request[c] # Nothing
      BY <1>1, <3>1 DEF ServiceInv, OwnRequests
    <3>3. \E status \in {"ok", "busy", "error"} : Respond(c, Answer(request[c], status))
      BY <2>3 DEF AnswerHealth, Busy, Dispatch
    <3>4. \A d \in Clients : FramesMatch(d)'
      BY <1>1, <2>1, <3>1, <3>2, <3>3, AnswerMatches
    <3> QED BY <1>1, <1>2, <2>1, <3>4 DEF FrameInv, client
  <2>4. CASE Claim(c) \/ HangUp(c) \/ Release(c)
    <3>1. UNCHANGED <<request, requests, responses>>
      BY <2>4 DEF Claim, HangUp, Release, wires
    <3>2. \A d \in Clients : FramesMatch(d)'
      BY <1>1, <2>1, <3>1, FramesStand DEF client
    <3> QED BY <1>1, <1>2, <2>1, <3>2 DEF FrameInv, client
  <2> QED BY <1>4, <2>2, <2>3, <2>4 DEF HandlerNext
<1>5. CASE UNCHANGED vars
  <2>1. UNCHANGED <<request, requests, responses, sent, awaiting, received>>
    BY <1>5 DEF vars, threads, wires, client
  <2>2. \A d \in Clients : FramesMatch(d)'
    BY <1>1, <2>1, FramesStand
  <2> QED BY <1>1, <1>2, <2>1, <2>2 DEF FrameInv
<1> QED BY <1>3, <1>4, <1>5 DEF Next

LEMMA FramesInitially == Init => FrameInv
<1> SUFFICES ASSUME Init PROVE FrameInv
  OBVIOUS
<1>1. ASSUME NEW c \in Clients PROVE FramesMatch(c)
  <2>1. /\ requests[c] = <<>> /\ responses[c] = <<>> /\ request[c] = Nothing
        /\ awaiting[c] = Nothing
    BY DEF Init
  <2>2. Frames(<<>>) = {}
    BY DEF Frames
  <2> QED BY <2>1, <2>2 DEF FramesMatch, OnTheirWay
<1>2. PredictionsMatchObservations
  BY DEF Init, PredictionsMatchObservations
<1> QED BY <1>1, <1>2, ServiceInitially DEF FrameInv

(* A prediction handed to the runner was made for the observation it sent,   *)
(* also when the answer to a request that timed out arrives while the next   *)
(* one waits (client.py:129-156, protocol.py:174-200).                      *)
THEOREM PredictionsMatch == Spec => []PredictionsMatchObservations
<1>1. FrameInv => PredictionsMatchObservations
  BY DEF FrameInv
<1> QED BY <1>1, FramesInitially, FramesPreserved, PTL DEF Spec

-----------------------------------------------------------------------------
(* A client that never timed out has one request on its way, meant for the   *)
(* state the service is in, and otherwise believes what the service knows.   *)

Working(c) == handler[c] \in {"health", "locking", "dispatching"}

\* The service is in no episode of c; the run of c is the bound one; both are
\* in the same episode of c.
Idle(c) == adapterEpisode.client # c
Bound(c) == owner = c /\ boundRun = c
Shared(c) == owner = c /\ adapterEpisode = Episode(c) /\ seenSteps \subseteq 0..step[c]

\* What the service is like if the adapter of c is rightly in the state s.
Believed(c, s) ==
  /\ s = "created" => Idle(c)
  /\ s \in {"handshaken", "ready"} => Bound(c) /\ Idle(c)
  /\ s = "episode_active" => Shared(c)

\* What the service is like while the request r of c is on its way.
Meant(c, r) ==
  /\ r.op = "initialize" => Idle(c)
  /\ r.op = "reset_episode" => Bound(c) /\ Idle(c) /\ r.episode = Episode(c)
  /\ r.op = "predict" =>
       Shared(c) /\ r.episode = Episode(c) /\ r.step = step[c] /\ r.step \notin seenSteps
  /\ r.op = "end_episode" => Shared(c) /\ r.episode = Episode(c)

OneRequest(c) ==
  /\ Working(c) => requests[c] = <<>>
  /\ handler[c] = "health" => request[c].op = "health"
  /\ handler[c] = "receiving" => Len(requests[c]) <= 1

Waiting(c) ==
  /\ handler[c] \notin {"leaving", "gone"}
  /\ Working(c) => awaiting[c] = request[c] /\ responses[c] = <<>>
  /\ requests[c] # <<>> => awaiting[c] = Head(requests[c]) /\ responses[c] = <<>>
  /\ responses[c] # <<>> => /\ Len(responses[c]) = 1
                            /\ awaiting[c] # Nothing
                            /\ Head(responses[c]).id = awaiting[c].id
  /\ awaiting[c] # Nothing => Callable(c, awaiting[c].op)

\* The state the answer on its way will put the adapter of c in.
Becomes(c) ==
  IF Head(responses[c]).status = "ok" THEN StateAfter(awaiting[c].op, state[c]) ELSE state[c]

Agreement(c) ==
  /\ OneRequest(c)
  /\ handler[c] = "receiving" /\ requests[c] # <<>> => Meant(c, Head(requests[c]))
  /\ Working(c) => Meant(c, request[c])
  /\ state[c] = "closed" => awaiting[c] = Nothing
  /\ state[c] # "closed" =>
       /\ Waiting(c)
       /\ responses[c] = <<>> => Believed(c, state[c])
       /\ responses[c] # <<>> /\ awaiting[c].op # "close" => Believed(c, Becomes(c))

AgreementInv ==
  /\ ServiceInv
  /\ RefusalsFollowTimeouts
  /\ \A c \in Clients \ timedOut : Agreement(c)

LEMMA OnlyOne ==
  ASSUME NEW S, NEW queue \in Seq(S), queue # <<>>, Len(queue) <= 1
  PROVE  Tail(queue) = <<>>
<1>1. Tail(queue) \in Seq(S) /\ Len(Tail(queue)) = Len(queue) - 1
  BY HeadTailProperties
<1>2. Len(queue) \in Nat /\ Len(queue) # 0
  BY EmptySeq
<1> QED BY <1>1, <1>2, EmptySeq

LEMMA FirstOne ==
  ASSUME NEW S, NEW e \in S
  PROVE  /\ Append(<<>>, e) # <<>> /\ Len(Append(<<>>, e)) = 1
         /\ Head(Append(<<>>, e)) = e
<1>1. <<>> \in Seq(S) /\ Len(<<>>) = 0
  OBVIOUS
<1>2. Append(<<>>, e) \in Seq(S) /\ Len(Append(<<>>, e)) = 1 /\ Append(<<>>, e)[1] = e
  BY <1>1
<1> QED BY <1>1, <1>2

(* Another client's step: what the service knows of d is d's alone while d   *)
(* owns the session, and nobody else starts an episode of d.                 *)
LEMMA OthersKeep ==
  ASSUME ServiceInv, NEW c \in Clients, NEW d \in Clients, d # c,
         ClientNext(c) \/ HandlerNext(c) \/ Dispatch(c)
  PROVE  /\ owner = d => UNCHANGED <<owner, boundRun, adapterEpisode, seenSteps>>
         /\ Idle(d) => Idle(d)'
<1>1. CASE ~Release(c) /\ ~Dispatch(c)
  <2>1. UNCHANGED model
    BY <1>1 DEF ClientNext, HandlerNext, Send, Receive, Timeout, Disconnect, ReadRequest,
                AnswerHealth, Claim, Busy, HangUp
  <2>2. owner = d => UNCHANGED owner
    BY <1>1, ServiceAssumption DEF ClientNext, HandlerNext, Send, Receive, Timeout, Disconnect,
                ReadRequest, AnswerHealth, Claim, Busy, HangUp, MayOwn, session
  <2> QED BY <2>1, <2>2 DEF model, Idle
<1>2. CASE Release(c)
  <2>1. UNCHANGED <<model, owner>> \/ (owner = c /\ EndActive)
    BY <1>2 DEF Release, Releases
  <2> QED BY <2>1, ServiceAssumption DEF EndActive, NoEpisode, Idle, model
<1>3. CASE Dispatch(c)
  <2> DEFINE r == request[c]
  <2>1. owner = c /\ r.episode.client = c /\ r.op \in Operations \ {"health"}
    <3>1. handler[c] = "dispatching"
      BY <1>3 DEF Dispatch
    <3> QED BY <3>1 DEF ServiceInv, TypeOK, LockHeld, OwnRequests, RequestType
  <2>2. Effect(r) \/ HookEffect(r) \/ UNCHANGED model
    BY <1>3 DEF Dispatch
  <2>3. adapterEpisode' \in {adapterEpisode, r.episode, NoEpisode}
    <3>1. CASE Effect(r)
      BY <2>1, <3>1 DEF Effect, EndActive, Operations
    <3> QED BY <2>2, <3>1 DEF HookEffect, model
  <2> QED BY <2>1, <2>3, ServiceAssumption DEF NoEpisode, Idle
<1> QED BY <1>1, <1>2, <1>3

LEMMA AgreementStands ==
  ASSUME NEW d \in Clients, Agreement(d),
         handler'[d] = handler[d], request'[d] = request[d], requests'[d] = requests[d],
         responses'[d] = responses[d], state'[d] = state[d], awaiting'[d] = awaiting[d],
         number'[d] = number[d], step'[d] = step[d],
         owner = d => UNCHANGED <<owner, boundRun, adapterEpisode, seenSteps>>,
         Idle(d) => Idle(d)'
  PROVE  Agreement(d)'
<1>1. /\ Bound(d) => Bound(d)'
      /\ Shared(d) => Shared(d)' /\ UNCHANGED seenSteps
      /\ Episode(d)' = Episode(d)
  BY DEF Bound, Shared, Episode
<1>2. \A s : Believed(d, s) => Believed(d, s)'
  BY <1>1 DEF Believed
<1>3. Working(d)' = Working(d)
  BY DEF Working
<1>4. Working(d) => Meant(d, request[d])'
  BY <1>1 DEF Agreement, Meant
<1>5. handler[d] = "receiving" /\ requests[d] # <<>> => Meant(d, Head(requests[d]))'
  BY <1>1 DEF Agreement, Meant
<1>6. OneRequest(d)'
  BY <1>3 DEF Agreement, OneRequest
<1>7. Waiting(d) => Waiting(d)'
  BY <1>3 DEF Waiting, Callable
<1>8. Becomes(d)' = Becomes(d)
  BY DEF Becomes
<1>9. Believed(d, state[d]) => Believed(d, state[d])'
  BY <1>2
<1>10. Believed(d, Becomes(d)) => Believed(d, Becomes(d))'
  BY <1>2, <1>8 DEF Believed
<1> QED BY <1>3, <1>4, <1>5, <1>6, <1>7, <1>9, <1>10 DEF Agreement

(* A client that waits for nothing has nothing on its way.                   *)
LEMMA NothingOnItsWay ==
  ASSUME ServiceInv, NEW c \in Clients, Agreement(c), awaiting[c] = Nothing,
         state[c] # "closed"
  PROVE  /\ handler[c] = "receiving" /\ requests[c] = <<>> /\ responses[c] = <<>>
         /\ Believed(c, state[c])
<1>1. Waiting(c) /\ OwnRequests(c)
  BY DEF Agreement, ServiceInv
<1>2. ~Working(c)
  BY <1>1 DEF Working, Waiting, OwnRequests
<1>3. handler[c] = "receiving"
  BY <1>1, <1>2 DEF Waiting, Working, ServiceInv, TypeOK
<1>4. requests[c] = <<>>
  <2>1. requests[c] # <<>> => Head(requests[c]) \in RequestType
    BY TailType DEF ServiceInv, TypeOK
  <2>2. Nothing \notin RequestType
    BY DEF Nothing, RequestType, Operations
  <2> QED BY <1>1, <2>1, <2>2 DEF Waiting
<1>5. responses[c] = <<>>
  BY <1>1 DEF Waiting
<1> QED BY <1>3, <1>4, <1>5 DEF Agreement

LEMMA SendAgrees ==
  ASSUME ServiceInv, NEW c \in Clients, NEW op \in Operations, Send(c, op), Agreement(c)
  PROVE  Agreement(c)'
<1>1. /\ TypeOK
      /\ requests \in [Clients -> Seq(RequestType)]
      /\ awaiting \in [Clients -> RequestType \union {Nothing}]
      /\ number \in [Clients -> Nat] /\ step \in [Clients -> Nat]
      /\ number[c] \in Nat /\ step[c] \in Nat
  BY DEF ServiceInv, TypeOK
<1>2. PICK r \in RequestType :
        /\ requests' = [requests EXCEPT ![c] = Append(@, r)]
        /\ awaiting' = [awaiting EXCEPT ![c] = r]
        /\ r.op = op /\ r.episode = [client |-> c, number |-> number'[c]] /\ r.step = step'[c]
  BY <1>1, SendsOne
<1>3. /\ awaiting[c] = Nothing /\ Callable(c, op) /\ state[c] # "closed"
      /\ UNCHANGED <<model, session, threads, responses, state>>
  BY DEF Send, Callable, Operations
<1>4. /\ handler[c] = "receiving" /\ requests[c] = <<>> /\ responses[c] = <<>>
      /\ Believed(c, state[c])
  BY <1>3, NothingOnItsWay
<1>5. /\ requests'[c] # <<>> /\ Len(requests'[c]) = 1 /\ Head(requests'[c]) = r
      /\ awaiting'[c] = r
  <2>1. requests'[c] = Append(<<>>, r) /\ awaiting'[c] = r
    BY <1>1, <1>2, <1>4
  <2> QED BY <2>1, FirstOne
<1>6. number'[c] = (IF op = "reset_episode" THEN number[c] + 1 ELSE number[c])
      /\ step'[c] = (IF op = "reset_episode" THEN 0
                     ELSE IF op = "predict" THEN step[c] + 1 ELSE step[c])
  BY <1>1 DEF Send
<1>7. handler'[c] = "receiving" /\ ~Working(c)' /\ responses'[c] = <<>>
  BY <1>3, <1>4 DEF threads, Working
<1>8. /\ Idle(c)' = Idle(c) /\ Bound(c)' = Bound(c)
      /\ op # "reset_episode" /\ Shared(c) => Shared(c)' /\ Episode(c)' = Episode(c)
  BY <1>1, <1>3, <1>6 DEF model, session, Idle, Bound, Shared, Episode
<1>9. Meant(c, r)'
  <2>1. r.episode = Episode(c)' /\ r.step = step'[c]
    BY <1>2 DEF Episode
  <2>2. CASE op = "initialize"
    BY <1>2, <1>3, <1>4, <1>8, <2>2 DEF Meant, Callable, Believed
  <2>3. CASE op = "reset_episode"
    BY <1>2, <1>3, <1>4, <1>8, <2>1, <2>3 DEF Meant, Callable, Believed
  <2>4. CASE op = "predict"
    <3>1. Shared(c) /\ Shared(c)'
      BY <1>3, <1>4, <1>8, <2>4 DEF Callable, Believed
    <3>2. step'[c] \notin seenSteps'
      BY <1>1, <1>3, <1>6, <2>4, <3>1 DEF Shared, model
    <3> QED BY <1>2, <2>1, <2>4, <3>1, <3>2 DEF Meant
  <2>5. CASE op = "end_episode"
    BY <1>2, <1>3, <1>4, <1>8, <2>1, <2>5 DEF Meant, Callable, Believed
  <2>6. CASE op \in {"health", "close"}
    BY <1>2, <2>6 DEF Meant
  <2> QED BY <2>2, <2>3, <2>4, <2>5, <2>6 DEF Operations
<1>10. Believed(c, state[c])'
  <2>1. op = "reset_episode" => state[c] = "ready"
    BY <1>3 DEF Callable
  <2> QED BY <1>3, <1>4, <1>8, <2>1 DEF Believed
<1>11. Waiting(c)'
  <2>1. Callable(c, awaiting[c].op)'
    BY <1>2, <1>3, <1>5 DEF Callable, Operations
  <2> QED BY <1>5, <1>7, <2>1 DEF Waiting
<1>12. OneRequest(c)'
  BY <1>5, <1>7 DEF OneRequest
<1>13. Meant(c, Head(requests[c]))'
  BY <1>5, <1>9 DEF Meant
<1> QED BY <1>3, <1>7, <1>10, <1>11, <1>12, <1>13 DEF Agreement

LEMMA ReceiveAgrees ==
  ASSUME ServiceInv, NEW c \in Clients, Receive(c), Agreement(c)
  PROVE  Agreement(c)'
<1>1. /\ responses \in [Clients -> Seq(AnswerType)]
      /\ awaiting \in [Clients -> RequestType \union {Nothing}]
      /\ state \in [Clients -> {"created", "handshaken", "ready", "episode_active", "closed"}]
      /\ awaiting[c] # Nothing /\ responses[c] # <<>>
      /\ responses' = [responses EXCEPT ![c] = Tail(@)]
      /\ awaiting' = [awaiting EXCEPT ![c] = Nothing]
      /\ state' = [state EXCEPT ![c] =
           IF awaiting[c].op = "close" THEN "closed"
           ELSE IF Accepts(c, Head(responses[c])) THEN StateAfter(awaiting[c].op, @) ELSE @]
      /\ UNCHANGED <<model, session, threads, requests, number, step>>
  BY DEF Receive, ServiceInv, TypeOK
<1>2. state[c] # "closed" /\ Waiting(c) /\ OneRequest(c)
  BY <1>1 DEF Agreement
<1>3. /\ Len(responses[c]) = 1 /\ Head(responses[c]).id = awaiting[c].id
      /\ ~Working(c) /\ requests[c] = <<>> /\ handler[c] = "receiving"
  <2>1. ~Working(c) /\ requests[c] = <<>>
    BY <1>1, <1>2 DEF Waiting
  <2>2. handler[c] = "receiving"
    BY <1>2, <2>1 DEF Waiting, Working, ServiceInv, TypeOK
  <2> QED BY <1>1, <1>2, <2>1, <2>2 DEF Waiting
<1>4. responses'[c] = <<>> /\ awaiting'[c] = Nothing
  BY <1>1, <1>3, OnlyOne
<1>5. handler'[c] = "receiving" /\ ~Working(c)' /\ requests'[c] = <<>>
  BY <1>1, <1>3 DEF threads, Working
<1>6. state'[c] = IF awaiting[c].op = "close" THEN "closed" ELSE Becomes(c)
  BY <1>1, <1>3 DEF Accepts, Becomes
<1>7. awaiting[c].op # "close" => Believed(c, Becomes(c))
  BY <1>1, <1>2 DEF Agreement
<1>8. \A s : Believed(c, s) => Believed(c, s)'
  BY <1>1 DEF Believed, Idle, Bound, Shared, Episode, model, session
<1>9. Believed(c, state[c])'
  <2>1. CASE awaiting[c].op = "close"
    BY <1>6, <2>1 DEF Believed
  <2>2. CASE awaiting[c].op # "close"
    <3>1. state'[c] = Becomes(c) /\ Believed(c, Becomes(c))
      BY <1>6, <1>7, <2>2
    <3>2. PICK s : s = Becomes(c)
      OBVIOUS
    <3>3. Believed(c, s)'
      BY <1>8, <3>1, <3>2
    <3> QED BY <3>1, <3>2, <3>3 DEF Believed
  <2> QED BY <2>1, <2>2
<1>10. Waiting(c)' /\ OneRequest(c)'
  BY <1>4, <1>5, EmptySeq DEF Waiting, OneRequest
<1> QED BY <1>4, <1>5, <1>9, <1>10 DEF Agreement

LEMMA DisconnectAgrees ==
  ASSUME ServiceInv, NEW c \in Clients, Disconnect(c), Agreement(c)
  PROVE  Agreement(c)'
<1>1. /\ state'[c] = "closed" /\ awaiting'[c] = Nothing
      /\ UNCHANGED <<model, session, threads, wires, number, step>>
  BY DEF Disconnect, ServiceInv, TypeOK
<1>2. Working(c)' = Working(c) /\ OneRequest(c)'
  BY <1>1 DEF Agreement, OneRequest, Working, threads, wires
<1>3. \A r : Meant(c, r) => Meant(c, r)'
  BY <1>1 DEF Meant, Idle, Bound, Shared, Episode, model, session
<1>4. Working(c) => Meant(c, request[c])'
  BY <1>1, <1>3 DEF Agreement, Meant, threads
<1>5. handler[c] = "receiving" /\ requests[c] # <<>> => Meant(c, Head(requests[c]))'
  BY <1>1, <1>3 DEF Agreement, Meant, wires
<1> QED BY <1>1, <1>2, <1>4, <1>5 DEF Agreement, threads, wires

LEMMA ReadAgrees ==
  ASSUME ServiceInv, NEW c \in Clients, ReadRequest(c), Agreement(c)
  PROVE  Agreement(c)'
<1> DEFINE r == Head(requests[c])
<1>1. /\ requests \in [Clients -> Seq(RequestType)]
      /\ request \in [Clients -> RequestType \union {Nothing}]
      /\ handler \in [Clients -> {"receiving", "health", "locking", "dispatching", "leaving",
                                  "gone"}]
      /\ handler[c] = "receiving" /\ requests[c] # <<>>
      /\ request' = [request EXCEPT ![c] = r]
      /\ requests' = [requests EXCEPT ![c] = Tail(@)]
      /\ handler' = [handler EXCEPT ![c] = IF r.op = "health" THEN "health" ELSE "locking"]
      /\ UNCHANGED <<model, session, responses, client>>
  BY DEF ReadRequest, ServiceInv, TypeOK
<1>2. OneRequest(c) /\ Meant(c, r)
  BY <1>1 DEF Agreement
<1>3. requests'[c] = <<>> /\ request'[c] = r /\ Working(c)'
      /\ handler'[c] \in {"health", "locking"} /\ (handler'[c] = "health" => r.op = "health")
  BY <1>1, <1>2, OnlyOne DEF OneRequest, Working
<1>4. Meant(c, request[c])'
  BY <1>1, <1>2, <1>3 DEF Meant, Idle, Bound, Shared, Episode, model, session, client
<1>5. OneRequest(c)'
  BY <1>3 DEF OneRequest
<1>6. state[c] # "closed" => Waiting(c)' /\ responses'[c] = <<>> /\ Believed(c, state[c])'
  <2> SUFFICES ASSUME state[c] # "closed"
      PROVE  Waiting(c)' /\ responses'[c] = <<>> /\ Believed(c, state[c])'
    OBVIOUS
  <2>1. Waiting(c)
    BY DEF Agreement
  <2>2. awaiting[c] = r /\ responses[c] = <<>>
    BY <1>1, <2>1 DEF Waiting
  <2>3. Believed(c, state[c])
    BY <2>2 DEF Agreement
  <2>4. Believed(c, state[c])'
    BY <1>1, <2>3 DEF Believed, Idle, Bound, Shared, Episode, model, session, client
  <2>5. Waiting(c)'
    BY <1>1, <1>3, <2>1, <2>2 DEF Waiting, Callable, client
  <2> QED BY <1>1, <2>2, <2>4, <2>5
<1> QED BY <1>1, <1>3, <1>4, <1>5, <1>6 DEF Agreement, client

(* An answer to the one request on its way, if it leaves the service as the  *)
(* client will believe it.                                                   *)
LEMMA AnswerAgrees ==
  ASSUME ServiceInv, NEW c \in Clients, Agreement(c), Working(c),
         NEW status \in {"ok", "busy", "error"}, Respond(c, Answer(request[c], status)),
         UNCHANGED <<requests, client>>, NEW s,
         s = IF status = "ok" THEN StateAfter(request[c].op, state[c]) ELSE state[c],
         state[c] # "closed" /\ request[c].op # "close" => Believed(c, s)'
  PROVE  Agreement(c)'
<1> DEFINE answer == Answer(request[c], status)
<1>1. /\ responses \in [Clients -> Seq(AnswerType)]
      /\ request \in [Clients -> RequestType \union {Nothing}]
      /\ handler \in [Clients -> {"receiving", "health", "locking", "dispatching", "leaving",
                                  "gone"}]
  BY DEF ServiceInv, TypeOK
<1>2. request[c] # Nothing /\ request[c] \in RequestType
  BY <1>1 DEF ServiceInv, OwnRequests, Working
<1>3. answer \in AnswerType /\ answer.id = request[c].id /\ answer.status = status
  BY <1>2, AnswerHasType DEF Answer
<1> HIDE DEF answer
<1>4. /\ handler'[c] \in {"receiving", "leaving"}
      /\ state[c] # "closed" => /\ handler'[c] = "receiving"
                                /\ responses' = [responses EXCEPT ![c] = Append(@, answer)]
  BY <1>1 DEF Respond, answer
<1>5. ~Working(c)'
  BY <1>4 DEF Working
<1>6. requests[c] = <<>> /\ requests'[c] = <<>> /\ OneRequest(c)
  BY DEF Agreement, OneRequest
<1>7. OneRequest(c)'
  BY <1>4, <1>5, <1>6, EmptySeq DEF OneRequest
<1>8. ASSUME state[c] # "closed"
      PROVE  /\ Waiting(c)' /\ responses'[c] # <<>>
             /\ awaiting[c].op # "close" => Believed(c, Becomes(c))'
  <2>1. Waiting(c)
    BY <1>8 DEF Agreement
  <2>2. awaiting[c] = request[c] /\ responses[c] = <<>>
    BY <2>1 DEF Waiting
  <2>3. responses'[c] = Append(<<>>, answer)
    BY <1>1, <1>4, <1>8, <2>2
  <2>4. responses'[c] # <<>> /\ Len(responses'[c]) = 1 /\ Head(responses'[c]) = answer
    BY <1>3, <2>3, FirstOne
  <2>5. awaiting'[c] = awaiting[c] /\ state'[c] = state[c]
    BY DEF client
  <2>6. Callable(c, awaiting[c].op)'
    BY <1>2, <2>1, <2>2, <2>5 DEF Waiting, Callable
  <2>7. Waiting(c)'
    BY <1>2, <1>3, <1>4, <1>5, <1>6, <1>8, <2>2, <2>4, <2>5, <2>6 DEF Waiting
  <2>8. ASSUME awaiting[c].op # "close" PROVE Believed(c, Becomes(c))'
    <3>1. Becomes(c)' = s
      BY <1>3, <2>2, <2>4, <2>5 DEF Becomes
    <3>2. Believed(c, s)'
      BY <1>8, <2>2, <2>8
    <3> QED BY <3>1, <3>2 DEF Believed
  <2> QED BY <2>4, <2>7, <2>8
<1> QED BY <1>4, <1>5, <1>6, <1>7, <1>8 DEF Agreement, client

(* The probe of health changes nothing; the adapter that just initialized    *)
(* becomes ready.                                                            *)
LEMMA HealthAgrees ==
  ASSUME ServiceInv, NEW c \in Clients, AnswerHealth(c), Agreement(c)
  PROVE  Agreement(c)'
<1>1. /\ Working(c) /\ handler[c] = "health" /\ Respond(c, Answer(request[c], "ok"))
      /\ UNCHANGED <<model, session, requests, client>>
  BY DEF AnswerHealth, Working
<1>2. PICK s : s = StateAfter(request[c].op, state[c])
  OBVIOUS
<1>3. request[c].op = "health" /\ request[c] # Nothing
  BY <1>1 DEF Agreement, OneRequest, ServiceInv, OwnRequests
<1>4. state[c] # "closed" => Believed(c, s)'
  <2> SUFFICES ASSUME state[c] # "closed" PROVE Believed(c, s)'
    OBVIOUS
  <2>1. Waiting(c)
    BY DEF Agreement
  <2>2. awaiting[c] = request[c] /\ responses[c] = <<>>
    BY <1>1, <2>1 DEF Waiting
  <2>3. state[c] \in {"created", "handshaken"}
    BY <1>3, <2>1, <2>2 DEF Waiting, Callable
  <2>4. s = IF state[c] = "handshaken" THEN "ready" ELSE state[c]
    BY <1>2, <1>3 DEF StateAfter
  <2>5. Believed(c, state[c])
    BY <2>2 DEF Agreement
  <2>6. Believed(c, s)
    BY <2>3, <2>4, <2>5 DEF Believed
  <2> QED BY <1>1, <2>6 DEF Believed, Idle, Bound, Shared, Episode, model, session, client
<1> QED BY <1>1, <1>2, <1>4, AnswerAgrees

(* Only who does not own the session is told that the model is busy.         *)
LEMMA BusyAgrees ==
  ASSUME ServiceInv, NEW c \in Clients, Busy(c), Agreement(c)
  PROVE  Agreement(c)'
<1>1. /\ Working(c) /\ Respond(c, Answer(request[c], "busy"))
      /\ UNCHANGED <<model, session, requests, client>>
  BY DEF Busy, Working
<1>2. PICK s : s = state[c]
  OBVIOUS
<1>3. state[c] # "closed" => Believed(c, s)'
  <2> SUFFICES ASSUME state[c] # "closed" PROVE Believed(c, s)'
    OBVIOUS
  <2>1. responses[c] = <<>>
    BY <1>1 DEF Agreement, Waiting
  <2>2. Believed(c, s)
    BY <1>2, <2>1 DEF Agreement
  <2> QED BY <1>1, <2>2 DEF Believed, Idle, Bound, Shared, Episode, model, session, client
<1> QED BY <1>1, <1>2, <1>3, AnswerAgrees

LEMMA ClaimAgrees ==
  ASSUME ServiceInv, NEW c \in Clients, Claim(c), Agreement(c)
  PROVE  Agreement(c)'
<1>1. /\ handler[c] = "locking" /\ handler'[c] = "dispatching" /\ owner' = c
      /\ UNCHANGED <<model, request, wires, client>>
  BY DEF Claim, ServiceInv, TypeOK
<1>2. Working(c) /\ Working(c)'
  BY <1>1 DEF Working
<1>3. /\ Bound(c) => Bound(c)'
      /\ Idle(c) => Idle(c)'
      /\ Shared(c) => Shared(c)'
      /\ Episode(c)' = Episode(c) /\ seenSteps' = seenSteps /\ step' = step
  BY <1>1 DEF Bound, Idle, Shared, Episode, model, client
<1>4. Meant(c, request[c])'
  BY <1>1, <1>2, <1>3 DEF Agreement, Meant
<1>5. Believed(c, state[c]) => Believed(c, state[c])'
  BY <1>1, <1>3 DEF Believed, client
<1>6. OneRequest(c)' /\ (Waiting(c) => Waiting(c)')
  BY <1>1, <1>2 DEF Agreement, OneRequest, Waiting, Callable, wires, client
<1>7. state[c] # "closed" => responses[c] = <<>>
  BY <1>2 DEF Agreement, Waiting
<1> QED BY <1>1, <1>2, <1>4, <1>5, <1>6, <1>7 DEF Agreement, wires, client

(* A request meant for the state the service is in is never refused.         *)
LEMMA MeantIsAdmissible ==
  ASSUME ServiceInv, NEW c \in Clients, handler[c] = "dispatching", Agreement(c)
  PROVE  Admissible(request[c])
<1>1. /\ request[c] \in RequestType /\ request[c].op \in Operations \ {"health"}
      /\ request[c].episode.client = c /\ owner = c
      /\ EpisodeBelongsToOwner /\ adapterState \in {"ready", "episode_active"}
  BY DEF ServiceInv, TypeOK, OwnRequests, LockHeld, RequestType
<1>2. Meant(c, request[c])
  BY DEF Agreement, Working
<1>3. Idle(c) => adapterState = "ready"
  BY <1>1 DEF Idle, EpisodeBelongsToOwner
<1>4. CASE request[c].op = "initialize"
  BY <1>2, <1>3, <1>4 DEF Meant, Admissible
<1>5. CASE request[c].op = "reset_episode"
  BY <1>1, <1>2, <1>3, <1>5 DEF Meant, Admissible, Bound
<1>6. CASE request[c].op = "predict"
  BY <1>1, <1>2, <1>6 DEF Meant, Admissible, Shared, EpisodeBelongsToOwner
<1>7. CASE request[c].op = "end_episode"
  BY <1>1, <1>2, <1>7 DEF Meant, Admissible, Shared, EpisodeBelongsToOwner
<1>8. CASE request[c].op = "close"
  BY <1>8 DEF Admissible
<1> QED BY <1>1, <1>4, <1>5, <1>6, <1>7, <1>8 DEF Operations

LEMMA DispatchAgrees ==
  ASSUME ServiceInv, NEW c \in Clients, Dispatch(c), Agreement(c)
  PROVE  Agreement(c)' /\ UNCHANGED refused
<1> DEFINE r == request[c]
<1>1. /\ handler[c] = "dispatching" /\ Working(c) /\ owner = c
      /\ r \in RequestType /\ r.op \in Operations \ {"health"} /\ r # Nothing
      /\ r.episode.client = c
      /\ EpisodeBelongsToOwner
      /\ UNCHANGED <<requests, client>>
  <2>1. handler[c] = "dispatching" /\ UNCHANGED <<requests, client>>
    BY DEF Dispatch
  <2> QED BY <2>1 DEF Working, ServiceInv, TypeOK, OwnRequests, LockHeld, RequestType
<1>2. Admissible(r) /\ Meant(c, r)
  BY <1>1, MeantIsAdmissible DEF Agreement
<1>3. state[c] # "closed" => Callable(c, r.op) /\ Believed(c, state[c])
  <2>1. state[c] # "closed" => awaiting[c] = r /\ responses[c] = <<>> /\ Waiting(c)
    BY <1>1 DEF Agreement, Waiting
  <2> QED BY <1>1, <2>1 DEF Agreement, Waiting
<1>4. Episode(c)' = Episode(c) /\ step' = step
  BY <1>1 DEF Episode, client
<1>5. CASE Effect(r) /\ owner' = (IF r.op = "close" THEN NoClient ELSE owner)
           /\ Respond(c, Answer(r, "ok")) /\ UNCHANGED refused
  <2>1. PICK s : s = StateAfter(r.op, state[c])
    OBVIOUS
  <2>2. ASSUME state[c] # "closed", r.op # "close" PROVE Believed(c, s)'
    <3>1. CASE r.op = "initialize"
      <4>1. s = "handshaken"
        BY <2>1, <3>1 DEF StateAfter
      <4>2. boundRun' = c /\ owner' = c /\ UNCHANGED adapterEpisode
        BY <1>1, <1>5, <3>1 DEF Effect
      <4> QED BY <1>2, <3>1, <4>1, <4>2 DEF Meant, Believed, Bound, Idle
    <3>2. CASE r.op = "reset_episode"
      <4>1. s = "episode_active"
        BY <2>1, <3>2 DEF StateAfter
      <4>2. owner' = c /\ adapterEpisode' = r.episode /\ seenSteps' = {}
        BY <1>1, <1>5, <3>2 DEF Effect
      <4> QED BY <1>2, <1>4, <3>2, <4>1, <4>2 DEF Meant, Believed, Shared
    <3>3. CASE r.op = "predict"
      <4>1. s = state[c] /\ state[c] = "episode_active"
        BY <1>3, <2>1, <2>2, <3>3 DEF StateAfter, Callable
      <4>2. owner' = c /\ UNCHANGED adapterEpisode /\ seenSteps' = seenSteps \union {r.step}
        BY <1>1, <1>5, <3>3 DEF Effect
      <4>3. r.step \in 0..step[c]
        BY <1>1, <1>2, <3>3 DEF Meant, RequestType
      <4> QED BY <1>2, <1>4, <3>3, <4>1, <4>2, <4>3 DEF Meant, Believed, Shared
    <3>4. CASE r.op = "end_episode"
      <4>1. s = "ready"
        BY <2>1, <3>4 DEF StateAfter
      <4>2. owner' = c /\ adapterEpisode' = NoEpisode /\ UNCHANGED boundRun
        BY <1>1, <1>5, <3>4 DEF Effect, EndActive
      <4>3. boundRun = c
        <5>1. adapterEpisode = Episode(c)
          BY <1>2, <3>4 DEF Meant, Shared
        <5>2. adapterEpisode # NoEpisode
          BY <5>1, ServiceAssumption DEF Episode, NoEpisode
        <5> QED BY <1>1, <5>2 DEF EpisodeBelongsToOwner
      <4> QED BY <4>1, <4>2, <4>3, ServiceAssumption DEF Believed, Bound, Idle, NoEpisode
    <3> QED BY <1>1, <2>2, <3>1, <3>2, <3>3, <3>4 DEF Operations
  <2>3. Agreement(c)'
    BY <1>1, <1>5, <2>1, <2>2, AnswerAgrees
  <2> QED BY <1>5, <2>3
<1>6. CASE HookEffect(r) /\ UNCHANGED <<owner, refused>> /\ Respond(c, Answer(r, "error"))
  <2>1. PICK s : s = state[c]
    OBVIOUS
  <2>2. ASSUME state[c] # "closed" PROVE Believed(c, s)'
    <3>1. CASE r.op = "predict"
      <4>1. state[c] = "episode_active"
        BY <1>3, <2>2, <3>1 DEF Callable
      <4>2. seenSteps' = seenSteps \union {r.step} /\ UNCHANGED <<owner, adapterEpisode>>
        BY <1>6, <3>1 DEF HookEffect
      <4>3. r.step \in 0..step[c]
        BY <1>1, <1>2, <3>1 DEF Meant, RequestType
      <4> QED BY <1>2, <1>4, <2>1, <3>1, <4>1, <4>2, <4>3 DEF Meant, Believed, Shared
    <3>2. CASE r.op # "predict"
      <4>1. UNCHANGED <<owner, model>>
        BY <1>6, <3>2 DEF HookEffect, model
      <4>2. Believed(c, s)
        BY <1>3, <2>1, <2>2
      <4> QED BY <1>4, <4>1, <4>2 DEF Believed, Bound, Idle, Shared, model
    <3> QED BY <3>1, <3>2
  <2>3. Agreement(c)'
    BY <1>1, <1>6, <2>1, <2>2, AnswerAgrees
  <2> QED BY <1>6, <2>3
<1> QED BY <1>2, <1>5, <1>6 DEF Dispatch

LEMMA LeavingAgrees ==
  ASSUME ServiceInv, NEW c \in Clients, HangUp(c) \/ Release(c), Agreement(c)
  PROVE  Agreement(c)'
<1>1. /\ handler'[c] \in {"leaving", "gone"} /\ UNCHANGED <<request, wires, client>>
      /\ handler[c] = "leaving" \/ state[c] = "closed"
  BY DEF HangUp, Release, ServiceInv, TypeOK
<1>2. state[c] = "closed" /\ awaiting[c] = Nothing
  BY <1>1 DEF Agreement, Waiting
<1> QED BY <1>1, <1>2 DEF Agreement, OneRequest, Working, client

LEMMA AgreementPreserved == AgreementInv /\ [Next]_vars => AgreementInv'
<1> SUFFICES ASSUME AgreementInv, [Next]_vars PROVE AgreementInv'
  OBVIOUS
<1>1. ServiceInv /\ ServiceInv' /\ TypeOK
  BY ServicePreserved DEF AgreementInv, ServiceInv
<1>2. CASE UNCHANGED vars
  <2>1. ASSUME NEW d \in Clients \ timedOut' PROVE Agreement(d)'
    <3>1. Agreement(d)
      BY <1>2 DEF AgreementInv, vars, client
    <3> QED BY <1>2, <3>1, AgreementStands DEF vars, model, session, threads, wires, client, Idle
  <2> QED BY <1>1, <1>2, <2>1 DEF AgreementInv, RefusalsFollowTimeouts, vars, client
<1>3. ASSUME NEW c \in Clients, ClientNext(c) \/ HandlerNext(c) \/ Dispatch(c)
      PROVE  AgreementInv'
  <2>1. timedOut \subseteq timedOut'
    BY <1>3 DEF ClientNext, HandlerNext, Send, Receive, Timeout, Disconnect, ReadRequest,
                AnswerHealth, Claim, Busy, HangUp, Release, Dispatch, client
  <2>2. Timeout(c) => c \in timedOut'
    BY DEF Timeout
  <2>3. ASSUME c \notin timedOut' PROVE Agreement(c)' /\ UNCHANGED refused
    <3>1. Agreement(c)
      BY <2>1, <2>3 DEF AgreementInv
    <3>2. CASE Dispatch(c)
      BY <1>1, <3>1, <3>2, DispatchAgrees
    <3>3. CASE ClientNext(c)
      <4>1. Agreement(c)'
        BY <1>1, <2>2, <2>3, <3>1, <3>3, SendAgrees, ReceiveAgrees, DisconnectAgrees
           DEF ClientNext
      <4> QED BY <3>3, <4>1 DEF ClientNext, Send, Receive, Timeout, Disconnect
    <3>4. CASE HandlerNext(c)
      <4>1. Agreement(c)'
        BY <1>1, <3>1, <3>4, ReadAgrees, HealthAgrees, ClaimAgrees, BusyAgrees, LeavingAgrees
           DEF HandlerNext
      <4> QED BY <3>4, <4>1 DEF HandlerNext, ReadRequest, AnswerHealth, Claim, Busy, HangUp,
                                Release
    <3> QED BY <1>3, <3>2, <3>3, <3>4
  <2>4. ASSUME NEW d \in Clients \ timedOut', d # c PROVE Agreement(d)'
    <3>1. Agreement(d)
      BY <2>1 DEF AgreementInv
    <3>2. /\ owner = d => UNCHANGED <<owner, boundRun, adapterEpisode, seenSteps>>
          /\ Idle(d) => Idle(d)'
      BY <1>1, <1>3, <2>4, OthersKeep
    <3>3. /\ handler'[d] = handler[d] /\ request'[d] = request[d] /\ requests'[d] = requests[d]
          /\ responses'[d] = responses[d] /\ state'[d] = state[d] /\ awaiting'[d] = awaiting[d]
          /\ number'[d] = number[d] /\ step'[d] = step[d]
      <4>1. CASE ClientNext(c)
        BY ZenonT(40), <1>1, <2>4, <4>1 DEF ClientNext, Send, Receive, Timeout, Disconnect, TypeOK, threads,
                                wires
      <4>2. CASE HandlerNext(c) \/ Dispatch(c)
        BY <1>1, <2>4, <4>2 DEF HandlerNext, ReadRequest, AnswerHealth, Claim, Busy, HangUp,
                                Release, Dispatch, Respond, TypeOK, wires, client
      <4> QED BY <1>3, <4>1, <4>2
    <3> QED BY <3>1, <3>2, <3>3, AgreementStands
  <2>5. RefusalsFollowTimeouts'
    <3>1. refused' \subseteq refused \union {c}
      BY <1>3 DEF ClientNext, HandlerNext, Send, Receive, Timeout, Disconnect, ReadRequest,
                  AnswerHealth, Claim, Busy, HangUp, Release, Dispatch
    <3> QED BY <2>1, <2>3, <3>1 DEF AgreementInv, RefusalsFollowTimeouts
  <2> QED BY <1>1, <2>3, <2>4, <2>5 DEF AgreementInv
<1> QED BY <1>2, <1>3 DEF Next

LEMMA AgreementInitially == Init => AgreementInv
<1> SUFFICES ASSUME Init PROVE AgreementInv
  OBVIOUS
<1>1. ASSUME NEW c \in Clients PROVE Agreement(c)
  <2>1. /\ handler[c] = "receiving" /\ requests[c] = <<>> /\ responses[c] = <<>>
        /\ state[c] = "created" /\ awaiting[c] = Nothing /\ ~Working(c)
    BY DEF Init, Working
  <2>2. Idle(c)
    BY ServiceAssumption DEF Init, Idle, NoEpisode
  <2> QED BY <2>1, <2>2, EmptySeq DEF Agreement, OneRequest, Waiting, Believed
<1>2. RefusalsFollowTimeouts
  BY DEF Init, RefusalsFollowTimeouts
<1> QED BY <1>1, <1>2, ServiceInitially DEF AgreementInv

(* Client and service agree about the episode and neither breaks the         *)
(* protocol of the other, whatever the other clients do and whichever hooks  *)
(* fail, until a request of the client times out (service.py:117-236,        *)
(* adapter.py:40-90).                                                        *)
THEOREM ClientAndServiceAgreeAlways == Spec => []ClientAndServiceAgree
<1>1. AgreementInv => ClientAndServiceAgree
  <2> SUFFICES ASSUME AgreementInv PROVE ClientAndServiceAgree
    OBVIOUS
  <2>1. ASSUME NEW c \in Clients, state[c] = "episode_active", awaiting[c] = Nothing,
               c \notin timedOut
        PROVE  owner = c /\ adapterEpisode = Episode(c)
    <3>1. Agreement(c) /\ ServiceInv
      BY <2>1 DEF AgreementInv
    <3>2. Believed(c, state[c])
      BY <2>1, <3>1, NothingOnItsWay
    <3> QED BY <2>1, <3>2 DEF Believed, Shared
  <2> QED BY <2>1 DEF AgreementInv, ClientAndServiceAgree, EpisodeIsShared
<1> QED BY <1>1, AgreementInitially, AgreementPreserved, PTL DEF Spec
=============================================================================
