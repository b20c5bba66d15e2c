--------------------------- MODULE PolicyService ---------------------------
(***************************************************************************)
(* A persistent TCP PolicyService of ovlab-remote-policy and the clients   *)
(* connected to it: one handler thread per connection, one session lock,   *)
(* one model; on the other side RemotePolicyAdapter over TcpPolicyClient,  *)
(* with its request timeout.                                               *)
(*                                                                         *)
(* A client is one connection; a runner that connects again is another     *)
(* client.  Each client belongs to a run of its own.  Frames, identities,  *)
(* images and actions are left out: an episode is (client, number), a      *)
(* prediction the (episode, step) it was made for.                         *)
(***************************************************************************)
EXTENDS Naturals, Sequences

CONSTANTS
  Clients,
  NoClient,
  FailingHooks,  \* operations whose model-side hook may raise
  MaxRequests    \* bound: how many requests each client sends

Operations == {"initialize", "health", "reset_episode", "predict", "end_episode", "close"}

ASSUME ServiceAssumption ==
  /\ NoClient \notin Clients
  /\ FailingHooks \subseteq {"initialize", "reset_episode", "predict", "end_episode"}
  /\ MaxRequests \in [Clients -> Nat]

NoEpisode == [client |-> NoClient, number |-> 0]

VARIABLES
  adapterState,   \* AdapterState of the served adapter; its provider is loaded
  adapterEpisode, \* its _episode_context
  boundRun,       \* its _run_context: the client whose run it is
  episodeId,      \* PolicyService._episode_id and _episode_context
  seenSteps,      \* PolicyService._seen_steps
  owner,          \* PolicyService._session_owner
  lock,           \* holder of _session_lock
  handler,        \* per client: where its handler thread is
  request,        \* per client: the request its handler is serving
  requests,       \* per client: frames on their way to the service
  responses,      \* per client: frames on their way back
  state,          \* per client: AdapterState of its RemotePolicyAdapter
  sent,           \* per client: UnixPolicyClient._request_index
  awaiting,       \* per client: the request it waits for, or Nothing
  number,         \* per client: number of its current episode
  step,           \* per client: its next step
  received,       \* history, per client: predictions handed to its runner
  timedOut,       \* history: clients a request of which timed out
  refused         \* history: clients refused for breaking the protocol

model == <<adapterState, adapterEpisode, boundRun, episodeId, seenSteps>>
session == <<owner, lock>>
threads == <<handler, request>>
wires == <<requests, responses>>
client == <<state, sent, awaiting, number, step, received, timedOut>>
vars == <<model, session, threads, wires, client, refused>>

Episode(c) == [client |-> c, number |-> number[c]]
Nothing == [id |-> 0, op |-> "none", episode |-> NoEpisode, step |-> 0]
Answer(r, status) == [id |-> r.id, status |-> status, episode |-> r.episode, step |-> r.step]

Session == INSTANCE InferenceSession WITH
  holder <- owner,
  active <- adapterEpisode.client

-----------------------------------------------------------------------------
(* The client: RemotePolicyAdapter over TcpPolicyClient.                   *)

\* The states of the adapter in which an operation is sent.  _initialize
\* sends initialize and then health; a status probe sends health alone.
Callable(c, op) ==
  CASE op = "initialize" -> state[c] = "created"
    [] op = "health" -> state[c] \in {"created", "handshaken"}
    [] op = "reset_episode" -> state[c] = "ready"
    [] op = "predict" -> state[c] = "episode_active"
    [] op = "end_episode" -> state[c] = "episode_active"
    [] op = "close" -> state[c] # "closed"

\* _request: send_frame, then wait for the answer.
Send(c, op) ==
  /\ awaiting[c] = Nothing
  /\ Callable(c, op)
  /\ sent[c] < MaxRequests[c]
  /\ LET n == IF op = "reset_episode" THEN number[c] + 1 ELSE number[c]
         s == IF op = "reset_episode" THEN 0 ELSE IF op = "predict" THEN step[c] + 1 ELSE step[c]
         r == [id |-> sent[c] + 1, op |-> op, episode |-> [client |-> c, number |-> n], step |-> s]
     IN
     /\ number' = [number EXCEPT ![c] = n]
     /\ step' = [step EXCEPT ![c] = s]
     /\ awaiting' = [awaiting EXCEPT ![c] = r]
     /\ requests' = [requests EXCEPT ![c] = Append(@, r)]
     /\ sent' = [sent EXCEPT ![c] = @ + 1]
  /\ UNCHANGED <<model, session, threads, responses, state, received, timedOut, refused>>

\* What a successful answer to op makes of the adapter.
StateAfter(op, before) ==
  CASE op = "initialize" -> "handshaken"
    [] op = "health" -> IF before = "handshaken" THEN "ready" ELSE before
    [] op = "reset_episode" -> "episode_active"
    [] op = "predict" -> before
    [] op = "end_episode" -> "ready"
    [] op = "close" -> "closed"

\* Faulty: the request_id of an answer is not compared.
AcceptsAny(c, answer) == answer.status = "ok"

\* validate_response_envelope and the status test of _request.
Accepts(c, answer) == answer.id = awaiting[c].id /\ answer.status = "ok"

\* The oldest answer on the connection is read; _close closes the socket
\* whatever the answer to its request was.
Receive(c) ==
  /\ awaiting[c] # Nothing
  /\ responses[c] # <<>>
  /\ LET answer == Head(responses[c])
         op == awaiting[c].op
     IN
     /\ state' = [state EXCEPT ![c] =
          IF op = "close" THEN "closed"
          ELSE IF Accepts(c, answer) THEN StateAfter(op, @) ELSE @]
     /\ received' = [received EXCEPT ![c] =
          IF op = "predict" /\ Accepts(c, answer)
          THEN @ \union {[asked |-> awaiting[c].step, answered |-> answer.step]} ELSE @]
  /\ responses' = [responses EXCEPT ![c] = Tail(@)]
  /\ awaiting' = [awaiting EXCEPT ![c] = Nothing]
  /\ UNCHANGED <<model, session, threads, requests, sent, number, step, timedOut, refused>>

\* RemotePolicyTimeoutError: the answer may still come and then waits for the
\* next request of this connection.
Timeout(c) ==
  /\ awaiting[c] # Nothing
  /\ responses[c] = <<>>
  /\ state' = [state EXCEPT ![c] = IF awaiting[c].op = "close" THEN "closed" ELSE @]
  /\ awaiting' = [awaiting EXCEPT ![c] = Nothing]
  /\ timedOut' = timedOut \union {c}
  /\ UNCHANGED <<model, session, threads, wires, sent, number, step, received, refused>>

\* The client's process ends or its socket breaks: no close is sent.
Disconnect(c) ==
  /\ state[c] # "closed"
  /\ state' = [state EXCEPT ![c] = "closed"]
  /\ awaiting' = [awaiting EXCEPT ![c] = Nothing]
  /\ UNCHANGED <<model, session, threads, wires, sent, number, step, received, timedOut, refused>>

-----------------------------------------------------------------------------
(* The service: _serve_connection, _dispatch, _serve_tcp_session.          *)

\* The answer is sent, or the send fails because the client is gone and the
\* thread leaves its loop.
Respond(c, answer) ==
  /\ request' = [request EXCEPT ![c] = Nothing]
  /\ \/ /\ responses' = [responses EXCEPT ![c] = Append(@, answer)]
        /\ handler' = [handler EXCEPT ![c] = "receiving"]
     \/ /\ state[c] = "closed"
        /\ handler' = [handler EXCEPT ![c] = "leaving"]
        /\ UNCHANGED responses

\* recv_frame returns the next request of the connection.
ReadRequest(c) ==
  /\ handler[c] = "receiving"
  /\ requests[c] # <<>>
  /\ request' = [request EXCEPT ![c] = Head(requests[c])]
  /\ requests' = [requests EXCEPT ![c] = Tail(@)]
  /\ handler' = [handler EXCEPT ![c] =
       IF Head(requests[c]).op = "health" THEN "health" ELSE "locking"]
  /\ UNCHANGED <<model, session, responses, client, refused>>

\* Faulty: the probe waits for the session lock.
AnswerHealthLocked(c) ==
  /\ handler[c] = "health"
  /\ lock = NoClient
  /\ Respond(c, Answer(request[c], "ok"))
  /\ UNCHANGED <<model, session, requests, client, refused>>

\* health takes no lock and claims no session.
AnswerHealth(c) ==
  /\ handler[c] = "health"
  /\ Respond(c, Answer(request[c], "ok"))
  /\ UNCHANGED <<model, session, requests, client, refused>>

\* Faulty: the session is never refused.
OwnedByNobody(c) == TRUE

\* self._session_owner is None or connection
MayOwn(c) == owner \in {NoClient, c}

\* with self._session_lock: the session is claimed before the operation runs.
Claim(c) ==
  /\ handler[c] = "locking"
  /\ lock = NoClient
  /\ MayOwn(c)
  /\ lock' = c
  /\ owner' = c
  /\ handler' = [handler EXCEPT ![c] = "dispatching"]
  /\ UNCHANGED <<model, request, wires, client, refused>>

\* "model has an active client session"
Busy(c) ==
  /\ handler[c] = "locking"
  /\ lock = NoClient
  /\ ~MayOwn(c)
  /\ Respond(c, Answer(request[c], "busy"))
  /\ UNCHANGED <<model, session, requests, client, refused>>

\* The conditions _dispatch and the served PolicyAdapter put on an operation.
Admissible(r) ==
  CASE r.op = "initialize" -> adapterState = "ready"
    [] r.op = "reset_episode" -> adapterState = "ready" /\ boundRun = r.episode.client
    [] r.op = "predict" -> episodeId = r.episode /\ r.step \notin seenSteps
    [] r.op = "end_episode" -> episodeId = r.episode
    [] r.op = "close" -> TRUE

\* adapter.end_episode, and the service forgets the episode.
EndActive ==
  /\ adapterState' = "ready"
  /\ adapterEpisode' = NoEpisode
  /\ episodeId' = NoEpisode
  /\ seenSteps' = {}
  /\ UNCHANGED boundRun

\* What the operation does to the model when its hook returns.
Effect(r) ==
  CASE r.op = "initialize" ->
         boundRun' = r.episode.client
         /\ UNCHANGED <<adapterState, adapterEpisode, episodeId, seenSteps>>
    [] r.op = "reset_episode" ->
         /\ adapterState' = "episode_active"
         /\ adapterEpisode' = r.episode
         /\ episodeId' = r.episode
         /\ seenSteps' = {}
         /\ UNCHANGED boundRun
    [] r.op = "predict" ->
         seenSteps' = seenSteps \union {r.step}
         /\ UNCHANGED <<adapterState, adapterEpisode, boundRun, episodeId>>
    [] r.op \in {"end_episode", "close"} -> EndActive

\* The operation runs a hook that may raise: closing a session ends its episode.
HookMayFail(r) ==
  \/ r.op \in FailingHooks
  \/ r.op = "close" /\ adapterState = "episode_active" /\ "end_episode" \in FailingHooks

\* The hook of the served adapter raises; a step stays seen, a session claimed.
HookEffect(r) ==
  /\ seenSteps' = IF r.op = "predict" THEN seenSteps \union {r.step} ELSE seenSteps
  /\ UNCHANGED <<adapterState, adapterEpisode, boundRun, episodeId>>

Dispatch(c) ==
  /\ handler[c] = "dispatching"
  /\ lock' = NoClient
  /\ LET r == request[c] IN
     \/ /\ Admissible(r)
        /\ Effect(r)
        /\ owner' = IF r.op = "close" THEN NoClient ELSE owner
        /\ Respond(c, Answer(r, "ok"))
        /\ UNCHANGED refused
     \/ /\ Admissible(r)
        /\ HookMayFail(r)
        /\ HookEffect(r)
        /\ Respond(c, Answer(r, "error"))
        /\ UNCHANGED <<owner, refused>>
     \/ /\ ~Admissible(r)
        /\ refused' = refused \union {c}
        /\ Respond(c, Answer(r, "error"))
        /\ UNCHANGED <<model, owner>>
  /\ UNCHANGED <<requests, client>>

\* recv_frame finds the connection closed or reset; what it still carried may
\* be lost.
HangUp(c) ==
  /\ handler[c] = "receiving"
  /\ state[c] = "closed"
  /\ handler' = [handler EXCEPT ![c] = "leaving"]
  /\ UNCHANGED <<model, session, request, wires, client, refused>>

\* Faulty: the session is released whoever owns it; only with an episode.
ReleasesAny(c) == TRUE
ReleasesUnfinished(c) == owner = c /\ adapterState = "episode_active"

\* self._session_owner is connection
Releases(c) == owner = c

\* finally: with self._session_lock.  If the end hook raises, the thread ends
\* with the session still owned.
Release(c) ==
  /\ handler[c] = "leaving"
  /\ lock = NoClient
  /\ \/ Releases(c) /\ owner' = NoClient /\ EndActive
     \/ ~Releases(c) /\ UNCHANGED <<model, owner>>
     \/ /\ Releases(c)
        /\ adapterState = "episode_active"
        /\ "end_episode" \in FailingHooks
        /\ UNCHANGED <<model, owner>>
  /\ handler' = [handler EXCEPT ![c] = "gone"]
  /\ UNCHANGED <<lock, request, wires, client, refused>>

-----------------------------------------------------------------------------
Init ==
  /\ adapterState = "ready"
  /\ adapterEpisode = NoEpisode
  /\ boundRun = NoClient
  /\ episodeId = NoEpisode
  /\ seenSteps = {}
  /\ owner = NoClient
  /\ lock = NoClient
  /\ handler = [c \in Clients |-> "receiving"]
  /\ request = [c \in Clients |-> Nothing]
  /\ requests = [c \in Clients |-> <<>>]
  /\ responses = [c \in Clients |-> <<>>]
  /\ state = [c \in Clients |-> "created"]
  /\ sent = [c \in Clients |-> 0]
  /\ awaiting = [c \in Clients |-> Nothing]
  /\ number = [c \in Clients |-> 0]
  /\ step = [c \in Clients |-> 0]
  /\ received = [c \in Clients |-> {}]
  /\ timedOut = {}
  /\ refused = {}

ClientNext(c) ==
  (\E op \in Operations : Send(c, op)) \/ Receive(c) \/ Timeout(c) \/ Disconnect(c)

\* What a handler thread does without the model.
HandlerNext(c) ==
  ReadRequest(c) \/ AnswerHealth(c) \/ Claim(c) \/ Busy(c) \/ HangUp(c) \/ Release(c)

Next == \E c \in Clients : ClientNext(c) \/ HandlerNext(c) \/ Dispatch(c)

\* Every handler thread runs on and every hook of the model returns.  Nothing
\* is asked of the lock: a client sends finitely many requests, so the others
\* cannot hold it for ever.
Spec == Init /\ [][Next]_vars /\ \A c \in Clients : WF_vars(HandlerNext(c)) /\ WF_vars(Dispatch(c))

\* Inference may hang, and no client is owed anything.
HangingSpec == Init /\ [][Next]_vars /\ \A c \in Clients : WF_vars(HandlerNext(c))

-----------------------------------------------------------------------------
(* Properties.                                                             *)

EpisodeType == [client: Clients \union {NoClient}, number: Nat]
RequestType == [id: Nat, op: Operations, episode: EpisodeType, step: Nat]
AnswerType == [id: Nat, status: {"ok", "busy", "error"}, episode: EpisodeType, step: Nat]

\* Every variable of the service and of its clients has its type.
TypeOK ==
  /\ adapterState \in {"ready", "episode_active"}
  /\ adapterEpisode \in EpisodeType
  /\ boundRun \in Clients \union {NoClient}
  /\ episodeId \in EpisodeType
  /\ seenSteps \subseteq Nat
  /\ owner \in Clients \union {NoClient}
  /\ lock \in Clients \union {NoClient}
  /\ handler \in [Clients -> {"receiving", "health", "locking", "dispatching", "leaving", "gone"}]
  /\ request \in [Clients -> RequestType \union {Nothing}]
  /\ requests \in [Clients -> Seq(RequestType)]
  /\ responses \in [Clients -> Seq(AnswerType)]
  /\ state \in [Clients -> {"created", "handshaken", "ready", "episode_active", "closed"}]
  /\ sent \in [Clients -> Nat]
  /\ awaiting \in [Clients -> RequestType \union {Nothing}]
  /\ number \in [Clients -> Nat]
  /\ step \in [Clients -> Nat]
  /\ received \in [Clients -> SUBSET [asked: Nat, answered: Nat]]
  /\ timedOut \subseteq Clients
  /\ refused \subseteq Clients

\* While the model is in an episode a client owns the session, the episode and
\* the run bound to the adapter are that client's, and the service knows the
\* episode by its id.
EpisodeBelongsToOwner ==
  /\ adapterEpisode = episodeId
  /\ adapterState = "episode_active" <=> adapterEpisode # NoEpisode
  /\ adapterState = "episode_active" =>
       owner \in Clients /\ adapterEpisode.client = owner /\ boundRun = owner

\* A client that waits for nothing, was never timed out and believes its
\* episode active owns the session, and the model is in that very episode.
EpisodeIsShared ==
  \A c \in Clients :
    state[c] = "episode_active" /\ awaiting[c] = Nothing /\ c \notin timedOut =>
      owner = c /\ adapterEpisode = Episode(c)

\* A prediction handed to the runner was made for the observation it sent, even
\* when an answer arrives after its request timed out.
PredictionsMatchObservations ==
  \A c \in Clients : \A p \in received[c] : p.asked = p.answered

\* A client is refused for breaking the protocol (stale episode, repeated step,
\* wrong state) only after one of its requests timed out.
RefusalsFollowTimeouts == refused \subseteq timedOut

\* Client and service agree about the episode, and neither breaks the protocol
\* of the other, as long as no request timed out.
ClientAndServiceAgree == EpisodeIsShared /\ RefusalsFollowTimeouts

\* An episode is ended only by its own client's thread, never by what another
\* client does, its connection breaking included.
OnlyItsClientEndsAnEpisode ==
  [][\A c \in Clients :
       adapterEpisode.client = c /\ adapterEpisode' # adapterEpisode => handler'[c] # handler[c]]_vars

\* The service implements the session it promises.
ImplementsSession == Session!SessionSpec

\* A client that is gone does not keep the session: the next one can claim it,
\* provided that the hooks of the model return.
HooksReturn == \A c \in Clients : WF_vars(Dispatch(c))
SessionIsReleased == HooksReturn => \A c \in Clients : (state[c] = "closed" ~> owner # c)

\* A health probe is answered, or given up by its client, even while a
\* prediction of another client never returns.
HealthIsAnswered ==
  \A c \in Clients :
    (handler[c] = "receiving" /\ awaiting[c].op = "health" /\ requests[c] # <<>>
       /\ Head(requests[c]).op = "health")
      ~> (responses[c] # <<>> \/ awaiting[c] = Nothing)
=============================================================================
