---------------------------- MODULE MCPolicyService ----------------------------
(* PolicyService with two clients.  A state in which every client is closed  *)
(* and every thread has returned is the end, not a deadlock.                 *)
EXTENDS PolicyService, TLC
CONSTANTS alice, bob

\* alice: initialize, health, reset_episode, a prediction that may time out and
\* a request that may read its late answer; bob may own an episode before or
\* after her, probe or be refused.
LongSession == alice :> 5 @@ bob :> 3

\* Enough to own an episode, and a probe or a refused claim.
ShortSession == alice :> 3 @@ bob :> 1

\* Bound: six requests in all, so that either client has a full session.
FewRequests == sent[alice] + sent[bob] <= 6

Finished ==
  /\ \A c \in Clients : state[c] = "closed" /\ handler[c] = "gone"
  /\ UNCHANGED vars

MCNext == Next \/ Finished
MCSpec ==
  Init /\ [][MCNext]_vars /\ \A c \in Clients : WF_vars(HandlerNext(c)) /\ WF_vars(Dispatch(c))
MCHangingSpec == Init /\ [][MCNext]_vars /\ \A c \in Clients : WF_vars(HandlerNext(c))
=============================================================================
