--------------------------- MODULE InferenceSession ---------------------------
(***************************************************************************)
(* What code/packages/ovlab-remote-policy/README.md:7-11 promises of a     *)
(* persistent policy deployment: one client at a time owns the inference   *)
(* session, only the owner starts and ends episodes, and a session is not  *)
(* handed over while an episode is active.                                 *)
(***************************************************************************)
CONSTANTS Clients, NoClient

VARIABLES
  holder,  \* the client that owns the session, or NoClient
  active   \* the client whose episode the model is in, or NoClient

sessionVars == <<holder, active>>

SessionInit == holder = NoClient /\ active = NoClient

Take(c) ==
  /\ holder = NoClient
  /\ holder' = c
  /\ UNCHANGED active

StartEpisode(c) ==
  /\ holder = c
  /\ active = NoClient
  /\ active' = c
  /\ UNCHANGED holder

EndEpisode(c) ==
  /\ active = c
  /\ active' = NoClient
  /\ UNCHANGED holder

\* An unfinished episode ends with the session.
Leave(c) ==
  /\ holder = c
  /\ holder' = NoClient
  /\ active' = NoClient

SessionNext ==
  \E c \in Clients : Take(c) \/ StartEpisode(c) \/ EndEpisode(c) \/ Leave(c)

SessionSpec == SessionInit /\ [][SessionNext]_sessionVars
=============================================================================
