------------------------- MODULE MCEpisodeExecution -------------------------
(* EpisodeExecution on episodes of at most three steps, chunks of at most   *)
(* three actions and two instructions; two episodes and two signals.        *)
EXTENDS EpisodeExecution, TLC
CONSTANTS pick, place

\* The run ends: no episode left to begin, or an interrupt to re-raise.
Finished ==
  /\ pc = "idle"
  /\ episode = MaxEpisodes \/ outcome.error = "interrupt"
  /\ UNCHANGED vars

MCNext == Next \/ Finished
MCSpec == Init /\ [][MCNext]_vars /\ WF_vars(TryBlock \/ Handlers)
=============================================================================
