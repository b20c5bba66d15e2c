---------------------------- MODULE MCExperimentRun ----------------------------
(* ExperimentRun with a terminating step, so that TLC tells a run that ended *)
(* from a runner that is stuck.                                              *)
EXTENDS ExperimentRun, TLC

Finished == pc = "exited" /\ UNCHANGED vars

MCNext == Next \/ Finished
MCSpec == Init /\ [][MCNext]_vars /\ WF_vars(Progress)
=============================================================================
