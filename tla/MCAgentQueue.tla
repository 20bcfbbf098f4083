---- MODULE MCAgentQueue ----
(* Instances of AgentQueue for TLC.  The run checks liveness, so it declares *)
(* no symmetry.                                                              *)
EXTENDS AgentQueue, TLC

====
