--------------------------- MODULE MCAgentDaemon ---------------------------
(* AgentDaemon for TLC: one channel id, used again; connections 1 and 2.   *)
EXTENDS AgentDaemon, TLC

ConnNumbers == 1 .. 2
Symmetry == Permutations(Procs)
=============================================================================
