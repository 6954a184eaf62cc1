--------------------------- MODULE MCAgentDaemon ---------------------------
(* Small instances of AgentDaemon for TLC. *)
EXTENDS AgentDaemon, TLC

Symmetry == Permutations(Handlers) \cup Permutations(TxIds)
=============================================================================
