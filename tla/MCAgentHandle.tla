---------------------------- MODULE MCAgentHandle ----------------------------
(* Finite instances of AgentHandle for TLC.                                *)
EXTENDS AgentHandle, TLC

\* One allowlist is wider than the other.
TwoLists == {{CHOOSE p \in Principals : TRUE}, Principals}
==============================================================================
