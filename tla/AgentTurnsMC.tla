---------------------------- MODULE AgentTurnsMC ----------------------------
(* Instances of AgentTurns for TLC. *)
EXTENDS AgentTurns, TLC

CONSTANTS left, right

Tabs == Permutations({left, right})
=============================================================================
