-------------------------- MODULE DraftResourcesMC --------------------------
(* Instances of DraftResources for TLC. *)
EXTENDS DraftResources, TLC

Drafts == Permutations(Draft)
=============================================================================
