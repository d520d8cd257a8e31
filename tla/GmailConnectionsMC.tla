------------------------- MODULE GmailConnectionsMC -------------------------
(* Instances of GmailConnections for TLC. *)
EXTENDS GmailConnections, TLC

Users == Permutations(User)
=============================================================================
