--------------------------- MODULE DraftWritesMC ---------------------------
(* Instances of DraftWrites for TLC. *)
EXTENDS DraftWrites, TLC

CONSTANTS compose, r1, r2, r3

TwoRequests == Permutations({r1, r2})
=============================================================================
