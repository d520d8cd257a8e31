---------------------------- MODULE LabelScanMC ----------------------------
(* Instances of LabelScan for TLC. *)
EXTENDS LabelScan, TLC
=============================================================================
