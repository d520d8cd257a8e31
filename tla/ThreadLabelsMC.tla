--------------------------- MODULE ThreadLabelsMC ---------------------------
(* Instances of ThreadLabels for TLC. *)
EXTENDS ThreadLabels, TLC

CONSTANTS m1, m2
InOne == [m \in Message |-> 1]
OneEach == [m \in Message |-> IF m = m1 THEN 1 ELSE 2]
OneOld == [m \in Message |-> IF m = m1 THEN 1 ELSE 0]
OnTheLastDay == [m \in Message |-> MaxCutoff]
=============================================================================
