------------------------------ MODULE OutboxMC ------------------------------
(* Instances of Outbox for TLC. *)
EXTENDS Outbox, TLC

Commands == {[kind |-> "step"], [kind |-> "run"], [kind |-> "scan"]}
Workers == Permutations(Worker)
=============================================================================
