---------------------------- MODULE ScanPromise ----------------------------
(***************************************************************************)
(* What a request to label past mail promises: every thread that was there *)
(* is dealt with (answered by the model, or no longer the request's: out   *)
(* of the inbox, changed, or decided by the user) before the request is    *)
(* reported complete; a request that fails or is superseded stays so.      *)
(***************************************************************************)
CONSTANT Thread
VARIABLES status,    \* of the request: "open", "complete", "failed", "superseded"
          settled,   \* threads that have been dealt with
          astray     \* its Execution has failed, or its attempts have overlapped

vars == <<status, settled, astray>>

Init == status = "open" /\ settled = {} /\ astray = FALSE

Settle ==
    /\ settled' \in SUBSET Thread /\ settled \subseteq settled'
    /\ UNCHANGED <<status, astray>>

Complete ==
    /\ status = "open" /\ status' = "complete"
    /\ settled' \in SUBSET Thread /\ settled \subseteq settled'
    /\ settled' = Thread \/ astray
    /\ UNCHANGED astray

\* The last threads that can be settled may be what the request fails on.
Stop ==
    /\ status = "open" /\ status' \in {"failed", "superseded"}
    /\ settled' \in SUBSET Thread /\ settled \subseteq settled'
    /\ UNCHANGED astray

GoAstray == astray' = TRUE /\ UNCHANGED <<status, settled>>

Next == Settle \/ Complete \/ Stop \/ GoAstray
Spec == Init /\ [][Next]_vars
=============================================================================
