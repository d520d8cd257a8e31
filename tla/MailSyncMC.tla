---------------------------- MODULE MailSyncMC ----------------------------
(* Instances of MailSync for TLC. *)
EXTENDS MailSync, TLC

CONSTANTS m1, m2, t1, t2, read, unread

OneMessagePerThread == m1 :> t1 @@ m2 :> t2

\* Labels are interchangeable, and so are two messages with their threads.
Relabelings == Permutations({read, unread})
Swap == m1 :> m2 @@ m2 :> m1 @@ t1 :> t2 @@ t2 :> t1
SwapWith(p) == [x \in DOMAIN p \union DOMAIN Swap |-> IF x \in DOMAIN p THEN p[x] ELSE Swap[x]]
Symmetric == Relabelings \union {Swap} \union {SwapWith(p) : p \in Relabelings}
SwapTwins == m1 :> m2 @@ m2 :> m1
TwinsWith(p) == [x \in DOMAIN p \union DOMAIN SwapTwins |-> IF x \in DOMAIN p THEN p[x] ELSE SwapTwins[x]]
SymmetricTwins == Relabelings \union {SwapTwins} \union {TwinsWith(p) : p \in Relabelings}

OneMessage == m1 :> t1
OneThread == m1 :> t1 @@ m2 :> t1
=============================================================================
