------------------------ MODULE GmailConnectionsProofs ------------------------
(***************************************************************************)
(* Theorems about GmailConnections, for every set of users, every number of*)
(* attempts and days and every bound.  What each action does comes first;  *)
(* then come five layers of one inductive invariant: the types and where   *)
(* an attempt can be (Sound); the lock and the days (Locked, Dated); what  *)
(* is registered at Google (Claimed, Needed); the chain of renewals that   *)
(* every connection has ahead of it (Chained); and the cleanup that a      *)
(* connection being removed has ahead of it (Owed).                        *)
(***************************************************************************)
EXTENDS GmailConnections, TLAPS

-----------------------------------------------------------------------------
(* What each action does.                                                  *)

\* s is the step that p is an attempt of.
IsOf(s, p) == s.user = p.user /\ s.kind = p.kind /\ s.key = p.key

\* p goes on at `at`, as q.
Advances(p, q, at) ==
    /\ p \in procs /\ procs' = (procs \ {p}) \union {q} /\ q \in Proc
    /\ q.user = p.user /\ q.kind = p.kind /\ q.key = p.key /\ q.id = p.id /\ q.at = at

\* q begins.
Begins(q) ==
    /\ ~Running(q.user, q.kind) /\ procs' = procs \union {q} /\ q \in Proc /\ q.at = "lock"

\* A step that has a key is not made again.
LEMMA EnqueuedIs ==
    ASSUME NEW ss, NEW u, NEW kind, NEW key, NEW runAt
    PROVE  \/ /\ \E s \in ss : s.user = u /\ s.kind = kind /\ s.key = key
              /\ Enqueued(ss, u, kind, key, runAt) = ss
           \/ /\ \A s \in ss : ~(s.user = u /\ s.kind = kind /\ s.key = key)
              /\ Enqueued(ss, u, kind, key, runAt) =
                    ss \union {[user |-> u, kind |-> kind, key |-> key, runAt |-> runAt,
                                status |-> "open", tries |-> 0, live |-> TRUE]}
BY DEF Enqueued

\* An attempt's step is the only one with its key.
LEMMA StepOfIs ==
    ASSUME TypeOK, NEW p, \E s \in steps : IsOf(s, p)
    PROVE  /\ StepOf(p) \in steps /\ IsOf(StepOf(p), p)
           /\ \A s \in steps : IsOf(s, p) => s = StepOf(p)
<1>1. PICK s \in steps : IsOf(s, p)  OBVIOUS
<1>2. StepOf(p) \in steps /\ IsOf(StepOf(p), p)  BY <1>1 DEF StepOf, IsOf
<1>3. \A r, q \in steps : IsOf(r, p) /\ IsOf(q, p) => r = q  BY DEF TypeOK, IsOf
<1>. QED  BY <1>2, <1>3

\* A consent comes back.
LEMMA AuthorizesDoes ==
    ASSUME TypeOK, NEW u \in User, Authorizes(u)
    PROVE  /\ UNCHANGED <<today, registered, account, steps, holder>>
           /\ grant' = grant \union {u}
           /\ \E q : Begins(q) /\ q.kind = "callback" /\ q.user = u
<1>1. PICK id \in 0 .. account[u].id :
        procs' = procs \union {[user |-> u, kind |-> "callback", key |-> NoKey, id |-> id,
                                at |-> "lock", expires |-> 0, renewed |-> 0]}
  BY DEF Authorizes
<1>2. id \in 0 .. MaxIds  BY ConnectionsAssumption DEF TypeOK, Account
<1>3. PICK q : q = [user |-> u, kind |-> "callback", key |-> NoKey, id |-> id,
                    at |-> "lock", expires |-> 0, renewed |-> 0]
  OBVIOUS
<1>4. q \in Proc /\ q.kind = "callback" /\ q.user = u /\ q.at = "lock"
  BY <1>2, <1>3 DEF Proc, Kind, NoKey, Key
<1>5. Begins(q)  BY <1>1, <1>3, <1>4 DEF Begins, Authorizes
<1>. QED  BY <1>4, <1>5 DEF Authorizes

\* handleGmailCallback under the lock: it is refused, finds the connection, or goes on to
\* start the watch.
LEMMA CallbackEntersDoes ==
    ASSUME TypeOK, NEW p \in procs, CallbackEnters(p), NEW u, u = p.user
    PROVE  /\ UNCHANGED <<today, registered, grant, steps, spent>>
           /\ p.kind = "callback" /\ p.at = "lock" /\ holder = Free
           /\ \/ Ends(p) /\ UNCHANGED <<account, holder>>
              \/ /\ account[u].status # "none" /\ account[u].status # "disconnected"
                 /\ account' = [account EXCEPT ![u] = Reauthorized(account[u])]
                 /\ Ends(p) /\ UNCHANGED holder
              \/ /\ account[u].status = "none" /\ account[u].id < MaxIds
                 /\ holder' = PidOf(p) /\ UNCHANGED account
                 /\ \E q : Advances(p, q, "call")
<1>1. CASE ~Exists(u) /\ holder' = PidOf(p) /\ Moves(p, [p EXCEPT !.at = "call"])
  <2>1. PICK q : q = [p EXCEPT !.at = "call"]  OBVIOUS
  <2>2. Advances(p, q, "call")  BY <1>1, <2>1 DEF Advances, Moves, TypeOK, Proc
  <2>. QED  BY <1>1, <2>2 DEF CallbackEnters, Exists
<1>2. CASE Refused(p) /\ Ends(p) /\ UNCHANGED <<account, holder>>
  BY <1>2 DEF CallbackEnters
<1>3. CASE ~Refused(p) /\ Exists(u) /\ account' = [account EXCEPT ![u] = Reauthorized(account[u])]
           /\ Ends(p) /\ UNCHANGED holder
  BY <1>3 DEF CallbackEnters, Refused, Exists
<1>. QED  BY <1>1, <1>2, <1>3 DEF CallbackEnters

\* saveNewGmailConnection.
LEMMA CallbackSavesDoes ==
    ASSUME TypeOK, NEW p \in procs, CallbackSaves(p)
    PROVE  /\ UNCHANGED <<today, registered, grant, spent>>
           /\ p.kind = "callback" /\ p.at = "save" /\ Holds(p) /\ holder' = Free
           /\ account' = [account EXCEPT ![p.user] = Started(p)]
           /\ steps' = WithDaily(steps, p.user, p.renewed)
           /\ Ends(p)
BY DEF CallbackSaves, Releases

\* markGmailReplicaDeleting.
LEMMA DisconnectDoes ==
    ASSUME TypeOK, NEW u \in User, Disconnect(u)
    PROVE  /\ UNCHANGED <<today, registered, grant, procs, holder>>
           /\ account[u].status \in {"connected", "reconnect_required"} /\ holder = Free
           /\ account' = [account EXCEPT ![u].status = "disconnected"]
           /\ steps' = Enqueued(steps, u, "cleanup", NoKey, today)
BY DEF Disconnect

\* What the loss of the grant does to a connection and its steps.
LEMMA LosesDoes ==
    ASSUME TypeOK, NEW u \in User, Loses(u)
    PROVE  /\ steps' = Terminalized(steps, u)
           /\ \A v \in User : v # u => account'[v] = account[v]
           /\ account' \in [User -> Account]
           /\ account[u].status \in {"none", "disconnected"} => account'[u].status = account[u].status
           /\ account[u].status \in {"connected", "reconnect_required"} =>
                 account'[u].status = "reconnect_required"
           /\ account'[u].id = account[u].id /\ account'[u].expires = account[u].expires
           /\ account'[u].renewed = account[u].renewed /\ account'[u].restored = account[u].restored
<1>1. PICK key \in (IF OpenRenewals(u) = {} THEN {account[u].failed}
                    ELSE {s.key : s \in OpenRenewals(u)}) : LosesGrant(u, key)
  BY DEF Loses
<1>2. key \in Key  BY <1>1 DEF TypeOK, OpenRenewals, Step, Account
<1>3. account[u] \in Account  BY DEF TypeOK
<1>4. CASE Exists(u)
  <2>1. PICK a : a = LostGrant(account[u], key)  OBVIOUS
  <2>2. account' = [account EXCEPT ![u] = a]  BY <1>1, <1>4, <2>1 DEF LosesGrant
  <2>3. CASE account[u].status = "disconnected"
    <3>1. a = [account[u] EXCEPT !.status = "disconnected", !.building = FALSE, !.failed = key]
      BY <2>1, <2>3 DEF LostGrant
    <3>2. a \in Account /\ a.status = "disconnected" /\ a.id = account[u].id
          /\ a.expires = account[u].expires /\ a.renewed = account[u].renewed
          /\ a.restored = account[u].restored
      BY <1>2, <1>3, <3>1 DEF Account
    <3>. QED  BY <2>2, <2>3, <3>2 DEF TypeOK, Loses
  <2>4. CASE account[u].status # "disconnected"
    <3>1. a = [account[u] EXCEPT !.status = "reconnect_required", !.building = FALSE, !.failed = key]
      BY <2>1, <2>4 DEF LostGrant
    <3>2. a \in Account /\ a.status = "reconnect_required" /\ a.id = account[u].id
          /\ a.expires = account[u].expires /\ a.renewed = account[u].renewed
          /\ a.restored = account[u].restored
      BY <1>2, <1>3, <3>1 DEF Account
    <3>. QED  BY <1>4, <2>2, <2>4, <3>2 DEF TypeOK, Loses, Exists
  <2>. QED  BY <2>3, <2>4
<1>5. CASE ~Exists(u)  BY <1>1, <1>5 DEF LosesGrant, Exists, TypeOK, Loses
<1>. QED  BY <1>4, <1>5

-----------------------------------------------------------------------------
(* Steps that change.                                                      *)

\* A set of steps in which no two have one key, and none has more attempts than its kind allows.
WellKept(ss) ==
    /\ ss \subseteq Step
    /\ \A s, r \in ss : s.user = r.user /\ s.kind = r.kind /\ s.key = r.key => s = r
    /\ \A s \in ss : s.tries <= Attempts(s)

\* t is the step s, later.
Kept(s, t) ==
    t \in Step /\ t.user = s.user /\ t.kind = s.kind /\ t.key = s.key /\ t.runAt = s.runAt
\* t is the step s, which has not been tried again and does not change once it has ended.
Wanes(s, t) ==
    Kept(s, t) /\ t.tries = s.tries /\ (~Open(s) => t.status = s.status) /\ (t.live => s.live)
Fresh(t) == t \in Step /\ t.status = "open" /\ t.tries = 0 /\ t.live

\* A step is replaced by what becomes of it.
LEMMA ReplacedIs ==
    ASSUME NEW ss, WellKept(ss), NEW s \in ss, NEW t, Kept(s, t), t.tries <= Attempts(t)
    PROVE  /\ WellKept(Replaced(ss, s, t)) /\ t \in Replaced(ss, s, t)
           /\ \A r \in ss : r # s => r \in Replaced(ss, s, t)
           /\ \A r \in Replaced(ss, s, t) : r = t \/ (r \in ss /\ r # s)
<1>1. \A r \in Replaced(ss, s, t) : r = t \/ (r \in ss /\ r # s)
  BY DEF Replaced
<1>2. t \in Replaced(ss, s, t) /\ \A r \in ss : r # s => r \in Replaced(ss, s, t)
  BY DEF Replaced
<1>3. \A r \in Replaced(ss, s, t) : r.tries <= Attempts(r) /\ r \in Step
  BY <1>1 DEF WellKept, Kept
<1>4. \A r, q \in Replaced(ss, s, t) :
        r.user = q.user /\ r.kind = q.kind /\ r.key = q.key => r = q
  BY <1>1 DEF WellKept, Kept
<1>. QED  BY <1>1, <1>2, <1>3, <1>4 DEF WellKept

\* Steps to which one is added.
LEMMA EnqueuedKept ==
    ASSUME NEW ss, WellKept(ss), NEW u \in User, NEW kind \in {"renewal", "cleanup"},
           NEW key \in Key, NEW runAt \in Nat
    PROVE  /\ WellKept(Enqueued(ss, u, kind, key, runAt))
           /\ ss \subseteq Enqueued(ss, u, kind, key, runAt)
           /\ \A t \in Enqueued(ss, u, kind, key, runAt) :
                 \/ t \in ss
                 \/ /\ Fresh(t) /\ t.user = u /\ t.kind = kind /\ t.key = key /\ t.runAt = runAt
                    /\ \A s \in ss : ~(s.user = u /\ s.kind = kind /\ s.key = key)
           /\ \E t \in Enqueued(ss, u, kind, key, runAt) :
                 t.user = u /\ t.kind = kind /\ t.key = key
<1>1. PICK t : t = [user |-> u, kind |-> kind, key |-> key, runAt |-> runAt,
                    status |-> "open", tries |-> 0, live |-> TRUE]
  OBVIOUS
<1>2. Fresh(t) /\ t.user = u /\ t.kind = kind /\ t.key = key /\ t.runAt = runAt
  BY <1>1 DEF Fresh, Step
<1>3. t.tries <= Attempts(t)  BY <1>2, ConnectionsAssumption DEF Fresh, Attempts
<1>4. CASE Enqueued(ss, u, kind, key, runAt) = ss /\ \E s \in ss : s.user = u /\ s.kind = kind /\ s.key = key
  BY <1>4
<1>5. CASE /\ \A s \in ss : ~(s.user = u /\ s.kind = kind /\ s.key = key)
           /\ Enqueued(ss, u, kind, key, runAt) = ss \union {t}
  <2>1. WellKept(ss \union {t})  BY <1>2, <1>3, <1>5 DEF WellKept, Fresh
  <2>. QED  BY <1>2, <1>5, <2>1
<1>. QED  BY <1>1, <1>4, <1>5, EnqueuedIs

\* The open renewals of a user fail.
LEMMA TerminalizedIs ==
    ASSUME NEW ss, WellKept(ss), NEW u \in User
    PROVE  /\ WellKept(Terminalized(ss, u))
           /\ \A s \in ss : \E t \in Terminalized(ss, u) :
                 /\ Wanes(s, t) /\ t.live = s.live
                 /\ s.kind # "renewal" \/ s.user # u => t = s
                 /\ s.kind = "renewal" /\ s.user = u /\ Open(s) => t.status = "failed"
                 /\ ~Open(s) => t = s
           /\ \A t \in Terminalized(ss, u) : \E s \in ss :
                 /\ Wanes(s, t) /\ t.live = s.live
                 /\ s.kind # "renewal" \/ s.user # u => t = s
                 /\ s.kind = "renewal" /\ s.user = u /\ Open(s) => t.status = "failed"
                 /\ ~Open(s) => t = s
<1> DEFINE Failing(s) == s.user = u /\ s.kind = "renewal" /\ Open(s)
           Image(s) == IF Failing(s) THEN [s EXCEPT !.status = "failed"] ELSE s
<1>1. Terminalized(ss, u) = {Image(s) : s \in ss}  BY DEF Terminalized
<1>2. ASSUME NEW s \in ss
      PROVE  /\ Wanes(s, Image(s)) /\ Image(s).live = s.live
             /\ s.kind # "renewal" \/ s.user # u => Image(s) = s
             /\ s.kind = "renewal" /\ s.user = u /\ Open(s) => Image(s).status = "failed"
             /\ ~Open(s) => Image(s) = s
  <2>1. s \in Step  BY DEF WellKept
  <2>2. CASE Failing(s)
    <3>1. PICK t : t = [s EXCEPT !.status = "failed"]  OBVIOUS
    <3>2. Image(s) = t  BY <2>2, <3>1
    <3>3. Wanes(s, t) /\ t.live = s.live /\ t.status = "failed"
      BY <2>1, <2>2, <3>1 DEF Wanes, Kept, Step, Open
    <3>. QED  BY <2>2, <3>2, <3>3
  <2>3. CASE ~Failing(s)
    <3>1. Image(s) = s  BY <2>3
    <3>2. Wanes(s, s)  BY <2>1 DEF Wanes, Kept
    <3>. QED  BY <2>3, <3>1, <3>2
  <2>. QED  BY <2>2, <2>3
<1>3. \A s \in ss : Attempts(Image(s)) = Attempts(s) /\ Image(s).tries = s.tries /\ Image(s) \in Step
  BY <1>2 DEF Wanes, Kept, Attempts
<1>4. \A s, r \in ss : Image(s).user = Image(r).user /\ Image(s).kind = Image(r).kind
                       /\ Image(s).key = Image(r).key => s = r
  <2> HIDE DEF Image
  <2>. QED  BY <1>2 DEF Wanes, Kept, WellKept
<1>5. WellKept({Image(s) : s \in ss})
  <2> HIDE DEF Image
  <2>. QED  BY <1>3, <1>4 DEF WellKept
<1> HIDE DEF Image, Failing
<1>. QED  BY <1>1, <1>2, <1>5

-----------------------------------------------------------------------------
(* The first layer: the types, where an attempt can be and what its step    *)
(* and its connection are then.                                            *)

StatusOf(p) == account[p.user].status
Places == [callback |-> {"lock", "call", "save"}, page |-> {"lock", "call", "save"},
           renewal |-> {"lock", "call", "save", "schedule", "catchup"},
           cleanup |-> {"lock", "call", "delete"}]

\* An attempt has a step that was due, a cleanup's is open and its connection is being
\* removed, no renewal runs beside a cleanup, a callback in Gmail's hands has no connection
\* yet, and what startGmailWatch returned was returned today.
Works(p) ==
    /\ p.at \in Places[p.kind]
    /\ p.kind \in {"renewal", "cleanup"} => \E s \in steps : IsOf(s, p) /\ s.runAt <= today
    /\ p.kind = "cleanup" => StatusOf(p) = "disconnected" /\ \E s \in steps : IsOf(s, p) /\ Open(s)
    /\ p.kind = "renewal" => StatusOf(p) # "none" /\ ~Running(p.user, "cleanup")
    /\ p.kind = "callback" /\ p.at # "lock" =>
          account[p.user].id < MaxIds /\ (Holds(p) => StatusOf(p) = "none")
    /\ p.at = "save" => p.expires = today + Lifetime
    /\ p.at \in {"save", "schedule"} => p.renewed = today
AtWork == \A p \in procs : Works(p)

\* A step belongs to a connection, a cleanup's to one that is being removed; an open step
\* has an attempt left or is being attempted.
Grounded(s) ==
    /\ account[s.user].status # "none"
    /\ s.kind = "cleanup" => account[s.user].status = "disconnected" /\ s.key = NoKey
    /\ Open(s) => s.tries < Attempts(s) \/ \E p \in procs : IsOf(s, p)
Stepped == \A s \in steps : Grounded(s)

Sound == TypeOK /\ AtWork /\ Stepped

\* The step of p, which is over.
StepEnds(p) ==
    \E s \in steps, t \in Step :
        IsOf(s, p) /\ Wanes(s, t) /\ ~Open(t) /\ ~t.live /\ (Open(s) => t.status = "complete")
        /\ steps' = Replaced(steps, s, t)

\* ensureGmailWatch of a run.
LEMMA PageLooksDoes ==
    ASSUME TypeOK, NEW u \in User, PageLooks(u)
    PROVE  /\ UNCHANGED <<today, registered, grant, steps, holder, spent>>
           /\ Connected(u)
           /\ \/ /\ account[u].expires > today /\ UNCHANGED procs
                 /\ account' = [account EXCEPT ![u].building = FALSE]
              \/ /\ UNCHANGED account
                 /\ \E q : Begins(q) /\ q.kind = "page" /\ q.user = u
<1>1. CASE account[u].expires > today  BY <1>1 DEF PageLooks
<1>2. CASE ~(account[u].expires > today)
  <2>1. PICK q : q = [user |-> u, kind |-> "page", key |-> NoKey, id |-> 0,
                      at |-> "lock", expires |-> 0, renewed |-> 0]
    OBVIOUS
  <2>2. q \in Proc /\ q.kind = "page" /\ q.user = u /\ q.at = "lock"
    BY <2>1, ConnectionsAssumption DEF Proc, Kind, NoKey, Key
  <2>3. Begins(q)  BY <1>2, <2>1, <2>2 DEF Begins, PageLooks
  <2>. QED  BY <1>2, <2>2, <2>3 DEF PageLooks
<1>. QED  BY <1>1, <1>2

\* markWorkflowStepRunning.
LEMMA StartStepDoes ==
    ASSUME TypeOK, NEW s \in steps, StartStep(s)
    PROVE  /\ UNCHANGED <<today, registered, grant, account, holder, spent>>
           /\ s.live /\ s.runAt <= today
           /\ ~Running(s.user, "renewal") /\ ~Running(s.user, "cleanup")
           /\ \/ /\ Open(s) /\ (s.kind = "cleanup" \/ Connected(s.user))
                 /\ \E t \in Step : /\ Kept(s, t) /\ t.status = s.status /\ t.live = s.live
                                    /\ t.tries = s.tries + 1 /\ steps' = Replaced(steps, s, t)
                 /\ \E q : Begins(q) /\ IsOf(s, q)
              \/ /\ ~(Open(s) /\ (s.kind = "cleanup" \/ Connected(s.user)))
                 /\ \E t \in Step : /\ Wanes(s, t) /\ t.status = s.status /\ ~t.live
                                    /\ steps' = Replaced(steps, s, t)
                 /\ UNCHANGED procs
<1>1. s \in Step  BY DEF TypeOK
<1>2. CASE Executable(s)
  <2>1. PICK t : t = [s EXCEPT !.tries = s.tries + 1]  OBVIOUS
  <2>2. PICK q : q = [user |-> s.user, kind |-> s.kind, key |-> s.key, id |-> 0,
                      at |-> "lock", expires |-> 0, renewed |-> 0]
    OBVIOUS
  <2>3. Kept(s, t) /\ t.status = s.status /\ t.live = s.live /\ t.tries = s.tries + 1
    BY <1>1, <2>1 DEF Kept, Step
  <2>4. q \in Proc /\ IsOf(s, q) /\ q.at = "lock" /\ q.user = s.user /\ q.kind = s.kind
    BY <1>1, <2>2, ConnectionsAssumption DEF Proc, Kind, Step, IsOf
  <2>5. steps' = Replaced(steps, s, t) /\ procs' = procs \union {q}
    BY <1>2, <2>1, <2>2 DEF StartStep
  <2>6. Begins(q)  BY <1>1, <2>4, <2>5 DEF Begins, StartStep, Step
  <2>. QED  BY <1>2, <2>3, <2>4, <2>5, <2>6 DEF StartStep, Executable, Kept
<1>3. CASE ~Executable(s)
  <2>1. PICK t : t = [s EXCEPT !.live = FALSE]  OBVIOUS
  <2>2. Wanes(s, t) /\ t.status = s.status /\ ~t.live
    BY <1>1, <2>1 DEF Wanes, Kept, Step
  <2>3. steps' = Replaced(steps, s, t) /\ UNCHANGED procs
    BY <1>3, <2>1 DEF StartStep
  <2>. QED  BY <1>3, <2>2, <2>3 DEF StartStep, Executable, Kept, Wanes
<1>. QED  BY <1>2, <1>3

\* completeWorkflowStep of a renewal.
LEMMA CompletedEnds ==
    ASSUME Sound, NEW p \in procs, p.kind = "renewal",
           steps' = Replaced(steps, StepOf(p), Completed(StepOf(p)))
    PROVE  StepEnds(p)
<1>1. PICK s : s = StepOf(p)  OBVIOUS
<1>2. s \in steps /\ IsOf(s, p)  BY <1>1, StepOfIs DEF Sound, AtWork, Works
<1>3. s \in Step  BY <1>2 DEF Sound, TypeOK
<1>4. PICK t : t = Completed(s)  OBVIOUS
<1>5. CASE Open(s)
  <2>1. t = [s EXCEPT !.status = "complete", !.live = FALSE]
    BY <1>4, <1>5 DEF Completed
  <2>2. Wanes(s, t) /\ ~Open(t) /\ ~t.live /\ t.status = "complete"
    BY <1>3, <1>5, <2>1 DEF Wanes, Kept, Step, Open
  <2>. QED  BY <1>1, <1>2, <1>4, <2>2 DEF StepEnds, Wanes, Kept
<1>6. CASE ~Open(s)
  <2>1. t = [s EXCEPT !.status = s.status, !.live = FALSE]
    BY <1>4, <1>6 DEF Completed
  <2>2. Wanes(s, t) /\ ~Open(t) /\ ~t.live
    BY <1>3, <1>6, <2>1 DEF Wanes, Kept, Step, Open
  <2>. QED  BY <1>1, <1>2, <1>4, <1>6, <2>2 DEF StepEnds, Wanes, Kept
<1>. QED  BY <1>5, <1>6

\* renewGmailConnectionWatch under the lock.
LEMMA RenewalEntersDoes ==
    ASSUME Sound, NEW p \in procs, RenewalEnters(p)
    PROVE  /\ UNCHANGED <<today, registered, grant, account, spent>>
           /\ p.kind \in {"renewal", "page"} /\ p.at = "lock" /\ holder = Free
           /\ \/ /\ Connected(p.user) /\ holder' = PidOf(p) /\ UNCHANGED steps
                 /\ \E q : Advances(p, q, "call")
              \/ /\ ~Connected(p.user) /\ Ends(p) /\ UNCHANGED holder
                 /\ \/ p.kind = "page" /\ UNCHANGED steps
                    \/ p.kind = "renewal" /\ StepEnds(p)
<1>1. CASE StillConnected(p)
  <2>1. PICK q : q = [p EXCEPT !.at = "call"]  OBVIOUS
  <2>2. Advances(p, q, "call")
    BY <1>1, <2>1 DEF Advances, Moves, Sound, TypeOK, Proc, RenewalEnters
  <2>. QED  BY <1>1, <2>2 DEF RenewalEnters, StillConnected
<1>2. CASE ~StillConnected(p)
  <2>1. CASE p.kind = "page"  BY <1>2, <2>1 DEF RenewalEnters, StillConnected
  <2>2. CASE p.kind # "page"
    <3>1. p.kind = "renewal" /\ StepEnds(p)
      BY <1>2, <2>2, CompletedEnds DEF RenewalEnters
    <3>. QED  BY <1>2, <3>1 DEF RenewalEnters, StillConnected
  <2>. QED  BY <2>1, <2>2
<1>. QED  BY <1>1, <1>2

\* startGmailWatch.
LEMMA StartWatchDoes ==
    ASSUME TypeOK, NEW p \in procs, StartWatch(p)
    PROVE  /\ UNCHANGED <<today, grant, account, steps, holder, spent>>
           /\ p.kind # "cleanup" /\ p.at = "call" /\ registered' = today + Lifetime
           /\ \E q : Advances(p, q, "save") /\ q.expires = today + Lifetime /\ q.renewed = today
<1>1. PICK q : q = [p EXCEPT !.at = "save", !.expires = today + Lifetime, !.renewed = today]
  OBVIOUS
<1>2. PICK e \in Nat, d \in Nat : e = today + Lifetime /\ d = today
  BY ConnectionsAssumption DEF TypeOK
<1>3. p \in Proc /\ q = [p EXCEPT !.at = "save", !.expires = e, !.renewed = d]
  BY <1>1, <1>2 DEF TypeOK
<1>4. /\ q \in Proc /\ q.expires = e /\ q.renewed = d
      /\ q.user = p.user /\ q.kind = p.kind /\ q.key = p.key /\ q.id = p.id /\ q.at = "save"
  BY <1>3 DEF Proc
<1>5. procs' = (procs \ {p}) \union {q}  BY <1>1 DEF Moves, StartWatch
<1>. QED  BY <1>2, <1>4, <1>5 DEF StartWatch, Advances

\* scheduleNext.
LEMMA RenewalSchedulesDoes ==
    ASSUME TypeOK, NEW p \in procs, RenewalSchedules(p)
    PROVE  /\ UNCHANGED <<today, registered, grant, account, holder, spent>>
           /\ p.kind = "renewal" /\ p.at = "schedule" /\ account[p.user].status # "none"
           /\ steps' = Enqueued(steps, p.user, "renewal", Daily(p.renewed + 1), p.renewed + 1)
           /\ \E q : Advances(p, q, "catchup")
<1>1. PICK q : q = [p EXCEPT !.at = "catchup"]  OBVIOUS
<1>2. Advances(p, q, "catchup")
  BY <1>1 DEF Advances, Moves, TypeOK, Proc, RenewalSchedules
<1>. QED  BY <1>2 DEF RenewalSchedules, NextRenewal, WithDaily, Exists

\* runGmailConnectionCleanup under the lock.
LEMMA CleanupEntersDoes ==
    ASSUME TypeOK, NEW p \in procs, CleanupEnters(p)
    PROVE  /\ UNCHANGED <<today, registered, grant, account, steps, spent>>
           /\ p.kind = "cleanup" /\ p.at = "lock" /\ holder = Free /\ holder' = PidOf(p)
           /\ \/ HasOthers(p.user) /\ \E q : Advances(p, q, "delete")
              \/ ~HasOthers(p.user) /\ \E q : Advances(p, q, "call")
<1>1. CASE HasOthers(p.user)
  <2>1. PICK q : q = [p EXCEPT !.at = "delete"]  OBVIOUS
  <2>2. Advances(p, q, "delete")
    BY <1>1, <2>1 DEF Advances, Moves, TypeOK, Proc, CleanupEnters
  <2>. QED  BY <1>1, <2>2 DEF CleanupEnters
<1>2. CASE ~HasOthers(p.user)
  <2>1. PICK q : q = [p EXCEPT !.at = "call"]  OBVIOUS
  <2>2. Advances(p, q, "call")
    BY <1>2, <2>1 DEF Advances, Moves, TypeOK, Proc, CleanupEnters
  <2>. QED  BY <1>2, <2>2 DEF CleanupEnters
<1>. QED  BY <1>1, <1>2

\* stopGmailWatch.
LEMMA StopWatchDoes ==
    ASSUME TypeOK, NEW p \in procs, StopWatch(p)
    PROVE  /\ UNCHANGED <<today, grant, account, steps, holder>>
           /\ p.kind = "cleanup" /\ p.at = "call"
           /\ \/ p.user \in grant /\ registered' = 0 /\ UNCHANGED spent
              \/ p.user \notin grant /\ UNCHANGED registered
                 /\ spent' = [spent EXCEPT !["refusals"] = 1]
           /\ \E q : Advances(p, q, "delete")
<1>1. PICK q : q = [p EXCEPT !.at = "delete"]  OBVIOUS
<1>2. Advances(p, q, "delete")
  BY <1>1 DEF Advances, Moves, TypeOK, Proc, StopWatch
<1>. QED  BY <1>2 DEF StopWatch

\* saveGmailWatchState and the commit.
LEMMA RenewalSavesDoes ==
    ASSUME TypeOK, NEW p \in procs, RenewalSaves(p)
    PROVE  /\ UNCHANGED <<today, registered, grant, steps, spent>>
           /\ p.kind \in {"renewal", "page"} /\ p.at = "save" /\ Holds(p) /\ holder' = Free
           /\ \/ p.kind = "page" /\ Ends(p)
              \/ p.kind = "renewal" /\ \E q : Advances(p, q, "schedule") /\ q.renewed = p.renewed
           /\ account' \in [User -> Account]
           /\ \A v \in User : v # p.user => account'[v] = account[v]
           /\ account'[p.user].status = account[p.user].status
           /\ account'[p.user].id = account[p.user].id
           /\ account'[p.user].failed = account[p.user].failed
           /\ account'[p.user].restored = account[p.user].restored
           /\ \/ Connected(p.user) /\ account'[p.user].expires = p.expires
              \/ ~Connected(p.user) /\ account'[p.user].expires = account[p.user].expires
<1>1. PICK u : u = p.user  OBVIOUS
<1>2. PICK e, d : e = p.expires /\ d = p.renewed  OBVIOUS
<1>3. p \in Proc /\ u \in User /\ e \in Nat /\ d \in Nat /\ account[u] \in Account
      /\ account \in [User -> Account]
  BY <1>1, <1>2 DEF TypeOK, Proc
<1>4. PICK saved : saved = (IF Connected(u)
                            THEN [account EXCEPT ![u].expires = e, ![u].renewed = d] ELSE account)
  OBVIOUS
<1>5. account' = IF p.kind = "page" THEN [saved EXCEPT ![u].building = FALSE] ELSE saved
  BY <1>1, <1>2, <1>4 DEF RenewalSaves
<1>6. /\ saved \in [User -> Account]
      /\ \A v \in User : v # u => saved[v] = account[v]
      /\ saved[u].status = account[u].status /\ saved[u].id = account[u].id
      /\ saved[u].failed = account[u].failed /\ saved[u].restored = account[u].restored
      /\ \/ Connected(u) /\ saved[u].expires = e
         \/ ~Connected(u) /\ saved[u].expires = account[u].expires
  <2>1. CASE Connected(u)
    <3>1. saved = [account EXCEPT ![u] = [account[u] EXCEPT !.expires = e, !.renewed = d]]
      BY <1>3, <1>4, <2>1 DEF Account
    <3>2. PICK a : a = [account[u] EXCEPT !.expires = e, !.renewed = d]  OBVIOUS
    <3>3. a \in Account /\ a.status = account[u].status /\ a.id = account[u].id
          /\ a.failed = account[u].failed /\ a.restored = account[u].restored /\ a.expires = e
      BY <1>3, <3>2 DEF Account
    <3>. QED  BY <1>3, <2>1, <3>1, <3>2, <3>3
  <2>2. CASE ~Connected(u)  BY <1>3, <1>4, <2>2
  <2>. QED  BY <2>1, <2>2
<1>7. /\ account' \in [User -> Account]
      /\ \A v \in User : v # u => account'[v] = saved[v]
      /\ account'[u].status = saved[u].status /\ account'[u].id = saved[u].id
      /\ account'[u].failed = saved[u].failed /\ account'[u].restored = saved[u].restored
      /\ account'[u].expires = saved[u].expires
  <2>1. CASE p.kind = "page"
    <3>1. PICK a : a = [saved[u] EXCEPT !.building = FALSE]  OBVIOUS
    <3>2. account' = [saved EXCEPT ![u] = a]  BY <1>3, <1>5, <1>6, <2>1, <3>1
    <3>3. saved[u] \in Account  BY <1>3, <1>6
    <3>4. a \in Account /\ a.status = saved[u].status /\ a.id = saved[u].id
          /\ a.failed = saved[u].failed /\ a.restored = saved[u].restored
          /\ a.expires = saved[u].expires
      BY <3>1, <3>3 DEF Account
    <3>. QED  BY <1>3, <1>6, <3>2, <3>4
  <2>2. CASE p.kind # "page"  BY <1>5, <1>6, <2>2
  <2>. QED  BY <2>1, <2>2
<1>8. \/ p.kind = "page" /\ Ends(p)
      \/ p.kind = "renewal" /\ \E q : Advances(p, q, "schedule") /\ q.renewed = p.renewed
  <2>1. CASE p.kind = "page"  BY <2>1 DEF RenewalSaves
  <2>2. CASE p.kind # "page"
    <3>1. PICK q : q = [p EXCEPT !.at = "schedule"]  OBVIOUS
    <3>2. procs' = (procs \ {p}) \union {q} /\ p.kind = "renewal"
      BY <2>2, <3>1 DEF RenewalSaves, Moves
    <3>3. q \in Proc /\ q.renewed = p.renewed /\ q.user = p.user /\ q.kind = p.kind
          /\ q.key = p.key /\ q.id = p.id /\ q.at = "schedule"
      BY <1>3, <3>1 DEF Proc
    <3>. QED  BY <3>2, <3>3 DEF Advances
  <2>. QED  BY <2>1, <2>2
<1>9. UNCHANGED <<today, registered, grant, steps, spent>>
      /\ p.kind \in {"renewal", "page"} /\ p.at = "save" /\ Holds(p) /\ holder' = Free
  BY DEF RenewalSaves, Releases
<1>. QED  BY ONLY <1>1, <1>2, <1>6, <1>7, <1>8, <1>9, <1>3

\* The connection is removed with its steps.
LEMMA CleanupEndsDoes ==
    ASSUME TypeOK, NEW p \in procs, CleanupEnds(p)
    PROVE  /\ UNCHANGED <<today, registered, grant, spent>>
           /\ p.kind = "cleanup" /\ p.at = "delete" /\ Holds(p) /\ holder' = Free /\ Ends(p)
           /\ account' \in [User -> Account]
           /\ \A v \in User : v # p.user => account'[v] = account[v]
           /\ account'[p.user].status = "none" /\ account'[p.user].id = account[p.user].id
           /\ account'[p.user].expires = 0
           /\ steps' = {s \in steps : s.user # p.user}
<1>1. p.user \in User /\ account[p.user] \in Account  BY DEF TypeOK, Proc
<1>2. PICK a : a = Removed(account[p.user])  OBVIOUS
<1>3. a \in Account /\ a.status = "none" /\ a.id = account[p.user].id /\ a.expires = 0
  <2>0. NoKey \in Key  BY DEF NoKey, Key
  <2>1. PICK k \in Key : k = NoKey  BY <2>0
  <2>2. PICK b \in Account : b = account[p.user]  BY <1>1
  <2>3. a = [b EXCEPT !.status = "none", !.building = FALSE, !.expires = 0, !.renewed = 0,
                      !.failed = k, !.restored = FALSE]
    BY <1>2, <2>1, <2>2 DEF Removed
  <2>. QED  BY <2>2, <2>3 DEF Account
<1>4. account' = [account EXCEPT ![p.user] = a]  BY <1>2 DEF CleanupEnds
<1>. QED  BY <1>1, <1>3, <1>4 DEF CleanupEnds, Releases, TypeOK

\* An attempt fails: its step stays as it is, has ended before, or fails for good and, if it is
\* a renewal of a connection that is connected, leaves a successor.
FailsStep(p) ==
    \/ p.kind \in {"callback", "page"} /\ UNCHANGED <<steps, account>>
    \/ /\ p.kind \in {"renewal", "cleanup"} /\ UNCHANGED <<steps, account>>
       /\ \E s \in steps : IsOf(s, p) /\ Open(s) /\ s.tries < Attempts(s)
    \/ /\ p.kind \in {"renewal", "cleanup"} /\ UNCHANGED account
       /\ \E s \in steps, t \in Step :
             IsOf(s, p) /\ ~Open(s) /\ Wanes(s, t) /\ ~t.live /\ steps' = Replaced(steps, s, t)
    \/ /\ p.kind \in {"renewal", "cleanup"}
       /\ \E s \in steps, t \in Step :
             /\ IsOf(s, p) /\ Open(s) /\ s.tries >= Attempts(s)
             /\ Wanes(s, t) /\ ~t.live /\ t.status = "failed"
             /\ \/ /\ p.kind = "renewal" /\ Connected(p.user)
                   /\ steps' = Enqueued(Replaced(steps, s, t), p.user, "renewal",
                                        RecoveryOf(p.key), RecoveryDay(p.user))
                \/ /\ ~(p.kind = "renewal" /\ Connected(p.user))
                   /\ steps' = Replaced(steps, s, t)
             /\ \/ p.kind = "renewal" /\ account' = [account EXCEPT ![p.user].failed = p.key]
                \/ p.kind = "cleanup" /\ UNCHANGED account

\* failWorkflowStep.
LEMMA GivesUpDoes ==
    ASSUME Sound, NEW p \in procs, GivesUp(p)
    PROVE  /\ UNCHANGED <<today, registered, grant>>
           /\ Ends(p) /\ holder' \in {holder, Free} /\ (Holds(p) => holder' = Free)
           /\ FailsStep(p)
<1>1. UNCHANGED <<today, registered, grant>>
      /\ Ends(p) /\ holder' \in {holder, Free} /\ (Holds(p) => holder' = Free)
  BY DEF GivesUp, Releases
<1>2. p \in Proc  BY DEF Sound, TypeOK
<1>3. CASE p.kind \in {"callback", "page"}  BY <1>1, <1>3 DEF GivesUp, FailsStep
<1>4. CASE p.kind \in {"renewal", "cleanup"}
  <2>1. PICK s : s = StepOf(p)  OBVIOUS
  <2>2. \E r \in steps : IsOf(r, p)  BY <1>4 DEF Sound, AtWork, Works
  <2>3. s \in steps /\ IsOf(s, p)  BY <2>1, <2>2, StepOfIs DEF Sound
  <2>4. s \in Step  BY <2>3 DEF Sound, TypeOK
  <2>5. FailAttempt(s)  BY <1>4, <2>1, <2>3 DEF GivesUp, IsOf
  <2>6. CASE ~Open(s) /\ UNCHANGED account /\ steps' = Replaced(steps, s, [s EXCEPT !.live = FALSE])
    <3>1. PICK t : t = [s EXCEPT !.live = FALSE]  OBVIOUS
    <3>2. Wanes(s, t) /\ ~t.live /\ t \in Step
      BY <2>4, <3>1 DEF Wanes, Kept, Step
    <3>. QED  BY <1>1, <1>4, <2>3, <2>6, <3>1, <3>2 DEF FailsStep
  <2>7. CASE Open(s) /\ s.tries < Attempts(s) /\ UNCHANGED <<steps, account>>
    BY <1>1, <1>4, <2>3, <2>7 DEF FailsStep
  <2>8. CASE /\ Open(s) /\ s.tries >= Attempts(s)
             /\ steps' = Recovered(Replaced(steps, s, [s EXCEPT !.status = "failed", !.live = FALSE]), s)
             /\ account' = IF s.kind = "renewal"
                           THEN [account EXCEPT ![s.user].failed = s.key] ELSE account
    <3>1. PICK t : t = [s EXCEPT !.status = "failed", !.live = FALSE]  OBVIOUS
    <3>2. Wanes(s, t) /\ ~t.live /\ t.status = "failed" /\ t \in Step
      BY <2>4, <2>8, <3>1 DEF Wanes, Kept, Step
    <3>3. s.user = p.user /\ s.kind = p.kind /\ s.key = p.key  BY <2>3 DEF IsOf
    <3>4. \/ /\ p.kind = "renewal" /\ Connected(p.user)
             /\ steps' = Enqueued(Replaced(steps, s, t), p.user, "renewal",
                                  RecoveryOf(p.key), RecoveryDay(p.user))
          \/ /\ ~(p.kind = "renewal" /\ Connected(p.user))
             /\ steps' = Replaced(steps, s, t)
      <4>1. CASE p.kind = "renewal" /\ Connected(p.user)
        BY <2>8, <3>1, <3>3, <4>1 DEF Recovered, WithRecovery
      <4>2. CASE ~(p.kind = "renewal" /\ Connected(p.user))
        BY <2>8, <3>1, <3>3, <4>2 DEF Recovered
      <4>. QED  BY <4>1, <4>2
    <3>5. \/ p.kind = "renewal" /\ account' = [account EXCEPT ![p.user].failed = p.key]
          \/ p.kind = "cleanup" /\ UNCHANGED account
      BY <1>4, <2>8, <3>3
    <3>. QED  BY <1>1, <1>4, <2>3, <2>8, <3>2, <3>4, <3>5 DEF FailsStep
  <2>. QED  BY <2>5, <2>6, <2>7, <2>8, <1>1 DEF FailAttempt
<1>. QED  BY <1>1, <1>2, <1>3, <1>4 DEF Proc, Kind

\* The attempt finds that the grant is gone.
LEMMA FindsGrantGoneDoes ==
    ASSUME Sound, NEW p \in procs, FindsGrantGone(p)
    PROVE  /\ UNCHANGED <<today, registered, grant, spent>>
           /\ Ends(p) /\ holder' \in {holder, Free} /\ (Holds(p) => holder' = Free)
           /\ p.at = "call" /\ p.user \notin grant
           /\ \/ p.kind = "callback" /\ UNCHANGED <<steps, account>>
              \/ /\ p.kind = "cleanup" /\ UNCHANGED account
                 /\ \E s \in steps, t \in Step :
                       /\ IsOf(s, p) /\ Wanes(s, t) /\ ~t.live /\ t.status = "failed"
                       /\ steps' = Replaced(Terminalized(steps, p.user), s, t)
              \/ p.kind \in {"renewal", "page"} /\ Loses(p.user)
<1>1. p \in Proc  BY DEF Sound, TypeOK
<1>2. UNCHANGED <<today, registered, grant, spent>>
      /\ Ends(p) /\ holder' \in {holder, Free} /\ (Holds(p) => holder' = Free)
      /\ p.at = "call" /\ p.user \notin grant
  BY DEF FindsGrantGone, Releases
<1>3. CASE p.kind = "callback"  BY <1>2, <1>3 DEF FindsGrantGone
<1>4. CASE p.kind = "cleanup"
  <2>1. PICK s : s = StepOf(p)  OBVIOUS
  <2>2. PICK r \in steps : IsOf(r, p) /\ Open(r)
    BY <1>4 DEF Sound, AtWork, Works
  <2>3. s = r  BY <2>1, <2>2, StepOfIs DEF Sound
  <2>4. s \in Step /\ Open(s) /\ IsOf(s, p) /\ s \in steps
    BY <2>2, <2>3 DEF Sound, TypeOK
  <2>5. PICK t : t = [s EXCEPT !.status = "failed", !.live = FALSE]  OBVIOUS
  <2>6. Wanes(s, t) /\ ~t.live /\ t.status = "failed" /\ t \in Step
    BY <2>4, <2>5 DEF Wanes, Kept, Step
  <2>7. steps' = Replaced(Terminalized(steps, p.user), s, t) /\ UNCHANGED account
    BY <1>4, <2>1, <2>5 DEF FindsGrantGone
  <2>. QED  BY <1>2, <1>4, <2>4, <2>6, <2>7
<1>5. CASE p.kind \notin {"callback", "cleanup"}
  BY <1>1, <1>2, <1>5 DEF FindsGrantGone, Proc, Kind
<1>. QED  BY <1>3, <1>4, <1>5

-----------------------------------------------------------------------------
(* The first layer is kept.                                                *)

OneEach(ps) ==
    ps \subseteq Proc /\ \A p, q \in ps : p.user = q.user /\ p.kind = q.kind => p = q
Loose ==
    /\ today \in 0 .. MaxDay /\ registered \in Nat /\ grant \subseteq User
    /\ account \in [User -> Account] /\ holder \in Pid \union {Free} /\ spent \in [Counters -> Nat]

\* v stays the connection it was, or stays away; what is being removed stays so.
SameStanding(v) ==
    /\ account'[v].id = account[v].id
    /\ account'[v].status = "none" <=> account[v].status = "none"
    /\ account[v].status = "disconnected" => account'[v].status = "disconnected"

\* The step of p is still there, and as open as before if p is a cleanup.
CarriesStep(p) ==
    p.kind \in {"renewal", "cleanup"} =>
        \A s \in steps : IsOf(s, p) =>
            \E t \in steps' : Kept(s, t) /\ (p.kind = "cleanup" /\ Open(s) => Open(t))

\* The parts of the types.
LEMMA TypesAre ==
    /\ TypeOK <=> Loose /\ OneEach(procs) /\ WellKept(steps)
    /\ TypeOK' <=> Loose' /\ OneEach(procs') /\ WellKept(steps')
<1>1. TypeOK <=> Loose /\ OneEach(procs) /\ WellKept(steps)
  BY DEF TypeOK, Loose, OneEach, WellKept, Attempts
<1>2. TypeOK' <=> Loose' /\ OneEach(procs') /\ WellKept(steps')
  BY DEF TypeOK, Loose, OneEach, WellKept, Attempts
<1>. QED  BY <1>1, <1>2

\* The bounds that are spent stay typed.
LEMMA SpendsTyped ==
    ASSUME Loose, NEW c \in Counters, Spend(c)
    PROVE  spent' \in [Counters -> Nat]
BY DEF Loose, Spend

\* An attempt ends.
LEMMA EndsIs ==
    ASSUME OneEach(procs), NEW p \in procs, Ends(p)
    PROVE  /\ OneEach(procs')
           /\ \A r \in procs' : r \in procs /\ r # p /\ PidOf(r) # PidOf(p)
           /\ \A r \in procs : r # p => r \in procs'
           /\ \A u, k : Running(u, k)' => Running(u, k)
BY DEF OneEach, Ends, PidOf, Running

\* An attempt goes on.
LEMMA AdvancesIs ==
    ASSUME OneEach(procs), NEW p, NEW q, NEW at, Advances(p, q, at)
    PROVE  /\ OneEach(procs') /\ q \in procs' /\ q \in Proc
           /\ \A r \in procs' : r = q \/ (r \in procs /\ r # p /\ PidOf(r) # PidOf(p))
           /\ \A r \in procs : r # p => r \in procs'
           /\ \A u, k : Running(u, k)' => Running(u, k)
BY DEF OneEach, Advances, PidOf, Running

\* An attempt begins.
LEMMA BeginsIs ==
    ASSUME OneEach(procs), NEW q, Begins(q)
    PROVE  /\ OneEach(procs') /\ q \in procs' /\ q \in Proc /\ q.at = "lock"
           /\ \A r \in procs' : r = q \/ r \in procs
           /\ procs \subseteq procs'
           /\ \A u, k : Running(u, k)' => Running(u, k) \/ (u = q.user /\ k = q.kind)
BY DEF OneEach, Begins, Running

\* An attempt that another action does not concern.
LEMMA Remains ==
    ASSUME Sound, NEW p \in procs, today' = today, SameStanding(p.user), CarriesStep(p),
           Holds(p)' => Holds(p), p.kind = "renewal" => ~Running(p.user, "cleanup")'
    PROVE  Works(p)'
<1>1. Works(p)  BY DEF Sound, AtWork
<1>2. p.kind \in {"renewal", "cleanup"} => (\E s \in steps : IsOf(s, p) /\ s.runAt <= today)'
  BY <1>1 DEF Works, CarriesStep, Kept, IsOf
<1>3. p.kind = "cleanup" => (StatusOf(p) = "disconnected" /\ \E s \in steps : IsOf(s, p) /\ Open(s))'
  BY <1>1 DEF Works, CarriesStep, Kept, IsOf, SameStanding, StatusOf, Open
<1>4. p.kind = "renewal" => (StatusOf(p) # "none" /\ ~Running(p.user, "cleanup"))'
  BY <1>1 DEF Works, SameStanding, StatusOf
<1>5. p.kind = "callback" /\ p.at # "lock" =>
          (account[p.user].id < MaxIds /\ (Holds(p) => StatusOf(p) = "none"))'
  BY <1>1 DEF Works, SameStanding, StatusOf
<1>. QED  BY <1>1, <1>2, <1>3, <1>4, <1>5 DEF Works

\* A step that has not been tried again, and is attempted or can be.
LEMMA StaysGrounded ==
    ASSUME Sound, NEW s \in steps, NEW t, Wanes(s, t), SameStanding(s.user),
           Open(t) => \/ t.tries < Attempts(t)
                      \/ \A p \in procs : IsOf(s, p) => \E q \in procs' : IsOf(s, q)
    PROVE  Grounded(t)'
<1>1. Grounded(s) /\ t.user = s.user /\ t.kind = s.kind /\ t.key = s.key /\ t.tries = s.tries
      /\ Attempts(t) = Attempts(s)
  BY DEF Sound, Stepped, Wanes, Kept, Attempts
<1>2. Open(t) => Open(s)  BY DEF Wanes, Open
<1>3. Open(t) => t.tries < Attempts(t) \/ \E p \in procs' : IsOf(t, p)
  BY <1>1, <1>2 DEF Grounded, IsOf
<1>4. account'[t.user].status # "none"
      /\ (t.kind = "cleanup" => account'[t.user].status = "disconnected" /\ t.key = NoKey)
  BY <1>1 DEF Grounded, SameStanding
<1>. QED  BY <1>3, <1>4 DEF Grounded, Open, Attempts, IsOf

\* A step that is new.
LEMMA FreshIsGrounded ==
    ASSUME NEW t, Fresh(t), account'[t.user].status # "none",
           t.kind = "cleanup" => account'[t.user].status = "disconnected" /\ t.key = NoKey
    PROVE  Grounded(t)'
BY ConnectionsAssumption DEF Fresh, Grounded, Attempts, Step

\* Every step stays where it is, and no attempt ends.
LEMMA StepsStay ==
    ASSUME Sound, UNCHANGED steps, \A v \in User : SameStanding(v),
           \A p \in procs : \E q \in procs' : q.user = p.user /\ q.kind = p.kind /\ q.key = p.key
    PROVE  Stepped'
<1>. SUFFICES ASSUME NEW s \in steps PROVE Grounded(s)'
  BY DEF Stepped
<1>1. s \in Step /\ s.user \in User  BY DEF Sound, TypeOK, Step
<1>2. Wanes(s, s) /\ \A p \in procs : IsOf(s, p) => \E q \in procs' : IsOf(s, q)
  BY <1>1 DEF Wanes, Kept, IsOf
<1>. QED  BY <1>1, <1>2, StaysGrounded

\* Attempts to which nothing happens, while the steps stay.
LEMMA AllRemain ==
    ASSUME Sound, UNCHANGED <<today, steps, procs>>, \A v \in User : SameStanding(v),
           holder' \in {holder, Free}
    PROVE  AtWork' /\ Stepped'
<1>1. ASSUME NEW p \in procs PROVE Works(p)'
  <2>1. p \in Proc /\ p.user \in User  BY DEF Sound, TypeOK, Proc
  <2>2. CarriesStep(p)  BY DEF CarriesStep, Kept, Sound, TypeOK
  <2>3. p.kind = "renewal" => ~Running(p.user, "cleanup")'
    BY DEF Sound, AtWork, Works, Running
  <2>4. Holds(p)' => Holds(p)  BY DEF Holds, PidOf, Free
  <2>. QED  BY <2>1, <2>2, <2>3, <2>4, Remains
<1>2. Stepped'  BY StepsStay
<1>. QED  BY <1>1, <1>2 DEF AtWork

\* An attempt goes on, with the lock or without, while the steps stay.
LEMMA OthersRemain ==
    ASSUME Sound, UNCHANGED <<today, steps>>, \A v \in User : SameStanding(v),
           NEW p, NEW q, NEW at, Advances(p, q, at), Works(q)',
           holder' \in {holder, Free, PidOf(p)}
    PROVE  AtWork' /\ Stepped' /\ OneEach(procs')
<1>0. OneEach(procs)  BY TypesAre DEF Sound
<1>1. ASSUME NEW r \in procs, r # p, PidOf(r) # PidOf(p) PROVE Works(r)'
  <2>1. r \in Proc /\ r.user \in User  BY DEF Sound, TypeOK, Proc
  <2>2. CarriesStep(r)  BY DEF CarriesStep, Kept, Sound, TypeOK
  <2>3. r.kind = "renewal" => ~Running(r.user, "cleanup")'
    BY <1>0, AdvancesIs DEF Sound, AtWork, Works
  <2>4. Holds(r)' => Holds(r)  BY <1>1 DEF Holds, PidOf, Free
  <2>. QED  BY <2>1, <2>2, <2>3, <2>4, Remains
<1>2. Stepped'
  <2>1. \A r \in procs : \E t \in procs' : t.user = r.user /\ t.kind = r.kind /\ t.key = r.key
    BY <1>0, AdvancesIs DEF Advances
  <2>. QED  BY <2>1, StepsStay
<1>3. AtWork'  BY <1>0, <1>1, AdvancesIs DEF AtWork
<1>. QED  BY <1>0, <1>2, <1>3, AdvancesIs

\* An attempt begins.
LEMMA BeginsRemain ==
    ASSUME Sound, UNCHANGED <<today, holder>>, \A v \in User : SameStanding(v),
           NEW q, Begins(q), \A p \in procs : CarriesStep(p), Works(q)',
           q.kind = "cleanup" => ~Running(q.user, "renewal")
    PROVE  AtWork' /\ OneEach(procs')
<1>0. OneEach(procs)  BY TypesAre DEF Sound
<1>1. ASSUME NEW p \in procs PROVE Works(p)'
  <2>1. p \in Proc /\ p.user \in User  BY DEF Sound, TypeOK, Proc
  <2>2. p.kind = "renewal" => ~Running(p.user, "cleanup")'
    <3>1. p.kind = "renewal" => ~Running(p.user, "cleanup") /\ Running(p.user, "renewal")
      BY DEF Sound, AtWork, Works, Running
    <3>2. PICK u, k : u = p.user /\ k = "cleanup"  OBVIOUS
    <3>3. Running(u, k)' => Running(u, k) \/ (u = q.user /\ k = q.kind)
      BY <1>0, BeginsIs
    <3>. QED  BY <3>1, <3>2, <3>3
  <2>3. Holds(p)' => Holds(p)  BY DEF Holds, PidOf
  <2>. QED  BY <2>1, <2>2, <2>3, Remains
<1>. QED  BY <1>0, <1>1, BeginsIs DEF AtWork

\* An attempt ends.
LEMMA EndsRemain ==
    ASSUME Sound, UNCHANGED today, holder' \in {holder, Free}, NEW p \in procs, Ends(p),
           \A r \in procs : r # p => CarriesStep(r) /\ SameStanding(r.user)
    PROVE  AtWork' /\ OneEach(procs')
<1>0. OneEach(procs)  BY TypesAre DEF Sound
<1>1. ASSUME NEW r \in procs, r # p PROVE Works(r)'
  <2>1. r.kind = "renewal" => ~Running(r.user, "cleanup")'
    BY <1>0, EndsIs DEF Sound, AtWork, Works
  <2>2. Holds(r)' => Holds(r)  BY DEF Holds, PidOf, Free
  <2>. QED  BY <1>1, <2>1, <2>2, Remains
<1>. QED  BY <1>0, <1>1, EndsIs DEF AtWork

\* Nothing that Gmail or the user does touches the standing of a connection.
LEMMA StandingStays ==
    UNCHANGED account => \A v \in User : SameStanding(v)
BY DEF SameStanding

\* Authorizes keeps the first layer.
LEMMA AuthorizesKeeps ==
    ASSUME Sound, NEW u \in User, Authorizes(u)
    PROVE  Sound'
<1>1. PICK q : Begins(q) /\ q.kind = "callback" /\ q.user = u
  BY AuthorizesDoes DEF Sound
<1>2. UNCHANGED <<today, registered, account, steps, holder>> /\ grant' = grant \union {u}
  BY AuthorizesDoes DEF Sound
<1>3. \A v \in User : SameStanding(v)  BY <1>2, StandingStays
<1>4. \A p \in procs : CarriesStep(p)
  BY <1>2 DEF CarriesStep, Kept, Sound, TypeOK
<1>5. Works(q)'  BY <1>1 DEF Works, Begins, Places
<1>6. AtWork' /\ OneEach(procs')  BY <1>1, <1>2, <1>3, <1>4, <1>5, BeginsRemain
<1>7. Stepped'
  <2>1. \A p \in procs : \E r \in procs' : r.user = p.user /\ r.kind = p.kind /\ r.key = p.key
    BY <1>1 DEF Begins
  <2>. QED  BY <1>2, <1>3, <2>1, StepsStay
<1>8. Loose'
  BY <1>2, TypesAre, SpendsTyped DEF Loose, Authorizes, Sound, Counters
<1>. QED  BY <1>2, <1>6, <1>7, <1>8, TypesAre DEF Sound

\* RevokeGrant and LockDrops keep the first layer.
LEMMA RevokeGrantKeeps ==
    ASSUME Sound, NEW u \in User, RevokeGrant(u)
    PROVE  Sound'
<1>1. UNCHANGED <<today, registered, account, steps, procs, holder>> /\ grant' = grant \ {u}
  BY DEF RevokeGrant
<1>2. AtWork' /\ Stepped'  BY <1>1, AllRemain, StandingStays
<1>3. Loose'
  BY <1>1, TypesAre, SpendsTyped DEF Loose, RevokeGrant, Sound, Counters
<1>. QED  BY <1>1, <1>2, <1>3, TypesAre DEF Sound

\* The same for the lock connection that drops.
LEMMA LockDropsKeeps ==
    ASSUME Sound, LockDrops
    PROVE  Sound'
<1>1. UNCHANGED <<today, registered, grant, account, steps, procs>> /\ holder' = Free
  BY DEF LockDrops
<1>2. AtWork' /\ Stepped'  BY <1>1, AllRemain, StandingStays
<1>3. Loose'
  BY <1>1, TypesAre, SpendsTyped DEF Loose, LockDrops, Sound, Counters
<1>. QED  BY <1>1, <1>2, <1>3, TypesAre DEF Sound

\* What authorizing again does to a connection.
LEMMA ReauthorizedIs ==
    ASSUME NEW a \in Account
    PROVE  /\ Reauthorized(a) \in Account /\ Reauthorized(a).status = "connected"
           /\ Reauthorized(a).id = a.id /\ Reauthorized(a).expires = a.expires
           /\ Reauthorized(a).failed = a.failed
           /\ Reauthorized(a).restored = (a.restored \/ a.status = "reconnect_required")
<1>1. PICK b \in BOOLEAN : b = (a.building \/ a.status = "reconnect_required")
  OBVIOUS
<1>2. PICK r \in BOOLEAN : r = (a.restored \/ a.status = "reconnect_required")
  OBVIOUS
<1>3. Reauthorized(a) = [a EXCEPT !.status = "connected", !.building = b, !.restored = r]
  BY <1>1, <1>2 DEF Reauthorized
<1>. QED  BY <1>2, <1>3 DEF Account

\* CallbackEnters keeps the first layer.
LEMMA CallbackEntersKeeps ==
    ASSUME Sound, NEW p \in procs, CallbackEnters(p)
    PROVE  Sound'
<1>1. PICK u : u = p.user  OBVIOUS
<1>2. p \in Proc /\ u \in User /\ TypeOK /\ account[u] \in Account
  BY <1>1 DEF Sound, TypeOK, Proc
<1>3. /\ UNCHANGED <<today, registered, grant, steps, spent>>
      /\ p.kind = "callback" /\ p.at = "lock" /\ holder = Free
  BY <1>1, <1>2, CallbackEntersDoes
<1>4. \A r \in procs : CarriesStep(r)
  BY <1>3 DEF CarriesStep, Kept, Sound, TypeOK
<1>5. \A s \in steps, r \in procs : IsOf(s, r) => r.kind # "callback"
  BY DEF IsOf, Sound, TypeOK, Step
<1>6. ASSUME Ends(p), UNCHANGED holder, \A v \in User : SameStanding(v), account' \in [User -> Account]
      PROVE  Sound'
  <2>1. AtWork' /\ OneEach(procs')
    <3>1. \A r \in procs : r.user \in User  BY DEF Sound, TypeOK, Proc
    <3>. QED  BY <1>3, <1>4, <1>6, <3>1, EndsRemain
  <2>2. Stepped'
    <3>. SUFFICES ASSUME NEW s \in steps PROVE Grounded(s)'
      BY <1>3 DEF Stepped
    <3>1. \A r \in procs : IsOf(s, r) => r \in procs'
      BY <1>3, <1>5, <1>6 DEF Ends
    <3>2. Wanes(s, s) /\ s.user \in User
      BY DEF Wanes, Kept, Sound, TypeOK, Step
    <3>. QED  BY <1>6, <3>1, <3>2, StaysGrounded
  <2>3. Loose'  BY <1>2, <1>3, <1>6, TypesAre DEF Loose
  <2>. QED  BY <1>2, <1>3, <2>1, <2>2, <2>3, TypesAre DEF Sound
<1>7. CASE Ends(p) /\ UNCHANGED <<account, holder>>
  BY <1>2, <1>6, <1>7, StandingStays DEF TypeOK
<1>8. CASE /\ account[u].status # "none" /\ account[u].status # "disconnected"
           /\ account' = [account EXCEPT ![u] = Reauthorized(account[u])]
           /\ Ends(p) /\ UNCHANGED holder
  <2>1. PICK a : a = Reauthorized(account[u])  OBVIOUS
  <2>2. a \in Account /\ a.status = "connected" /\ a.id = account[u].id
    BY <1>2, <2>1, ReauthorizedIs
  <2>3. account' = [account EXCEPT ![u] = a] /\ account \in [User -> Account]
    BY <1>2, <1>8, <2>1 DEF TypeOK
  <2>4. \A v \in User : SameStanding(v)  BY <1>8, <2>2, <2>3 DEF SameStanding
  <2>. QED  BY <1>2, <1>6, <1>8, <2>2, <2>3, <2>4
<1>9. CASE /\ account[u].status = "none" /\ account[u].id < MaxIds
           /\ holder' = PidOf(p) /\ UNCHANGED account
           /\ \E q : Advances(p, q, "call")
  <2>1. PICK q : Advances(p, q, "call")  BY <1>9
  <2>2. Works(q)'
    BY <1>1, <1>3, <1>9, <2>1 DEF Works, Advances, Places, StatusOf
  <2>3. AtWork' /\ Stepped' /\ OneEach(procs')
    BY <1>3, <1>9, <2>1, <2>2, OthersRemain, StandingStays
  <2>4. Loose'  BY <1>2, <1>3, <1>9, TypesAre DEF Loose, PidOf, Pid, Proc
  <2>. QED  BY <1>2, <1>3, <2>3, <2>4, TypesAre DEF Sound
<1>. QED  BY <1>1, <1>2, <1>7, <1>8, <1>9, CallbackEntersDoes

\* A step is added.
LEMMA AddedStep ==
    ASSUME Sound, NEW u \in User, NEW kind \in {"renewal", "cleanup"}, NEW key \in Key,
           NEW runAt \in Nat, steps' = Enqueued(steps, u, kind, key, runAt)
    PROVE  /\ WellKept(steps') /\ steps \subseteq steps' /\ \A p \in procs : CarriesStep(p)
           /\ \A t \in steps' :
                 \/ t \in steps
                 \/ /\ Fresh(t) /\ t.user = u /\ t.kind = kind /\ t.key = key /\ t.runAt = runAt
                    /\ \A s \in steps : ~(s.user = u /\ s.kind = kind /\ s.key = key)
           /\ \E t \in steps' : t.user = u /\ t.kind = kind /\ t.key = key
<1>1. PICK ss : ss = steps  OBVIOUS
<1>2. WellKept(ss)  BY <1>1, TypesAre DEF Sound
<1>3. steps' = Enqueued(ss, u, kind, key, runAt)  BY <1>1
<1>4. /\ WellKept(steps') /\ ss \subseteq steps'
      /\ \A t \in steps' :
            \/ t \in ss
            \/ /\ Fresh(t) /\ t.user = u /\ t.kind = kind /\ t.key = key /\ t.runAt = runAt
               /\ \A s \in ss : ~(s.user = u /\ s.kind = kind /\ s.key = key)
      /\ \E t \in steps' : t.user = u /\ t.kind = kind /\ t.key = key
  BY <1>2, <1>3, EnqueuedKept
<1>5. \A p \in procs : CarriesStep(p)
  BY <1>1, <1>4 DEF CarriesStep, Kept, Sound, TypeOK
<1>. QED  BY <1>1, <1>4, <1>5

\* The steps are grounded when one is added to them.
LEMMA AddedIsGrounded ==
    ASSUME Sound, NEW u \in User, NEW kind \in {"renewal", "cleanup"}, NEW key \in Key,
           NEW runAt \in Nat, steps' = Enqueued(steps, u, kind, key, runAt),
           \A s \in steps : SameStanding(s.user), account'[u].status # "none",
           kind = "cleanup" => account'[u].status = "disconnected" /\ key = NoKey,
           \A s \in steps, p \in procs : IsOf(s, p) => \E q \in procs' : IsOf(s, q)
    PROVE  Stepped'
<1>. SUFFICES ASSUME NEW t \in steps' PROVE Grounded(t)'
  BY DEF Stepped
<1>1. CASE t \in steps
  <2>1. Wanes(t, t)  BY <1>1 DEF Wanes, Kept, Sound, TypeOK
  <2>. QED  BY <1>1, <2>1, StaysGrounded
<1>2. CASE Fresh(t) /\ t.user = u /\ t.kind = kind /\ t.key = key
  BY <1>2, FreshIsGrounded
<1>. QED  BY <1>1, <1>2, AddedStep

\* CallbackSaves keeps the first layer.
LEMMA CallbackSavesKeeps ==
    ASSUME Sound, NEW p \in procs, CallbackSaves(p)
    PROVE  Sound'
<1>1. PICK u : u = p.user  OBVIOUS
<1>2. p \in Proc /\ u \in User /\ TypeOK /\ account[u] \in Account
  BY <1>1 DEF Sound, TypeOK, Proc
<1>3. /\ UNCHANGED <<today, registered, grant, spent>>
      /\ p.kind = "callback" /\ p.at = "save" /\ Holds(p) /\ holder' = Free
      /\ account' = [account EXCEPT ![u] = Started(p)]
      /\ steps' = WithDaily(steps, u, p.renewed)
      /\ Ends(p)
  BY <1>1, <1>2, CallbackSavesDoes
<1>4. account[u].id < MaxIds /\ account[u].status = "none"
  BY <1>1, <1>3 DEF Sound, AtWork, Works, StatusOf
<1>5. \A s \in steps : s.user # u  BY <1>4 DEF Sound, Stepped, Grounded
<1>6. PICK a : a = Started(p)  OBVIOUS
<1>7. a \in Account /\ a.status = "connected"
  <2>1. NoKey \in Key  BY DEF NoKey, Key
  <2>2. PICK i : i = account[u].id + 1  OBVIOUS
  <2>3. i \in 0 .. MaxIds
    BY <1>2, <1>4, <2>2, ConnectionsAssumption DEF Account
  <2>4. a = [status |-> "connected", id |-> i, expires |-> p.expires, renewed |-> p.renewed,
             building |-> TRUE, failed |-> NoKey, restored |-> FALSE]
    BY <1>1, <1>6, <2>2 DEF Started
  <2>. QED  BY <1>2, <2>1, <2>3, <2>4 DEF Account, Proc
<1>8. account' \in [User -> Account] /\ account'[u].status = "connected"
      /\ \A v \in User : v # u => account'[v] = account[v]
  BY <1>2, <1>3, <1>6, <1>7 DEF TypeOK
<1>9. PICK k, d : k = Daily(p.renewed + 1) /\ d = p.renewed + 1  OBVIOUS
<1>10. k \in Key /\ d \in Nat /\ steps' = Enqueued(steps, u, "renewal", k, d)
  BY <1>2, <1>3, <1>9 DEF Daily, Key, Proc, WithDaily
<1>11. \A s \in steps : SameStanding(s.user)
  BY <1>5, <1>8 DEF SameStanding, Sound, TypeOK, Step
<1>12. \A s \in steps, r \in procs : IsOf(s, r) => \E q \in procs' : IsOf(s, q)
  BY <1>1, <1>3, <1>5 DEF IsOf, Ends
<1>13. Stepped'  BY <1>2, <1>8, <1>10, <1>11, <1>12, AddedIsGrounded
<1>14. ASSUME NEW r \in procs, r # p PROVE Works(r)'
  <2>0. r \in Proc /\ r.user \in User /\ Works(r)
    BY DEF Sound, TypeOK, Proc, AtWork
  <2>1. CarriesStep(r)  BY <1>2, <1>10, AddedStep
  <2>2. CASE r.user # u
    <3>1. SameStanding(r.user)  BY <1>8, <2>0, <2>2 DEF SameStanding
    <3>2. r.kind = "renewal" => ~Running(r.user, "cleanup")'
      BY <1>3, <2>0 DEF Works, Running, Ends
    <3>3. Holds(r)' => Holds(r)  BY <1>3 DEF Holds, PidOf, Free
    <3>. QED  BY <1>3, <2>1, <3>1, <3>2, <3>3, Remains
  <2>3. CASE r.user = u
    <3>1. r.kind = "page"
      BY <1>1, <1>3, <1>4, <1>14, <2>0, <2>3 DEF Works, StatusOf, Sound, TypeOK, Proc, Kind
    <3>. QED  BY <1>3, <2>0, <3>1 DEF Works
  <2>. QED  BY <2>2, <2>3
<1>15. AtWork' /\ OneEach(procs')
  BY <1>3, <1>14, EndsIs, TypesAre DEF AtWork, Sound
<1>16. Loose'  BY <1>2, <1>3, <1>8, TypesAre DEF Loose
<1>17. WellKept(steps')  BY <1>2, <1>10, AddedStep
<1>. QED  BY <1>13, <1>15, <1>16, <1>17, TypesAre DEF Sound

\* Disconnect keeps the first layer.
LEMMA DisconnectKeeps ==
    ASSUME Sound, NEW u \in User, Disconnect(u)
    PROVE  Sound'
<1>1. TypeOK /\ account[u] \in Account /\ account \in [User -> Account]
  BY DEF Sound, TypeOK
<1>2. /\ UNCHANGED <<today, registered, grant, procs, holder>>
      /\ account[u].status \in {"connected", "reconnect_required"}
      /\ account' = [account EXCEPT ![u].status = "disconnected"]
      /\ steps' = Enqueued(steps, u, "cleanup", NoKey, today)
  BY <1>1, DisconnectDoes
<1>3. PICK a : a = [account[u] EXCEPT !.status = "disconnected"]  OBVIOUS
<1>4. a \in Account /\ a.status = "disconnected" /\ a.id = account[u].id
  BY <1>1, <1>3 DEF Account
<1>5. account' \in [User -> Account] /\ account'[u].status = "disconnected"
      /\ \A v \in User : SameStanding(v)
  BY <1>1, <1>2, <1>3, <1>4 DEF SameStanding
<1>6. NoKey \in Key  BY DEF NoKey, Key
<1>7. today \in Nat  BY <1>1, ConnectionsAssumption DEF TypeOK
<1>8. WellKept(steps') /\ \A p \in procs : CarriesStep(p)
  <2>1. PICK d : d = today  OBVIOUS
  <2>. QED  BY <1>2, <1>6, <1>7, <2>1, AddedStep
<1>9. Stepped'
  <2>1. PICK d : d = today  OBVIOUS
  <2>2. \A s \in steps : s.user \in User  BY <1>1 DEF TypeOK, Step
  <2>. QED  BY <1>2, <1>5, <1>6, <1>7, <2>1, <2>2, AddedIsGrounded
<1>10. ASSUME NEW r \in procs PROVE Works(r)'
  <2>1. r.user \in User  BY <1>1 DEF TypeOK, Proc
  <2>2. r.kind = "renewal" => ~Running(r.user, "cleanup")'
    BY <1>2 DEF Sound, AtWork, Works, Running
  <2>3. Holds(r)' => Holds(r)  BY <1>2 DEF Holds
  <2>. QED  BY <1>2, <1>5, <1>8, <2>1, <2>2, <2>3, Remains
<1>11. Loose'
  BY <1>1, <1>2, <1>5, TypesAre, SpendsTyped DEF Loose, Disconnect, Counters
<1>. QED  BY <1>1, <1>2, <1>8, <1>9, <1>10, <1>11, TypesAre DEF Sound, AtWork

\* RecoveryDay is a day.
LEMMA RecoveryDayIs ==
    ASSUME TypeOK, NEW u \in User
    PROVE  /\ RecoveryDay(u) \in Nat /\ RecoveryDay(u) >= today /\ RecoveryDay(u) <= today + 1
           /\ account[u].expires > today => RecoveryDay(u) < account[u].expires
<1>1. today \in Nat /\ account[u].expires \in Nat
  BY ConnectionsAssumption DEF TypeOK, Account
<1>2. PICK d \in Nat, e \in Nat : d = today /\ e = account[u].expires  BY <1>1
<1>3. CASE d + 1 < e - 1  BY <1>2, <1>3 DEF RecoveryDay, Later, Earlier
<1>4. CASE ~(d + 1 < e - 1)
  <2>1. RecoveryDay(u) = IF d > e - 1 THEN d ELSE e - 1
    BY <1>2, <1>4 DEF RecoveryDay, Later, Earlier
  <2>. QED  BY <1>2, <1>4, <2>1
<1>. QED  BY <1>3, <1>4

\* The key of a recovery.
LEMMA RecoveryOfIs ==
    ASSUME NEW key \in Key
    PROVE  /\ RecoveryOf(key) \in Key /\ RecoveryOf(key).day = key.day
           /\ key.recovery >= 0 => RecoveryOf(key).recovery = key.recovery + 1
           /\ key.recovery < 0 => RecoveryOf(key).recovery = key.recovery - 1
<1>1. PICK n : n = IF key.recovery < 0 THEN key.recovery - 1 ELSE key.recovery + 1
  OBVIOUS
<1>2. n \in Int /\ (key.recovery >= 0 => n = key.recovery + 1)
      /\ (key.recovery < 0 => n = key.recovery - 1)
  BY <1>1 DEF Key
<1>3. RecoveryOf(key) = [key EXCEPT !.recovery = n]  BY <1>1 DEF RecoveryOf
<1>. QED  BY <1>2, <1>3 DEF Key

\* ensureDailyGmailWatchRenewals.
LEMMA EnsureDailyDoes ==
    ASSUME TypeOK, NEW u \in User, EnsureDaily(u)
    PROVE  /\ UNCHANGED <<today, registered, grant, account, procs, holder, spent>>
           /\ Connected(u) /\ ~Running(u, "renewal") /\ OpenRenewals(u) = {}
           /\ \E key \in Key : steps' = Enqueued(steps, u, "renewal", key, RecoveryDay(u))
<1>1. account[u] \in Account  BY DEF TypeOK
<1>2. PICK key : key = IF account[u].failed = NoKey THEN [day |-> account[u].renewed, recovery |-> -1]
                       ELSE RecoveryOf(account[u].failed)
  OBVIOUS
<1>3. PICK f \in Key : f = account[u].failed  BY <1>1 DEF Account
<1>4. key \in Key  BY <1>1, <1>2, <1>3, RecoveryOfIs DEF Account, Key
<1>. QED  BY <1>2, <1>4 DEF EnsureDaily, WithRecovery

\* EnsureDaily keeps the first layer.
LEMMA EnsureDailyKeeps ==
    ASSUME Sound, NEW u \in User, EnsureDaily(u)
    PROVE  Sound'
<1>1. TypeOK  BY DEF Sound
<1>2. UNCHANGED <<today, registered, grant, account, procs, holder, spent>> /\ Connected(u)
  BY <1>1, EnsureDailyDoes
<1>3. PICK key \in Key : steps' = Enqueued(steps, u, "renewal", key, RecoveryDay(u))
  BY <1>1, EnsureDailyDoes
<1>4. PICK d : d = RecoveryDay(u)  OBVIOUS
<1>5. d \in Nat /\ steps' = Enqueued(steps, u, "renewal", key, d)
  BY <1>1, <1>3, <1>4, RecoveryDayIs
<1>6. WellKept(steps') /\ \A p \in procs : CarriesStep(p)  BY <1>5, AddedStep
<1>7. \A v \in User : SameStanding(v)  BY <1>2, StandingStays
<1>8. \A s \in steps : SameStanding(s.user)  BY <1>1, <1>7 DEF TypeOK, Step
<1>9. account'[u].status # "none"  BY <1>2 DEF Connected
<1>10. \A s \in steps, p \in procs : IsOf(s, p) => \E q \in procs' : IsOf(s, q)
  BY <1>2
<1>11. Stepped'  BY <1>5, <1>8, <1>9, <1>10, AddedIsGrounded
<1>12. ASSUME NEW r \in procs PROVE Works(r)'
  <2>1. r.user \in User  BY <1>1 DEF TypeOK, Proc
  <2>2. r.kind = "renewal" => ~Running(r.user, "cleanup")'
    BY <1>2 DEF Sound, AtWork, Works, Running
  <2>3. Holds(r)' => Holds(r)  BY <1>2 DEF Holds
  <2>. QED  BY <1>2, <1>6, <1>7, <2>1, <2>2, <2>3, Remains
<1>13. Loose'  BY <1>1, <1>2, TypesAre DEF Loose
<1>. QED  BY <1>1, <1>2, <1>6, <1>11, <1>12, <1>13, TypesAre DEF Sound, AtWork

\* The steps of a connection that loses its grant.
LEMMA TerminalizedSteps ==
    ASSUME Sound, NEW u \in User, steps' = Terminalized(steps, u), \A v \in User : SameStanding(v)
    PROVE  /\ WellKept(steps') /\ \A p \in procs : CarriesStep(p)
           /\ \A t \in steps' : t.kind = "renewal" /\ t.user = u => ~Open(t)
           /\ (\A s \in steps, p \in procs : IsOf(s, p) /\ Open(s) /\ s \in steps' =>
                    s.tries < Attempts(s) \/ \E q \in procs' : IsOf(s, q)) => Stepped'
<1>1. PICK ss : ss = steps  OBVIOUS
<1>2. WellKept(ss)  BY <1>1, TypesAre DEF Sound
<1>3. /\ WellKept(steps')
      /\ \A s \in ss : \E t \in steps' :
            Wanes(s, t) /\ (s.kind # "renewal" \/ s.user # u => t = s)
      /\ \A t \in steps' : \E s \in ss :
            Wanes(s, t) /\ (~Open(t) \/ t = s)
  <2>1. steps' = Terminalized(ss, u)  BY <1>1
  <2>2. WellKept(steps')  BY <1>2, <2>1, TerminalizedIs
  <2>3. \A s \in ss : \E t \in steps' :
            Wanes(s, t) /\ (s.kind # "renewal" \/ s.user # u => t = s)
    BY <1>2, <2>1, TerminalizedIs
  <2>4. ASSUME NEW t \in steps'
        PROVE  \E s \in ss : Wanes(s, t) /\ (~Open(t) \/ t = s)
    <3>1. PICK s \in ss :
             /\ Wanes(s, t) /\ (s.kind # "renewal" \/ s.user # u => t = s)
             /\ s.kind = "renewal" /\ s.user = u /\ Open(s) => t.status = "failed"
             /\ ~Open(s) => t = s
      BY <1>2, <2>1, TerminalizedIs
    <3>. QED  BY <3>1 DEF Open
  <2>. QED  BY <2>2, <2>3, <2>4
<1>4. \A p \in procs : CarriesStep(p)
  BY <1>1, <1>3 DEF CarriesStep, Wanes, IsOf
<1>5. ASSUME \A s \in steps, p \in procs : IsOf(s, p) /\ Open(s) /\ s \in steps' =>
                  s.tries < Attempts(s) \/ \E q \in procs' : IsOf(s, q),
             NEW t \in steps'
      PROVE  Grounded(t)'
  <2>1. PICK s \in steps : Wanes(s, t) /\ (~Open(t) \/ t = s)  BY <1>1, <1>3
  <2>2. s.user \in User  BY DEF Sound, TypeOK, Step
  <2>3. Open(t) => \/ t.tries < Attempts(t)
                   \/ \A p \in procs : IsOf(s, p) => \E q \in procs' : IsOf(s, q)
    BY <1>5, <2>1
  <2>. QED  BY <2>1, <2>2, <2>3, StaysGrounded
<1>6. ASSUME NEW t \in steps', t.kind = "renewal", t.user = u PROVE ~Open(t)
  <2>1. t \in Terminalized(ss, u)  BY <1>1
  <2>2. PICK s \in ss : /\ Wanes(s, t)
                        /\ s.kind = "renewal" /\ s.user = u /\ Open(s) => t.status = "failed"
                        /\ ~Open(s) => t = s
    BY <1>2, <2>1, TerminalizedIs
  <2>3. s.kind = "renewal" /\ s.user = u  BY <1>6, <2>2 DEF Wanes, Kept
  <2>4. CASE Open(s)  BY <2>2, <2>3, <2>4 DEF Open
  <2>5. CASE ~Open(s)  BY <2>2, <2>5
  <2>. QED  BY <2>4, <2>5
<1>. QED  BY <1>3, <1>4, <1>5, <1>6 DEF Stepped

\* The loss of the grant leaves every connection its standing.
LEMMA LosesStanding ==
    ASSUME TypeOK, NEW u \in User, Loses(u)
    PROVE  account' \in [User -> Account] /\ \A v \in User : SameStanding(v)
<1>1. account[u].status \in {"none", "disconnected", "connected", "reconnect_required"}
  BY DEF TypeOK, Account
<1>. QED  BY <1>1, LosesDoes DEF SameStanding

\* MarkReconnectRequired keeps the first layer.
LEMMA MarkReconnectRequiredKeeps ==
    ASSUME Sound, NEW u \in User, MarkReconnectRequired(u)
    PROVE  Sound'
<1>1. TypeOK /\ UNCHANGED <<today, registered, grant, procs, holder, spent>> /\ Loses(u)
  BY DEF Sound, MarkReconnectRequired
<1>2. account' \in [User -> Account] /\ \A v \in User : SameStanding(v)
  BY <1>1, LosesStanding
<1>3. steps' = Terminalized(steps, u)  BY <1>1, LosesDoes
<1>4. WellKept(steps') /\ (\A p \in procs : CarriesStep(p)) /\ Stepped'
  BY <1>1, <1>2, <1>3, TerminalizedSteps
<1>5. ASSUME NEW r \in procs PROVE Works(r)'
  <2>1. r.user \in User  BY <1>1 DEF TypeOK, Proc
  <2>2. r.kind = "renewal" => ~Running(r.user, "cleanup")'
    BY <1>1 DEF Sound, AtWork, Works, Running
  <2>3. Holds(r)' => Holds(r)  BY <1>1 DEF Holds
  <2>. QED  BY <1>1, <1>2, <1>4, <2>1, <2>2, <2>3, Remains
<1>6. Loose'  BY <1>1, <1>2, TypesAre DEF Loose
<1>. QED  BY <1>1, <1>4, <1>5, <1>6, TypesAre DEF Sound, AtWork

\* PageLooks keeps the first layer.
LEMMA PageLooksKeeps ==
    ASSUME Sound, NEW u \in User, PageLooks(u)
    PROVE  Sound'
<1>1. TypeOK /\ account \in [User -> Account] /\ account[u] \in Account
  BY DEF Sound, TypeOK
<1>2. UNCHANGED <<today, registered, grant, steps, holder, spent>>
  BY <1>1, PageLooksDoes
<1>3. CASE UNCHANGED procs /\ account' = [account EXCEPT ![u].building = FALSE]
  <2>1. PICK a : a = [account[u] EXCEPT !.building = FALSE]  OBVIOUS
  <2>2. a \in Account /\ a.status = account[u].status /\ a.id = account[u].id
    BY <1>1, <2>1 DEF Account
  <2>3. account' = [account EXCEPT ![u] = a]  BY <1>1, <1>3, <2>1
  <2>4. account' \in [User -> Account] /\ \A v \in User : SameStanding(v)
    BY <1>1, <2>2, <2>3 DEF SameStanding
  <2>5. AtWork' /\ Stepped'  BY <1>2, <1>3, <2>4, AllRemain
  <2>. QED  BY <1>1, <1>2, <1>3, <2>4, <2>5, TypesAre DEF Sound, Loose
<1>4. CASE UNCHANGED account /\ \E q : Begins(q) /\ q.kind = "page" /\ q.user = u
  <2>1. PICK q : Begins(q) /\ q.kind = "page" /\ q.user = u  BY <1>4
  <2>2. \A p \in procs : CarriesStep(p)
    BY <1>2 DEF CarriesStep, Kept, Sound, TypeOK
  <2>3. Works(q)'  BY <2>1 DEF Works, Begins, Places
  <2>4. AtWork' /\ OneEach(procs')
    BY <1>2, <1>4, <2>1, <2>2, <2>3, BeginsRemain, StandingStays
  <2>5. Stepped'
    <3>1. \A p \in procs : \E r \in procs' : r.user = p.user /\ r.kind = p.kind /\ r.key = p.key
      BY <2>1 DEF Begins
    <3>. QED  BY <1>2, <1>4, <3>1, StepsStay, StandingStays
  <2>. QED  BY <1>1, <1>2, <1>4, <2>4, <2>5, TypesAre DEF Sound, Loose
<1>. QED  BY <1>1, <1>3, <1>4, PageLooksDoes

\* A step is replaced by what becomes of it.
LEMMA SwappedSteps ==
    ASSUME Sound, NEW s \in steps, NEW t, Kept(s, t), t.tries <= Attempts(t),
           steps' = Replaced(steps, s, t)
    PROVE  /\ WellKept(steps') /\ t \in steps'
           /\ \A p \in procs : ~IsOf(s, p) \/ p.kind = "renewal" \/ (Open(s) => Open(t)) => CarriesStep(p)
           /\ \A r \in steps : r # s => r \in steps'
           /\ \A r \in steps' : r = t \/ (r \in steps /\ r # s)
<1>1. PICK ss : ss = steps  OBVIOUS
<1>2. WellKept(ss)  BY <1>1, TypesAre DEF Sound
<1>3. steps' = Replaced(ss, s, t) /\ s \in ss  BY <1>1
<1>4. /\ WellKept(steps') /\ t \in steps'
      /\ \A r \in ss : r # s => r \in steps'
      /\ \A r \in steps' : r = t \/ (r \in ss /\ r # s)
  BY <1>2, <1>3, ReplacedIs
<1>5. ASSUME NEW p \in procs, ~IsOf(s, p) \/ p.kind = "renewal" \/ (Open(s) => Open(t))
      PROVE  CarriesStep(p)
  <2>1. ASSUME NEW r \in steps, IsOf(r, p), p.kind \in {"renewal", "cleanup"}
        PROVE  \E q \in steps' : Kept(r, q) /\ (p.kind = "cleanup" /\ Open(r) => Open(q))
    <3>1. CASE r = s  BY <1>4, <1>5, <2>1, <3>1
    <3>2. CASE r # s
      <4>1. r \in steps' /\ Kept(r, r)
        BY <1>1, <1>4, <3>2 DEF Kept, Sound, TypeOK
      <4>. QED  BY <4>1
    <3>. QED  BY <3>1, <3>2
  <2>. QED  BY <2>1 DEF CarriesStep
<1>. QED  BY <1>1, <1>4, <1>5

\* The steps are grounded when one of them is replaced.
LEMMA SwappedIsGrounded ==
    ASSUME Sound, NEW s \in steps, NEW t, Wanes(s, t), t.tries <= Attempts(t),
           steps' = Replaced(steps, s, t), \A v \in User : SameStanding(v),
           \A r \in steps, p \in procs : r # s /\ IsOf(r, p) => \E q \in procs' : IsOf(r, q),
           Open(t) => \/ t.tries < Attempts(t)
                      \/ \A p \in procs : IsOf(s, p) => \E q \in procs' : IsOf(s, q)
    PROVE  Stepped'
<1>. SUFFICES ASSUME NEW r \in steps' PROVE Grounded(r)'
  BY DEF Stepped
<1>1. s.user \in User  BY DEF Sound, TypeOK, Step
<1>2. CASE r = t  BY <1>1, <1>2, StaysGrounded
<1>3. CASE r \in steps /\ r # s
  <2>1. Wanes(r, r) /\ r.user \in User
    BY <1>3 DEF Wanes, Kept, Sound, TypeOK, Step
  <2>. QED  BY <1>3, <2>1, StaysGrounded
<1>. QED  BY <1>2, <1>3, SwappedSteps DEF Wanes

\* What wanes has no more attempts than it is allowed.
LEMMA WanesWithin ==
    ASSUME Sound, NEW s \in steps, NEW t, Wanes(s, t)
    PROVE  t.tries <= Attempts(t)
BY TypesAre DEF Sound, WellKept, Wanes, Kept, Attempts

\* An attempt has one step, and a step one attempt.
LEMMA OneStep ==
    ASSUME Sound
    PROVE  /\ \A s, r \in steps, p \in procs : IsOf(s, p) /\ IsOf(r, p) => s = r
           /\ \A s \in steps, p, q \in procs : IsOf(s, p) /\ IsOf(s, q) => p = q
BY DEF IsOf, Sound, TypeOK

\* The attempt of a renewal ends with its step.
LEMMA StepEndsKeeps ==
    ASSUME Sound, NEW p \in procs, p.kind = "renewal", StepEnds(p), Ends(p),
           UNCHANGED <<today, account>>, holder' \in {holder, Free}
    PROVE  AtWork' /\ Stepped' /\ OneEach(procs') /\ WellKept(steps')
<1>1. PICK s \in steps, t \in Step :
        IsOf(s, p) /\ Wanes(s, t) /\ ~Open(t) /\ steps' = Replaced(steps, s, t)
  BY DEF StepEnds
<1>2. t.tries <= Attempts(t) /\ Kept(s, t)  BY <1>1, WanesWithin DEF Wanes
<1>3. \A r \in procs : r # p => ~IsOf(s, r)  BY <1>1, OneStep
<1>4. \A r \in procs : r # p => CarriesStep(r)
  BY <1>1, <1>2, <1>3, SwappedSteps
<1>5. \A v \in User : SameStanding(v)  BY StandingStays
<1>6. AtWork' /\ OneEach(procs')
  <2>1. \A r \in procs : r.user \in User  BY DEF Sound, TypeOK, Proc
  <2>. QED  BY <1>4, <1>5, <2>1, EndsRemain
<1>7. \A r \in steps, q \in procs : r # s /\ IsOf(r, q) => \E x \in procs' : IsOf(r, x)
  <2>1. \A r \in steps : r # s => ~IsOf(r, p)  BY <1>1, OneStep
  <2>. QED  BY <2>1 DEF Ends
<1>8. Stepped'  BY <1>1, <1>2, <1>5, <1>7, SwappedIsGrounded
<1>9. WellKept(steps')  BY <1>1, <1>2, SwappedSteps
<1>. QED  BY <1>6, <1>8, <1>9

\* StartStep keeps the first layer.
LEMMA StartStepKeeps ==
    ASSUME Sound, NEW s \in steps, StartStep(s)
    PROVE  Sound'
<1>1. TypeOK /\ s \in Step /\ Grounded(s)  BY DEF Sound, TypeOK, Stepped
<1>2. UNCHANGED <<today, registered, grant, account, holder, spent>>
      /\ ~Running(s.user, "renewal") /\ ~Running(s.user, "cleanup") /\ s.runAt <= today
  BY <1>1, StartStepDoes
<1>3. \A p \in procs : ~IsOf(s, p)  BY <1>1, <1>2 DEF IsOf, Running, Step
<1>4. Loose' /\ \A v \in User : SameStanding(v)
  BY <1>1, <1>2, TypesAre, StandingStays DEF Loose
<1>5. ASSUME /\ Open(s) /\ (s.kind = "cleanup" \/ Connected(s.user))
             /\ \E t \in Step : /\ Kept(s, t) /\ t.status = s.status /\ t.live = s.live
                                /\ t.tries = s.tries + 1 /\ steps' = Replaced(steps, s, t)
             /\ \E q : Begins(q) /\ IsOf(s, q)
      PROVE  Sound'
  <2>1. PICK t \in Step : /\ Kept(s, t) /\ t.status = s.status
                          /\ t.tries = s.tries + 1 /\ steps' = Replaced(steps, s, t)
    BY <1>5
  <2>2. PICK q : Begins(q) /\ IsOf(s, q)  BY <1>5
  <2>3. s.tries < Attempts(s)  BY <1>1, <1>3, <1>5 DEF Grounded
  <2>4. t.tries <= Attempts(t)
    BY <1>1, <2>1, <2>3, ConnectionsAssumption DEF Kept, Attempts, Step
  <2>5. Open(t)  BY <1>5, <2>1 DEF Open
  <2>6. WellKept(steps') /\ t \in steps' /\ (\A p \in procs : CarriesStep(p))
        /\ \A r \in steps' : r = t \/ (r \in steps /\ r # s)
    BY <1>3, <2>1, <2>4, SwappedSteps
  <2>7. q.kind = s.kind /\ q.user = s.user /\ q.key = s.key  BY <2>2 DEF IsOf
  <2>8. Works(q)'
    <3>1. IsOf(t, q)  BY <2>1, <2>7 DEF IsOf, Kept
    <3>2. (\E r \in steps : IsOf(r, q) /\ r.runAt <= today)' /\ (\E r \in steps : IsOf(r, q) /\ Open(r))'
      BY <1>2, <2>1, <2>5, <2>6, <3>1 DEF Kept, IsOf, Open
    <3>3. q.kind = "cleanup" => StatusOf(q)' = "disconnected"
      BY <1>1, <1>2, <2>7 DEF Grounded, StatusOf
    <3>4. q.kind = "renewal" => StatusOf(q)' # "none" /\ ~Running(q.user, "cleanup")'
      <4>1. StatusOf(q)' # "none"  BY <1>1, <1>2, <2>7 DEF Grounded, StatusOf
      <4>2. PICK u, k : u = q.user /\ k = "cleanup"  OBVIOUS
      <4>3. q.kind = "renewal" => ~Running(u, k)'
        BY <1>1, <1>2, <2>2, <2>7, <4>2, BeginsIs, TypesAre
      <4>. QED  BY <4>1, <4>2, <4>3
    <3>5. q.at = "lock" /\ q.kind \in {"renewal", "cleanup"}
      BY <1>1, <2>2, <2>7 DEF Begins, Step
    <3>. QED  BY <3>2, <3>3, <3>4, <3>5 DEF Works, Places
  <2>9. AtWork' /\ OneEach(procs')
    BY <1>2, <1>4, <2>2, <2>6, <2>7, <2>8, BeginsRemain
  <2>10. Stepped'
    <3>. SUFFICES ASSUME NEW r \in steps' PROVE Grounded(r)'
      BY DEF Stepped
    <3>1. CASE r = t
      <4>1. IsOf(t, q) /\ q \in procs'
        BY <2>1, <2>2, <2>7 DEF IsOf, Kept, Begins
      <4>2. account[t.user].status # "none"
            /\ (t.kind = "cleanup" => account[t.user].status = "disconnected" /\ t.key = NoKey)
        BY <1>1, <2>1 DEF Grounded, Kept
      <4>. QED  BY <1>2, <3>1, <4>1, <4>2 DEF Grounded, IsOf
    <3>2. CASE r \in steps /\ r # s
      <4>1. Wanes(r, r) /\ r.user \in User
        BY <1>1, <3>2 DEF Wanes, Kept, TypeOK, Step
      <4>2. \A p \in procs : p \in procs'  BY <2>2 DEF Begins
      <4>. QED  BY <1>4, <3>2, <4>1, <4>2, StaysGrounded
    <3>. QED  BY <2>6, <3>1, <3>2
  <2>. QED  BY <1>1, <1>4, <2>6, <2>9, <2>10, TypesAre DEF Sound
<1>6. ASSUME /\ ~(Open(s) /\ (s.kind = "cleanup" \/ Connected(s.user)))
             /\ \E t \in Step : /\ Wanes(s, t) /\ t.status = s.status /\ ~t.live
                                /\ steps' = Replaced(steps, s, t)
             /\ UNCHANGED procs
      PROVE  Sound'
  <2>1. PICK t \in Step : /\ Wanes(s, t) /\ t.status = s.status
                          /\ steps' = Replaced(steps, s, t)
    BY <1>6
  <2>2. t.tries <= Attempts(t) /\ Kept(s, t)  BY <2>1, WanesWithin DEF Wanes
  <2>3. WellKept(steps') /\ (\A p \in procs : CarriesStep(p))
    BY <1>3, <2>1, <2>2, SwappedSteps
  <2>4. Stepped'  BY <1>4, <1>6, <2>1, <2>2, SwappedIsGrounded
  <2>5. ASSUME NEW r \in procs PROVE Works(r)'
    <3>1. r.user \in User  BY <1>1 DEF TypeOK, Proc
    <3>2. r.kind = "renewal" => ~Running(r.user, "cleanup")'
      BY <1>6 DEF Sound, AtWork, Works, Running
    <3>3. Holds(r)' => Holds(r)  BY <1>2 DEF Holds
    <3>. QED  BY <1>2, <1>4, <2>3, <3>1, <3>2, <3>3, Remains
  <2>. QED  BY <1>1, <1>4, <1>6, <2>3, <2>4, <2>5, TypesAre DEF Sound, AtWork
<1>7. \/ /\ Open(s) /\ (s.kind = "cleanup" \/ Connected(s.user))
         /\ \E t \in Step : /\ Kept(s, t) /\ t.status = s.status /\ t.live = s.live
                            /\ t.tries = s.tries + 1 /\ steps' = Replaced(steps, s, t)
         /\ \E q : Begins(q) /\ IsOf(s, q)
      \/ /\ ~(Open(s) /\ (s.kind = "cleanup" \/ Connected(s.user)))
         /\ \E t \in Step : /\ Wanes(s, t) /\ t.status = s.status /\ ~t.live
                            /\ steps' = Replaced(steps, s, t)
         /\ UNCHANGED procs
  BY <1>1, StartStepDoes
<1>. QED  BY <1>5, <1>6, <1>7

\* An attempt that goes on works still, when what it found lasts.
LEMMA AdvancesWorks ==
    ASSUME Sound, UNCHANGED <<today, steps>>, NEW p \in procs, NEW q, NEW at, Advances(p, q, at),
           at \in Places[p.kind], SameStanding(p.user), p.kind # "callback",
           at = "save" => q.expires = today + Lifetime,
           at \in {"save", "schedule"} => q.renewed = today
    PROVE  Works(q)'
<1>1. /\ Works(p) /\ q.user = p.user /\ q.kind = p.kind /\ q.key = p.key /\ q.at = at
  BY DEF Sound, AtWork, Advances
<1>2. q.kind = "renewal" => ~Running(q.user, "cleanup")'
  BY <1>1, AdvancesIs, TypesAre DEF Works, Sound
<1>3. q.kind \in {"renewal", "cleanup"} => (\E s \in steps : IsOf(s, q) /\ s.runAt <= today)'
  BY <1>1 DEF Works, IsOf
<1>4. q.kind = "cleanup" => (StatusOf(q) = "disconnected" /\ \E s \in steps : IsOf(s, q) /\ Open(s))'
  BY <1>1 DEF Works, IsOf, StatusOf, SameStanding, Open
<1>5. q.kind = "renewal" => (StatusOf(q) # "none")'
  BY <1>1 DEF Works, StatusOf, SameStanding
<1>. QED  BY <1>1, <1>2, <1>3, <1>4, <1>5 DEF Works

\* RenewalEnters keeps the first layer.
LEMMA RenewalEntersKeeps ==
    ASSUME Sound, NEW p \in procs, RenewalEnters(p)
    PROVE  Sound'
<1>1. p \in Proc /\ TypeOK  BY DEF Sound, TypeOK
<1>2. /\ UNCHANGED <<today, registered, grant, account, spent>>
      /\ p.kind \in {"renewal", "page"} /\ p.at = "lock" /\ holder = Free
  BY RenewalEntersDoes
<1>3. \A v \in User : SameStanding(v)  BY <1>2, StandingStays
<1>4. CASE holder' = PidOf(p) /\ UNCHANGED steps /\ \E q : Advances(p, q, "call")
  <2>1. PICK q : Advances(p, q, "call")  BY <1>4
  <2>2. Works(q)'
    <3>1. "call" \in Places[p.kind] /\ p.user \in User
      BY <1>1, <1>2 DEF Places, Proc
    <3>. QED  BY <1>2, <1>3, <1>4, <2>1, <3>1, AdvancesWorks
  <2>3. AtWork' /\ Stepped' /\ OneEach(procs')
    BY <1>2, <1>3, <1>4, <2>1, <2>2, OthersRemain
  <2>4. Loose'  BY <1>1, <1>2, <1>4, TypesAre DEF Loose, PidOf, Pid, Proc
  <2>. QED  BY <1>1, <1>4, <2>3, <2>4, TypesAre DEF Sound
<1>5. CASE Ends(p) /\ UNCHANGED holder /\ p.kind = "renewal" /\ StepEnds(p)
  <2>1. AtWork' /\ Stepped' /\ OneEach(procs') /\ WellKept(steps')
    BY <1>2, <1>5, StepEndsKeeps
  <2>. QED  BY <1>1, <1>2, <1>5, <2>1, TypesAre DEF Sound, Loose
<1>6. CASE Ends(p) /\ UNCHANGED holder /\ p.kind = "page" /\ UNCHANGED steps
  <2>1. \A r \in procs : r.user \in User /\ CarriesStep(r)
    BY <1>1, <1>6 DEF CarriesStep, Kept, TypeOK, Proc
  <2>2. AtWork' /\ OneEach(procs')  BY <1>2, <1>3, <1>6, <2>1, EndsRemain
  <2>3. Stepped'
    <3>. SUFFICES ASSUME NEW s \in steps PROVE Grounded(s)'
      BY <1>6 DEF Stepped
    <3>1. Wanes(s, s) /\ s.user \in User /\ ~IsOf(s, p)
      BY <1>1, <1>6 DEF Wanes, Kept, TypeOK, Step, IsOf
    <3>2. \A r \in procs : IsOf(s, r) => r \in procs'  BY <1>6, <3>1 DEF Ends
    <3>. QED  BY <1>3, <3>1, <3>2, StaysGrounded
  <2>. QED  BY <1>1, <1>2, <1>6, <2>2, <2>3, TypesAre DEF Sound, Loose
<1>. QED  BY <1>4, <1>5, <1>6, RenewalEntersDoes

\* StartWatch keeps the first layer.
LEMMA StartWatchKeeps ==
    ASSUME Sound, NEW p \in procs, StartWatch(p)
    PROVE  Sound'
<1>1. p \in Proc /\ TypeOK /\ Works(p)  BY DEF Sound, TypeOK, AtWork
<1>2. /\ UNCHANGED <<today, grant, account, steps, holder, spent>>
      /\ p.kind # "cleanup" /\ p.at = "call" /\ registered' = today + Lifetime
  BY <1>1, StartWatchDoes
<1>3. PICK q : Advances(p, q, "save") /\ q.expires = today + Lifetime /\ q.renewed = today
  BY <1>1, StartWatchDoes
<1>4. \A v \in User : SameStanding(v)  BY <1>2, StandingStays
<1>5. Works(q)'
  <2>1. CASE p.kind = "callback"
    <3>1. q.user = p.user /\ q.kind = "callback" /\ q.at = "save" /\ (Holds(q)' => Holds(p))
      BY <1>2, <1>3, <2>1 DEF Advances, Holds, PidOf
    <3>2. (account[q.user].id < MaxIds /\ (Holds(q) => StatusOf(q) = "none"))'
      BY <1>1, <1>2, <2>1, <3>1 DEF Works, StatusOf
    <3>. QED  BY <1>2, <1>3, <3>1, <3>2 DEF Works, Places
  <2>2. CASE p.kind # "callback"
    <3>1. "save" \in Places[p.kind] /\ p.user \in User
      BY <1>1, <1>2, <2>2 DEF Places, Proc, Kind
    <3>. QED  BY <1>2, <1>3, <1>4, <2>2, <3>1, AdvancesWorks
  <2>. QED  BY <2>1, <2>2
<1>6. AtWork' /\ Stepped' /\ OneEach(procs')
  BY <1>2, <1>3, <1>4, <1>5, OthersRemain
<1>7. Loose'  BY <1>1, <1>2, TypesAre, ConnectionsAssumption DEF Loose
<1>. QED  BY <1>1, <1>2, <1>6, <1>7, TypesAre DEF Sound

\* RenewalSaves keeps the first layer.
LEMMA RenewalSavesKeeps ==
    ASSUME Sound, NEW p \in procs, RenewalSaves(p)
    PROVE  Sound'
<1>1. p \in Proc /\ TypeOK /\ Works(p)  BY DEF Sound, TypeOK, AtWork
<1>2. /\ UNCHANGED <<today, registered, grant, steps, spent>>
      /\ p.kind \in {"renewal", "page"} /\ p.at = "save" /\ holder' = Free
      /\ account' \in [User -> Account]
  BY <1>1, RenewalSavesDoes
<1>3. \A v \in User : SameStanding(v)
  <2>1. \A v \in User : v # p.user => account'[v] = account[v]
    BY <1>1, RenewalSavesDoes
  <2>2. account'[p.user].status = account[p.user].status /\ account'[p.user].id = account[p.user].id
    BY <1>1, RenewalSavesDoes
  <2>. QED  BY <2>1, <2>2 DEF SameStanding
<1>4. Loose'  BY <1>1, <1>2, TypesAre DEF Loose
<1>5. CASE p.kind = "page" /\ Ends(p)
  <2>1. \A r \in procs : r.user \in User /\ CarriesStep(r)
    BY <1>1, <1>2 DEF CarriesStep, Kept, TypeOK, Proc
  <2>2. AtWork' /\ OneEach(procs')  BY <1>2, <1>3, <1>5, <2>1, EndsRemain
  <2>3. Stepped'
    <3>. SUFFICES ASSUME NEW s \in steps PROVE Grounded(s)'
      BY <1>2 DEF Stepped
    <3>1. Wanes(s, s) /\ s.user \in User /\ ~IsOf(s, p)
      BY <1>1, <1>5 DEF Wanes, Kept, TypeOK, Step, IsOf
    <3>2. \A r \in procs : IsOf(s, r) => r \in procs'  BY <1>5, <3>1 DEF Ends
    <3>. QED  BY <1>3, <3>1, <3>2, StaysGrounded
  <2>. QED  BY <1>1, <1>2, <1>4, <2>2, <2>3, TypesAre DEF Sound
<1>6. CASE p.kind = "renewal" /\ \E q : Advances(p, q, "schedule") /\ q.renewed = p.renewed
  <2>1. PICK q : Advances(p, q, "schedule") /\ q.renewed = p.renewed  BY <1>6
  <2>2. Works(q)'
    <3>1. "schedule" \in Places[p.kind] /\ p.user \in User /\ q.renewed = today
      BY <1>1, <1>2, <1>6, <2>1 DEF Places, Proc, Works
    <3>. QED  BY <1>2, <1>3, <1>6, <2>1, <3>1, AdvancesWorks
  <2>3. AtWork' /\ Stepped' /\ OneEach(procs')
    BY <1>2, <1>3, <2>1, <2>2, OthersRemain
  <2>. QED  BY <1>1, <1>2, <1>4, <2>3, TypesAre DEF Sound
<1>7. \/ p.kind = "page" /\ Ends(p)
      \/ p.kind = "renewal" /\ \E q : Advances(p, q, "schedule") /\ q.renewed = p.renewed
  BY <1>1, RenewalSavesDoes
<1>. QED  BY <1>5, <1>6, <1>7

\* CleanupEnters keeps the first layer.
LEMMA CleanupEntersKeeps ==
    ASSUME Sound, NEW p \in procs, CleanupEnters(p)
    PROVE  Sound'
<1>1. p \in Proc /\ TypeOK  BY DEF Sound, TypeOK
<1>2. /\ UNCHANGED <<today, registered, grant, account, steps, spent>>
      /\ p.kind = "cleanup" /\ p.at = "lock" /\ holder' = PidOf(p)
  BY <1>1, CleanupEntersDoes
<1>3. PICK at \in {"delete", "call"} : \E q : Advances(p, q, at)
  BY <1>1, CleanupEntersDoes
<1>4. PICK q : Advances(p, q, at)  BY <1>3
<1>5. \A v \in User : SameStanding(v)  BY <1>2, StandingStays
<1>6. Works(q)'
  <2>1. at \in Places[p.kind] /\ p.user \in User  BY <1>1, <1>2 DEF Places, Proc
  <2>. QED  BY <1>2, <1>4, <1>5, <2>1, AdvancesWorks
<1>7. AtWork' /\ Stepped' /\ OneEach(procs')
  BY <1>2, <1>4, <1>5, <1>6, OthersRemain
<1>8. Loose'  BY <1>1, <1>2, TypesAre DEF Loose, PidOf, Pid, Proc
<1>. QED  BY <1>1, <1>2, <1>7, <1>8, TypesAre DEF Sound

\* StopWatch keeps the first layer.
LEMMA StopWatchKeeps ==
    ASSUME Sound, NEW p \in procs, StopWatch(p)
    PROVE  Sound'
<1>1. p \in Proc /\ TypeOK  BY DEF Sound, TypeOK
<1>2. /\ UNCHANGED <<today, grant, account, steps, holder>>
      /\ p.kind = "cleanup" /\ p.at = "call"
      /\ \/ p.user \in grant /\ registered' = 0 /\ UNCHANGED spent
         \/ UNCHANGED registered /\ spent' = [spent EXCEPT !["refusals"] = 1]
  BY <1>1, StopWatchDoes
<1>3. PICK q : Advances(p, q, "delete")  BY <1>1, StopWatchDoes
<1>4. \A v \in User : SameStanding(v)  BY <1>2, StandingStays
<1>5. Works(q)'
  <2>1. "delete" \in Places[p.kind] /\ p.user \in User
    BY <1>1, <1>2 DEF Places, Proc
  <2>. QED  BY <1>2, <1>3, <1>4, <2>1, AdvancesWorks
<1>6. AtWork' /\ Stepped' /\ OneEach(procs')
  BY <1>2, <1>3, <1>4, <1>5, OthersRemain
<1>7. Loose'  BY <1>1, <1>2, TypesAre DEF Loose
<1>. QED  BY <1>1, <1>2, <1>6, <1>7, TypesAre DEF Sound

\* RenewalSchedules keeps the first layer.
LEMMA RenewalSchedulesKeeps ==
    ASSUME Sound, NEW p \in procs, RenewalSchedules(p)
    PROVE  Sound'
<1>1. p \in Proc /\ TypeOK /\ Works(p) /\ OneEach(procs) /\ p.user \in User
  BY TypesAre DEF Sound, TypeOK, AtWork, Proc
<1>2. /\ UNCHANGED <<today, registered, grant, account, holder, spent>>
      /\ p.kind = "renewal" /\ p.at = "schedule" /\ account[p.user].status # "none"
  BY <1>1, RenewalSchedulesDoes
<1>3. PICK q : Advances(p, q, "catchup")  BY <1>1, RenewalSchedulesDoes
<1>4. PICK u, k, d : u = p.user /\ k = Daily(p.renewed + 1) /\ d = p.renewed + 1
  OBVIOUS
<1>5. u \in User /\ k \in Key /\ d \in Nat /\ steps' = Enqueued(steps, u, "renewal", k, d)
  <2>1. steps' = Enqueued(steps, u, "renewal", k, d)
    BY <1>1, <1>4, RenewalSchedulesDoes
  <2>. QED  BY <1>1, <1>4, <2>1 DEF Daily, Key, Proc
<1>6. WellKept(steps') /\ steps \subseteq steps' /\ \A r \in procs : CarriesStep(r)
  BY <1>5, AddedStep
<1>7. \A v \in User : SameStanding(v)  BY <1>2, StandingStays
<1>8. Stepped'
  <2>1. \A s \in steps : SameStanding(s.user)  BY <1>1, <1>7 DEF TypeOK, Step
  <2>2. \A s \in steps, r \in procs : IsOf(s, r) => \E x \in procs' : IsOf(s, x)
    BY <1>3 DEF Advances, IsOf
  <2>3. account'[u].status # "none"  BY <1>2, <1>4
  <2>. QED  BY <1>5, <2>1, <2>2, <2>3, AddedIsGrounded
<1>9. ASSUME NEW r \in procs, r # p PROVE Works(r)'
  <2>1. r.user \in User  BY <1>1 DEF OneEach, Proc
  <2>2. r.kind = "renewal" => ~Running(r.user, "cleanup")'
    BY <1>1, <1>3, AdvancesIs DEF Sound, AtWork, Works
  <2>3. Holds(r)' => Holds(r)  BY <1>2 DEF Holds
  <2>. QED  BY <1>2, <1>6, <1>7, <2>1, <2>2, <2>3, Remains
<1>10. Works(q)'
  <2>1. q.user = p.user /\ q.kind = "renewal" /\ q.key = p.key /\ q.at = "catchup"
    BY <1>2, <1>3 DEF Advances
  <2>2. (\E s \in steps : IsOf(s, q) /\ s.runAt <= today)'
    BY <1>1, <1>2, <1>6, <2>1 DEF Works, IsOf
  <2>3. ~Running(q.user, "cleanup")'
    BY <1>1, <1>2, <1>3, <2>1, AdvancesIs DEF Works
  <2>. QED  BY <1>2, <2>1, <2>2, <2>3 DEF Works, Places, StatusOf
<1>11. AtWork' /\ OneEach(procs')
  BY <1>1, <1>3, <1>9, <1>10, AdvancesIs DEF AtWork
<1>12. Loose'  BY <1>1, <1>2, TypesAre DEF Loose
<1>. QED  BY <1>6, <1>8, <1>11, <1>12, TypesAre DEF Sound

\* RenewalEnds keeps the first layer.
LEMMA RenewalEndsKeeps ==
    ASSUME Sound, NEW p \in procs, RenewalEnds(p)
    PROVE  Sound'
<1>1. UNCHANGED <<today, registered, grant, account, holder, spent>> /\ Ends(p)
      /\ p.kind = "renewal" /\ StepEnds(p)
  BY CompletedEnds DEF RenewalEnds
<1>2. AtWork' /\ Stepped' /\ OneEach(procs') /\ WellKept(steps')
  BY <1>1, StepEndsKeeps
<1>. QED  BY <1>1, <1>2, TypesAre DEF Sound, Loose

\* CleanupEnds keeps the first layer.
LEMMA CleanupEndsKeeps ==
    ASSUME Sound, NEW p \in procs, CleanupEnds(p)
    PROVE  Sound'
<1>1. p \in Proc /\ TypeOK /\ Works(p) /\ OneEach(procs) /\ WellKept(steps)
  BY TypesAre DEF Sound, TypeOK, AtWork
<1>2. /\ UNCHANGED <<today, registered, grant, spent>>
      /\ p.kind = "cleanup" /\ holder' = Free /\ Ends(p)
      /\ account' \in [User -> Account]
      /\ \A v \in User : v # p.user => account'[v] = account[v]
      /\ account'[p.user].id = account[p.user].id
      /\ steps' = {s \in steps : s.user # p.user}
  BY <1>1, CleanupEndsDoes
<1>3. ASSUME NEW r \in procs, r # p PROVE Works(r)'
  <2>1. r \in Proc /\ r.user \in User /\ Works(r)
    BY <1>1 DEF OneEach, Proc, Sound, AtWork
  <2>2. CASE r.user # p.user
    <3>1. SameStanding(r.user)  BY <1>2, <2>1, <2>2 DEF SameStanding
    <3>2. CarriesStep(r)
      BY <1>1, <1>2, <2>2 DEF CarriesStep, Kept, IsOf, WellKept
    <3>3. r.kind = "renewal" => ~Running(r.user, "cleanup")'
      BY <1>1, <1>2, <2>1, EndsIs DEF Works
    <3>4. Holds(r)' => Holds(r)  BY <1>2 DEF Holds, PidOf, Free
    <3>. QED  BY <1>2, <3>1, <3>2, <3>3, <3>4, Remains
  <2>3. CASE r.user = p.user
    <3>1. r.kind # "cleanup" /\ r.kind # "renewal"
      BY <1>1, <1>2, <1>3, <2>1, <2>3 DEF OneEach, Works, Running
    <3>2. ~Holds(r)'  BY <1>2 DEF Holds, PidOf, Free
    <3>. QED  BY <1>2, <2>1, <2>3, <3>1, <3>2 DEF Works
  <2>. QED  BY <2>2, <2>3
<1>4. AtWork' /\ OneEach(procs')  BY <1>1, <1>2, <1>3, EndsIs DEF AtWork
<1>5. WellKept(steps')  BY <1>1, <1>2 DEF WellKept
<1>6. Stepped'
  <2>. SUFFICES ASSUME NEW s \in steps' PROVE Grounded(s)'
    BY DEF Stepped
  <2>1. s \in steps /\ s.user # p.user /\ Wanes(s, s) /\ s.user \in User
    BY <1>1, <1>2 DEF Wanes, Kept, WellKept, Step
  <2>2. SameStanding(s.user)  BY <1>2, <2>1 DEF SameStanding
  <2>3. \A r \in procs : IsOf(s, r) => r \in procs'
    BY <1>2, <2>1 DEF IsOf, Ends
  <2>. QED  BY <2>1, <2>2, <2>3, StaysGrounded
<1>7. Loose'  BY <1>1, <1>2, TypesAre DEF Loose
<1>. QED  BY <1>4, <1>5, <1>6, <1>7, TypesAre DEF Sound

\* A step fails for good and leaves a successor.
LEMMA SucceededSteps ==
    ASSUME Sound, NEW s \in steps, NEW t, Wanes(s, t), ~Open(t), NEW u \in User, NEW key \in Key,
           NEW runAt \in Nat,
           steps' = Enqueued(Replaced(steps, s, t), u, "renewal", key, runAt)
    PROVE  /\ WellKept(steps') /\ t \in steps'
           /\ \A p \in procs : ~IsOf(s, p) => CarriesStep(p)
           /\ \A r \in steps : r # s => r \in steps'
           /\ \A r \in steps' :
                 \/ r = t \/ (r \in steps /\ r # s)
                 \/ /\ Fresh(r) /\ r.user = u /\ r.kind = "renewal" /\ r.key = key /\ r.runAt = runAt
                    /\ \A x \in steps : ~(x.user = u /\ x.kind = "renewal" /\ x.key = key)
           /\ \E r \in steps' : r.user = u /\ r.kind = "renewal" /\ r.key = key
<1>1. PICK ss : ss = steps  OBVIOUS
<1>2. PICK rr : rr = Replaced(ss, s, t)  OBVIOUS
<1>3. WellKept(ss) /\ s \in ss /\ Kept(s, t) /\ t.tries <= Attempts(t)
  BY <1>1, TypesAre, WanesWithin DEF Sound, Wanes
<1>4. /\ WellKept(rr) /\ t \in rr /\ \A r \in ss : r # s => r \in rr
      /\ \A r \in rr : r = t \/ (r \in ss /\ r # s)
  BY <1>2, <1>3, ReplacedIs
<1>5. steps' = Enqueued(rr, u, "renewal", key, runAt)  BY <1>1, <1>2
<1>6. /\ WellKept(steps') /\ rr \subseteq steps'
      /\ \A r \in steps' :
            \/ r \in rr
            \/ /\ Fresh(r) /\ r.user = u /\ r.kind = "renewal" /\ r.key = key /\ r.runAt = runAt
               /\ \A x \in rr : ~(x.user = u /\ x.kind = "renewal" /\ x.key = key)
      /\ \E r \in steps' : r.user = u /\ r.kind = "renewal" /\ r.key = key
  BY <1>4, <1>5, EnqueuedKept
<1>7. ASSUME \A x \in rr : ~(x.user = u /\ x.kind = "renewal" /\ x.key = key)
      PROVE  \A x \in ss : ~(x.user = u /\ x.kind = "renewal" /\ x.key = key)
  BY <1>3, <1>4, <1>7 DEF Kept
<1>8. ASSUME NEW p \in procs, ~IsOf(s, p) PROVE CarriesStep(p)
  <2>1. ASSUME NEW r \in steps, IsOf(r, p)
        PROVE  \E q \in steps' : Kept(r, q) /\ (p.kind = "cleanup" /\ Open(r) => Open(q))
    <3>1. r \in steps'  BY <1>1, <1>4, <1>6, <1>8, <2>1
    <3>2. Kept(r, r)  BY DEF Kept, Sound, TypeOK
    <3>. QED  BY <3>1, <3>2
  <2>. QED  BY <2>1 DEF CarriesStep
<1>. QED  BY <1>1, <1>4, <1>6, <1>7, <1>8

\* An attempt that fails keeps the first layer.
LEMMA FailsStepKeeps ==
    ASSUME Sound, NEW p \in procs, Ends(p), FailsStep(p), UNCHANGED today, holder' \in {holder, Free}
    PROVE  /\ AtWork' /\ Stepped' /\ OneEach(procs') /\ WellKept(steps')
           /\ account' \in [User -> Account] /\ \A v \in User : SameStanding(v)
<1>1. TypeOK /\ p \in Proc /\ p.user \in User /\ OneEach(procs) /\ WellKept(steps)
  BY TypesAre DEF Sound, TypeOK, Proc
<1>2. account' \in [User -> Account] /\ \A v \in User : SameStanding(v)
  <2>1. CASE UNCHANGED account  BY <1>1, <2>1, StandingStays DEF TypeOK
  <2>2. CASE account' = [account EXCEPT ![p.user].failed = p.key]
    <3>1. PICK a : a = [account[p.user] EXCEPT !.failed = p.key]  OBVIOUS
    <3>2. a \in Account /\ a.status = account[p.user].status /\ a.id = account[p.user].id
      BY <1>1, <3>1 DEF Account, TypeOK, Proc
    <3>3. account' = [account EXCEPT ![p.user] = a] /\ account \in [User -> Account]
      BY <1>1, <2>2, <3>1 DEF TypeOK
    <3>. QED  BY <3>2, <3>3 DEF SameStanding
  <2>. QED  BY <2>1, <2>2 DEF FailsStep
<1>3. ASSUME \A r \in procs : r # p => CarriesStep(r) PROVE AtWork' /\ OneEach(procs')
  <2>1. \A r \in procs : r.user \in User  BY <1>1 DEF OneEach, Proc
  <2>. QED  BY <1>2, <1>3, <2>1, EndsRemain
<1>4. \A s \in steps : s.user \in User /\ Wanes(s, s)
  BY <1>1 DEF WellKept, Step, Wanes, Kept
<1>5. ASSUME UNCHANGED steps,
             \A s \in steps : IsOf(s, p) => s.tries < Attempts(s)
      PROVE  AtWork' /\ Stepped' /\ OneEach(procs') /\ WellKept(steps')
  <2>1. \A r \in procs : CarriesStep(r)  BY <1>5, <1>4 DEF CarriesStep, Wanes
  <2>2. Stepped'
    <3>. SUFFICES ASSUME NEW s \in steps PROVE Grounded(s)'
      BY <1>5 DEF Stepped
    <3>1. Open(s) => s.tries < Attempts(s) \/ \A q \in procs : IsOf(s, q) => \E x \in procs' : IsOf(s, x)
      <4>1. CASE IsOf(s, p)  BY <1>5, <4>1
      <4>2. CASE ~IsOf(s, p)
        <5>1. \A q \in procs : IsOf(s, q) => q \in procs'  BY <4>2 DEF Ends
        <5>. QED  BY <5>1
      <4>. QED  BY <4>1, <4>2
    <3>. QED  BY <1>2, <1>4, <3>1, StaysGrounded
  <2>. QED  BY <1>1, <1>3, <1>5, <2>1, <2>2
<1>6. CASE p.kind \in {"callback", "page"} /\ UNCHANGED <<steps, account>>
  <2>1. \A s \in steps : ~IsOf(s, p)  BY <1>1, <1>6 DEF IsOf, WellKept, Step
  <2>. QED  BY <1>2, <1>5, <1>6, <2>1
<1>7. CASE UNCHANGED <<steps, account>> /\ \E s \in steps : IsOf(s, p) /\ Open(s) /\ s.tries < Attempts(s)
  <2>1. \A s \in steps : IsOf(s, p) => s.tries < Attempts(s)  BY <1>7, OneStep
  <2>. QED  BY <1>2, <1>5, <1>7, <2>1
<1>8. ASSUME NEW s \in steps, NEW t \in Step, IsOf(s, p), Wanes(s, t), ~Open(t),
             steps' = Replaced(steps, s, t)
      PROVE  AtWork' /\ Stepped' /\ OneEach(procs') /\ WellKept(steps')
  <2>1. t.tries <= Attempts(t) /\ Kept(s, t)  BY <1>8, WanesWithin DEF Wanes
  <2>2. \A r \in procs : r # p => ~IsOf(s, r)  BY <1>8, OneStep
  <2>3. WellKept(steps') /\ \A r \in procs : r # p => CarriesStep(r)
    BY <1>8, <2>1, <2>2, SwappedSteps
  <2>4. \A r \in steps, q \in procs : r # s /\ IsOf(r, q) => \E x \in procs' : IsOf(r, x)
    <3>1. \A r \in steps : r # s => ~IsOf(r, p)  BY <1>8, OneStep
    <3>. QED  BY <3>1 DEF Ends
  <2>5. Stepped'  BY <1>2, <1>8, <2>1, <2>4, SwappedIsGrounded
  <2>. QED  BY <1>3, <2>3, <2>5
<1>9. CASE \E s \in steps, t \in Step :
             IsOf(s, p) /\ ~Open(s) /\ Wanes(s, t) /\ ~t.live /\ steps' = Replaced(steps, s, t)
  BY <1>2, <1>8, <1>9 DEF Wanes, Open
<1>10. CASE \E s \in steps, t \in Step :
             IsOf(s, p) /\ Wanes(s, t) /\ t.status = "failed" /\ steps' = Replaced(steps, s, t)
  BY <1>2, <1>8, <1>10 DEF Open
<1>11. CASE \E s \in steps, t \in Step :
             /\ IsOf(s, p) /\ Wanes(s, t) /\ t.status = "failed"
             /\ p.kind = "renewal" /\ Connected(p.user)
             /\ steps' = Enqueued(Replaced(steps, s, t), p.user, "renewal",
                                  RecoveryOf(p.key), RecoveryDay(p.user))
  <2>1. PICK s \in steps, t \in Step :
             /\ IsOf(s, p) /\ Wanes(s, t) /\ t.status = "failed"
             /\ steps' = Enqueued(Replaced(steps, s, t), p.user, "renewal",
                                  RecoveryOf(p.key), RecoveryDay(p.user))
    BY <1>11
  <2>2. PICK u, key, d : u = p.user /\ key = RecoveryOf(p.key) /\ d = RecoveryDay(p.user)
    OBVIOUS
  <2>3. u \in User /\ key \in Key /\ d \in Nat
    <3>1. p.key \in Key  BY <1>1 DEF Proc
    <3>. QED  BY <1>1, <2>2, <3>1, RecoveryOfIs, RecoveryDayIs
  <2>4. ~Open(t) /\ steps' = Enqueued(Replaced(steps, s, t), u, "renewal", key, d)
    BY <2>1, <2>2 DEF Open
  <2>5. \A r \in procs : r # p => ~IsOf(s, r)  BY <2>1, OneStep
  <2>6. /\ WellKept(steps') /\ \A r \in procs : r # p => CarriesStep(r)
        /\ \A r \in steps' : \/ r = t \/ (r \in steps /\ r # s)
                             \/ Fresh(r) /\ r.user = u /\ r.kind = "renewal"
    BY <2>1, <2>3, <2>4, <2>5, SucceededSteps
  <2>7. Stepped'
    <3>. SUFFICES ASSUME NEW r \in steps' PROVE Grounded(r)'
      BY DEF Stepped
    <3>1. CASE r = t  BY <1>2, <1>4, <2>1, <2>4, <3>1, StaysGrounded
    <3>2. CASE r \in steps /\ r # s
      <4>1. ~IsOf(r, p)  BY <2>1, <3>2, OneStep
      <4>2. \A q \in procs : IsOf(r, q) => q \in procs'  BY <4>1 DEF Ends
      <4>. QED  BY <1>2, <1>4, <3>2, <4>2, StaysGrounded
    <3>3. CASE Fresh(r) /\ r.user = u /\ r.kind = "renewal"
      <4>1. account'[u].status # "none"
        BY <1>1, <1>2, <1>11, <2>2 DEF SameStanding, Connected
      <4>. QED  BY <3>3, <4>1, FreshIsGrounded
    <3>. QED  BY <2>6, <3>1, <3>2, <3>3
  <2>. QED  BY <1>2, <1>3, <2>6, <2>7
<1>. QED  BY <1>6, <1>7, <1>9, <1>10, <1>11 DEF FailsStep

\* AttemptFails keeps the first layer.
LEMMA AttemptFailsKeeps ==
    ASSUME Sound, NEW p \in procs, AttemptFails(p)
    PROVE  Sound'
<1>1. UNCHANGED <<today, registered, grant>> /\ Ends(p) /\ holder' \in {holder, Free} /\ FailsStep(p)
  BY GivesUpDoes DEF AttemptFails
<1>2. /\ AtWork' /\ Stepped' /\ OneEach(procs') /\ WellKept(steps')
      /\ account' \in [User -> Account]
  BY <1>1, FailsStepKeeps
<1>3. Loose'
  BY <1>1, <1>2, TypesAre, SpendsTyped DEF Loose, AttemptFails, Counters, Sound
<1>. QED  BY <1>2, <1>3, TypesAre DEF Sound

\* FindsLockGone keeps the first layer.
LEMMA FindsLockGoneKeeps ==
    ASSUME Sound, NEW p \in procs, FindsLockGone(p)
    PROVE  Sound'
<1>1. UNCHANGED <<today, registered, grant, spent>> /\ Ends(p) /\ holder' \in {holder, Free}
      /\ FailsStep(p)
  BY GivesUpDoes DEF FindsLockGone
<1>2. /\ AtWork' /\ Stepped' /\ OneEach(procs') /\ WellKept(steps')
      /\ account' \in [User -> Account]
  BY <1>1, FailsStepKeeps
<1>3. Loose'  BY <1>1, <1>2, TypesAre DEF Loose, Sound
<1>. QED  BY <1>2, <1>3, TypesAre DEF Sound

\* DayPasses keeps the first layer.
LEMMA DayPassesKeeps ==
    ASSUME Sound, DayPasses
    PROVE  Sound'
<1>1. TypeOK /\ procs = {} /\ today' = today + 1 /\ today < MaxDay
      /\ UNCHANGED <<registered, grant, account, steps, procs, holder, spent>>
  BY DEF Sound, DayPasses
<1>2. Loose'  BY <1>1, TypesAre, ConnectionsAssumption DEF Loose
<1>3. AtWork'  BY <1>1 DEF AtWork
<1>4. Stepped'  BY <1>1 DEF Sound, Stepped, Grounded, Open, Attempts, IsOf
<1>. QED  BY <1>1, <1>2, <1>3, <1>4, TypesAre DEF Sound

\* A cleanup finds that the grant is gone: the open renewals of the user fail with its step.
LEMMA TerminatedSteps ==
    ASSUME Sound, NEW u \in User, NEW s \in steps, s.kind = "cleanup", NEW t, Wanes(s, t),
           steps' = Replaced(Terminalized(steps, u), s, t)
    PROVE  /\ WellKept(steps') /\ t \in steps'
           /\ \A r \in steps : r # s => \E q \in steps' :
                 Wanes(r, q) /\ (r.kind # "renewal" \/ r.user # u => q = r)
           /\ \A q \in steps' :
                 \/ q = t
                 \/ \E r \in steps : r # s /\ Wanes(r, q) /\ (~Open(q) \/ q = r)
<1>1. PICK ss : ss = steps  OBVIOUS
<1>2. PICK tt : tt = Terminalized(ss, u)  OBVIOUS
<1>3. WellKept(ss) /\ Kept(s, t) /\ t.tries <= Attempts(t)
  BY <1>1, TypesAre, WanesWithin DEF Sound, Wanes
<1>4. /\ WellKept(tt)
      /\ \A r \in ss : \E q \in tt : Wanes(r, q) /\ (r.kind # "renewal" \/ r.user # u => q = r)
      /\ \A q \in tt : \E r \in ss :
            Wanes(r, q) /\ (r.kind # "renewal" \/ r.user # u => q = r) /\ (~Open(q) \/ q = r)
  <2>1. WellKept(tt)  BY <1>2, <1>3, TerminalizedIs
  <2>2. \A r \in ss : \E q \in tt : Wanes(r, q) /\ (r.kind # "renewal" \/ r.user # u => q = r)
    BY <1>2, <1>3, TerminalizedIs
  <2>3. ASSUME NEW q \in tt
        PROVE  \E r \in ss :
            Wanes(r, q) /\ (r.kind # "renewal" \/ r.user # u => q = r) /\ (~Open(q) \/ q = r)
    <3>1. PICK r \in ss :
             /\ Wanes(r, q) /\ (r.kind # "renewal" \/ r.user # u => q = r)
             /\ r.kind = "renewal" /\ r.user = u /\ Open(r) => q.status = "failed"
             /\ ~Open(r) => q = r
      BY <1>2, <1>3, TerminalizedIs
    <3>. QED  BY <3>1 DEF Open
  <2>. QED  BY <2>1, <2>2, <2>3
<1>5. s \in tt  BY <1>1, <1>4
<1>6. steps' = Replaced(tt, s, t)  BY <1>1, <1>2
<1>7. /\ WellKept(steps') /\ t \in steps'
      /\ \A r \in tt : r # s => r \in steps'
      /\ \A r \in steps' : r = t \/ (r \in tt /\ r # s)
  BY <1>3, <1>4, <1>5, <1>6, ReplacedIs
<1>8. \A r \in steps : r # s => \E q \in steps' :
          Wanes(r, q) /\ (r.kind # "renewal" \/ r.user # u => q = r)
  <2>. SUFFICES ASSUME NEW r \in steps, r # s
                PROVE  \E q \in steps' : Wanes(r, q) /\ (r.kind # "renewal" \/ r.user # u => q = r)
    OBVIOUS
  <2>1. PICK q \in tt : Wanes(r, q) /\ (r.kind # "renewal" \/ r.user # u => q = r)
    BY <1>1, <1>4
  <2>2. q # s  BY <1>1, <1>3, <2>1 DEF Wanes, Kept, WellKept
  <2>. QED  BY <1>7, <2>1, <2>2
<1>9. ASSUME NEW q \in steps', q # t
      PROVE  \E r \in steps : r # s /\ Wanes(r, q) /\ (~Open(q) \/ q = r)
  <2>1. q \in tt /\ q # s  BY <1>7, <1>9
  <2>2. PICK r \in ss : Wanes(r, q) /\ (r.kind # "renewal" \/ r.user # u => q = r) /\ (~Open(q) \/ q = r)
    BY <1>4, <2>1
  <2>3. r # s  BY <2>1, <2>2
  <2>. QED  BY <1>1, <2>2, <2>3
<1>. QED  BY <1>7, <1>8, <1>9

\* FindsGrantGone keeps the first layer.
LEMMA FindsGrantGoneKeeps ==
    ASSUME Sound, NEW p \in procs, FindsGrantGone(p)
    PROVE  Sound'
<1>1. TypeOK /\ p \in Proc /\ p.user \in User /\ OneEach(procs) /\ WellKept(steps)
  BY TypesAre DEF Sound, TypeOK, Proc
<1>2. UNCHANGED <<today, registered, grant, spent>> /\ Ends(p) /\ holder' \in {holder, Free}
  BY FindsGrantGoneDoes
<1>3. \A s \in steps : s.user \in User /\ Wanes(s, s)
  BY <1>1 DEF WellKept, Step, Wanes, Kept
<1>4. \A r \in procs : r.user \in User  BY <1>1 DEF OneEach, Proc
<1>5. ASSUME account' \in [User -> Account], \A v \in User : SameStanding(v), Stepped',
             WellKept(steps'), \A r \in procs : r # p => CarriesStep(r)
      PROVE  Sound'
  <2>1. AtWork' /\ OneEach(procs')  BY <1>2, <1>4, <1>5, EndsRemain
  <2>2. Loose'  BY <1>1, <1>2, <1>5, TypesAre DEF Loose
  <2>. QED  BY <1>5, <2>1, <2>2, TypesAre DEF Sound
<1>6. CASE p.kind = "callback" /\ UNCHANGED <<steps, account>>
  <2>1. \A r \in procs : CarriesStep(r)  BY <1>3, <1>6 DEF CarriesStep, Wanes
  <2>2. Stepped'
    <3>. SUFFICES ASSUME NEW s \in steps PROVE Grounded(s)'
      BY <1>6 DEF Stepped
    <3>1. ~IsOf(s, p)  BY <1>1, <1>6 DEF IsOf, WellKept, Step
    <3>2. \A q \in procs : IsOf(s, q) => q \in procs'  BY <1>2, <3>1 DEF Ends
    <3>. QED  BY <1>3, <1>6, <3>2, StaysGrounded, StandingStays
  <2>. QED  BY <1>1, <1>5, <1>6, <2>1, <2>2, StandingStays DEF TypeOK
<1>7. CASE p.kind \in {"renewal", "page"} /\ Loses(p.user)
  <2>1. PICK u \in User : u = p.user  BY <1>1
  <2>2. account' \in [User -> Account] /\ \A v \in User : SameStanding(v)
    BY <1>1, <1>7, <2>1, LosesStanding
  <2>3. steps' = Terminalized(steps, u)  BY <1>1, <1>7, <2>1, LosesDoes
  <2>4. WellKept(steps') /\ (\A r \in procs : CarriesStep(r))
        /\ \A t \in steps' : t.kind = "renewal" /\ t.user = u => ~Open(t)
    BY <2>2, <2>3, TerminalizedSteps
  <2>5. \A s \in steps, r \in procs : IsOf(s, r) /\ Open(s) /\ s \in steps' =>
            s.tries < Attempts(s) \/ \E q \in procs' : IsOf(s, q)
    <3>. SUFFICES ASSUME NEW s \in steps, NEW r \in procs, IsOf(s, r), Open(s), s \in steps'
                  PROVE  r \in procs'
      OBVIOUS
    <3>1. CASE r = p
      <4>1. s.user = u /\ s.kind = "renewal"
        BY <1>1, <1>7, <2>1, <3>1 DEF IsOf, WellKept, Step
      <4>. QED  BY <2>4, <4>1
    <3>2. CASE r # p  BY <1>2, <3>2 DEF Ends
    <3>. QED  BY <3>1, <3>2
  <2>6. Stepped'  BY <2>2, <2>3, <2>5, TerminalizedSteps
  <2>. QED  BY <1>5, <2>2, <2>4, <2>6
<1>8. CASE /\ p.kind = "cleanup" /\ UNCHANGED account
           /\ \E s \in steps, t \in Step :
                 /\ IsOf(s, p) /\ Wanes(s, t) /\ ~t.live /\ t.status = "failed"
                 /\ steps' = Replaced(Terminalized(steps, p.user), s, t)
  <2>1. PICK u \in User : u = p.user  BY <1>1
  <2>2. PICK s \in steps, t \in Step :
           /\ IsOf(s, p) /\ Wanes(s, t) /\ ~t.live /\ t.status = "failed"
           /\ steps' = Replaced(Terminalized(steps, u), s, t)
    BY <1>8, <2>1
  <2>3. s.kind = "cleanup"  BY <1>8, <2>2 DEF IsOf
  <2>4. /\ WellKept(steps') /\ t \in steps'
        /\ \A r \in steps : r # s => \E q \in steps' :
              Wanes(r, q) /\ (r.kind # "renewal" \/ r.user # u => q = r)
        /\ \A q \in steps' : q = t \/ \E r \in steps : r # s /\ Wanes(r, q) /\ (~Open(q) \/ q = r)
    BY <2>2, <2>3, TerminatedSteps
  <2>5. \A r \in procs : r # p => CarriesStep(r)
    <3>. SUFFICES ASSUME NEW r \in procs, r # p, NEW x \in steps, IsOf(x, r)
                  PROVE  \E q \in steps' : Kept(x, q) /\ (r.kind = "cleanup" /\ Open(x) => Open(q))
      BY DEF CarriesStep
    <3>1. x # s  BY <2>2, OneStep
    <3>2. PICK q \in steps' : Wanes(x, q) /\ (x.kind # "renewal" \/ x.user # u => q = x)
      BY <2>4, <3>1
    <3>. QED  BY <3>2 DEF Wanes, IsOf
  <2>6. Stepped'
    <3>. SUFFICES ASSUME NEW q \in steps' PROVE Grounded(q)'
      BY DEF Stepped
    <3>1. CASE q = t
      BY <1>3, <1>8, <2>2, <3>1, StaysGrounded, StandingStays DEF Open
    <3>2. CASE \E r \in steps : r # s /\ Wanes(r, q) /\ (~Open(q) \/ q = r)
      <4>1. PICK r \in steps : r # s /\ Wanes(r, q)  BY <3>2
      <4>2. ~IsOf(r, p)  BY <2>2, <4>1, OneStep
      <4>3. \A y \in procs : IsOf(r, y) => y \in procs'  BY <1>2, <4>2 DEF Ends
      <4>. QED  BY <1>3, <1>8, <4>1, <4>3, StaysGrounded, StandingStays
    <3>. QED  BY <2>4, <3>1, <3>2
  <2>. QED  BY <1>1, <1>5, <1>8, <2>4, <2>5, <2>6, StandingStays DEF TypeOK
<1>. QED  BY <1>6, <1>7, <1>8, FindsGrantGoneDoes

\* Every step keeps the first layer.
LEMMA SoundKept ==
    Sound /\ [Next]_vars => Sound'
<1>. SUFFICES ASSUME Sound, [Next]_vars PROVE Sound'
  OBVIOUS
<1>1. ASSUME NEW p \in procs,
             \/ CallbackEnters(p) \/ CallbackSaves(p)
             \/ RenewalEnters(p) \/ StartWatch(p) \/ RenewalSaves(p) \/ RenewalSchedules(p)
             \/ RenewalEnds(p) \/ CleanupEnters(p) \/ StopWatch(p) \/ CleanupEnds(p)
             \/ FindsLockGone(p) \/ FindsGrantGone(p) \/ AttemptFails(p)
      PROVE  Sound'
  BY <1>1, CallbackEntersKeeps, CallbackSavesKeeps, RenewalEntersKeeps, StartWatchKeeps,
     RenewalSavesKeeps, RenewalSchedulesKeeps, RenewalEndsKeeps, CleanupEntersKeeps,
     StopWatchKeeps, CleanupEndsKeeps, FindsLockGoneKeeps, FindsGrantGoneKeeps, AttemptFailsKeeps
<1>2. ASSUME NEW u \in User,
             \/ PageLooks(u) \/ Authorizes(u) \/ Disconnect(u) \/ RevokeGrant(u)
             \/ MarkReconnectRequired(u) \/ EnsureDaily(u)
      PROVE  Sound'
  BY <1>2, PageLooksKeeps, AuthorizesKeeps, DisconnectKeeps, RevokeGrantKeeps,
     MarkReconnectRequiredKeeps, EnsureDailyKeeps
<1>3. ASSUME NEW s \in steps, StartStep(s) PROVE Sound'  BY <1>3, StartStepKeeps
<1>4. CASE DayPasses \/ LockDrops  BY <1>4, DayPassesKeeps, LockDropsKeeps
<1>5. CASE UNCHANGED vars
  BY <1>5 DEF vars, Sound, TypeOK, AtWork, Works, Stepped, Grounded, Running, Holds, PidOf,
              StatusOf, Open, Attempts, IsOf, Places
<1>. QED  BY <1>1, <1>2, <1>3, <1>4, <1>5 DEF Next, Work

\* The initial state satisfies the first layer.
LEMMA SoundFirst ==
    Init => Sound
<1>. SUFFICES ASSUME Init PROVE Sound
  OBVIOUS
<1>1. NoKey \in Key  BY DEF NoKey, Key
<1>2. account \in [User -> Account]
  BY <1>1, ConnectionsAssumption DEF Init, Account
<1>3. Loose
  <2>1. today \in 0 .. MaxDay /\ registered \in Nat
    BY ConnectionsAssumption DEF Init
  <2>2. grant \subseteq User /\ holder \in Pid \union {Free}  BY DEF Init
  <2>3. spent \in [Counters -> Nat]  BY DEF Init
  <2>. QED  BY <1>2, <2>1, <2>2, <2>3 DEF Loose
<1>4. OneEach(procs) /\ WellKept(steps)  BY DEF Init, OneEach, WellKept
<1>. QED  BY <1>3, <1>4, TypesAre DEF Sound, Init, AtWork, Stepped

\* The types hold.
THEOREM WellTyped ==
    Spec => []TypeOK
<1>1. Sound => TypeOK  BY DEF Sound
<1>. QED  BY <1>1, SoundFirst, SoundKept, PTL DEF Spec

-----------------------------------------------------------------------------
(* The second layer: the lock and the days.                                *)

Undropped == spent["drops"] = 0
InCall(p) == p.at \in {"call", "save", "delete"}

\* As long as no lock connection drops, whoever is between its lock and its commit holds it.
Locked == Undropped => \A p \in procs : InCall(p) => Holds(p)

\* No watch is registered or claimed for longer than it can last.
Dated ==
    /\ registered <= today + Lifetime
    /\ \A u \in User : account[u].expires <= today + Lifetime

\* What has not happened after a step had not happened before it.
LEMMA NotBefore ==
    ASSUME Sound, [Next]_vars, NEW c \in Counters, spent'[c] = 0
    PROVE  spent[c] = 0
<1>1. spent \in [Counters -> Nat]  BY DEF Sound, TypeOK
<1>2. ASSUME NEW d \in Counters, Spend(d) PROVE spent[c] = 0
  BY <1>1, <1>2 DEF Spend
<1>3. CASE UNCHANGED spent  BY <1>3
<1>4. ASSUME NEW p \in procs, StopWatch(p) PROVE spent[c] = 0
  <2>1. CASE spent' = [spent EXCEPT !["refusals"] = 1]  BY <1>1, <2>1
  <2>. QED  BY <1>3, <1>4, <2>1 DEF StopWatch
<1>5. ASSUME NEW p \in procs,
             \/ CallbackEnters(p) \/ CallbackSaves(p)
             \/ RenewalEnters(p) \/ StartWatch(p) \/ RenewalSaves(p) \/ RenewalSchedules(p)
             \/ RenewalEnds(p) \/ CleanupEnters(p) \/ CleanupEnds(p)
             \/ FindsLockGone(p) \/ FindsGrantGone(p)
      PROVE  UNCHANGED spent
  BY <1>5 DEF CallbackEnters, CallbackSaves, RenewalEnters, StartWatch, RenewalSaves,
              RenewalSchedules, RenewalEnds, CleanupEnters, CleanupEnds, FindsLockGone,
              FindsGrantGone
<1>6. ASSUME NEW u \in User, PageLooks(u) \/ MarkReconnectRequired(u) \/ EnsureDaily(u)
      PROVE  UNCHANGED spent
  BY <1>6 DEF PageLooks, MarkReconnectRequired, EnsureDaily
<1>7. ASSUME NEW u \in User, Authorizes(u) \/ Disconnect(u) \/ RevokeGrant(u)
      PROVE  \E d \in Counters : Spend(d)
  BY <1>7 DEF Authorizes, Disconnect, RevokeGrant, Counters
<1>8. ASSUME NEW s \in steps, StartStep(s) PROVE UNCHANGED spent
  BY <1>8 DEF StartStep
<1>9. ASSUME NEW p \in procs, AttemptFails(p) PROVE \E d \in Counters : Spend(d)
  BY <1>9 DEF AttemptFails, Counters
<1>10. CASE LockDrops  BY <1>2, <1>10 DEF LockDrops, Counters
<1>11. CASE DayPasses \/ UNCHANGED vars  BY <1>3, <1>11 DEF DayPasses, vars
<1>. QED  BY <1>2, <1>3, <1>4, <1>5, <1>6, <1>7, <1>8, <1>9, <1>10, <1>11 DEF Next, Work

\* The lock stays with its holder.
LEMMA StaysLocked ==
    ASSUME Locked, Undropped' => Undropped,
           \A r \in procs' : InCall(r) =>
              \/ holder' = PidOf(r)
              \/ \E p \in procs : InCall(p) /\ PidOf(p) = PidOf(r) /\ (Holds(p) => holder' = holder)
    PROVE  Locked'
BY DEF Locked, Holds, InCall, PidOf

\* The lock is with its holder after every step.
LEMMA LockedKept ==
    ASSUME Sound, Locked, [Next]_vars
    PROVE  Locked'
<1>1. TypeOK /\ OneEach(procs) /\ (Undropped' => Undropped)
  BY TypesAre, NotBefore DEF Sound, Undropped, Counters
<1>2. \A p, r \in procs : PidOf(p) = PidOf(r) => p = r
  BY <1>1 DEF OneEach, PidOf
<1>3. ASSUME NEW p \in procs, Ends(p), Releases(p) PROVE Locked'
  <2>1. ASSUME NEW r \in procs', InCall(r)
        PROVE  InCall(r) /\ PidOf(r) = PidOf(r) /\ r \in procs /\ (Holds(r) => holder' = holder)
    <3>1. r \in procs /\ PidOf(r) # PidOf(p)  BY <1>1, <1>3, EndsIs
    <3>. QED  BY <1>3, <2>1, <3>1 DEF Holds, Releases
  <2>. QED  BY <1>1, <2>1, StaysLocked
<1>4. ASSUME UNCHANGED holder, \A r \in procs' : InCall(r) => r \in procs PROVE Locked'
  BY <1>1, <1>4, StaysLocked
<1>5. ASSUME NEW p \in procs, NEW q, NEW at, Advances(p, q, at), holder' = PidOf(p), holder = Free
      PROVE  Locked'
  <2>1. ASSUME NEW r \in procs', InCall(r)
        PROVE  \/ holder' = PidOf(r)
               \/ r \in procs /\ (Holds(r) => holder' = holder)
    <3>1. CASE r = q  BY <1>5, <3>1 DEF Advances, PidOf
    <3>2. CASE r \in procs  BY <1>5, <3>2 DEF Holds, PidOf, Free
    <3>. QED  BY <1>1, <1>5, <3>1, <3>2, AdvancesIs
  <2>. QED  BY <1>1, <2>1, StaysLocked
<1>6. ASSUME NEW p \in procs, NEW q, NEW at, Advances(p, q, at), UNCHANGED holder,
             at \in {"schedule", "catchup"} \/ InCall(p)
      PROVE  Locked'
  <2>1. ASSUME NEW r \in procs', InCall(r)
        PROVE  \E x \in procs : InCall(x) /\ PidOf(x) = PidOf(r)
    <3>1. CASE r = q
      <4>1. InCall(p) /\ PidOf(p) = PidOf(r)
        BY <1>6, <2>1, <3>1 DEF Advances, PidOf, InCall
      <4>. QED  BY <4>1
    <3>2. CASE r \in procs  BY <2>1, <3>2
    <3>. QED  BY <1>1, <1>6, <3>1, <3>2, AdvancesIs
  <2>. QED  BY <1>1, <1>6, <2>1, StaysLocked
<1>7. ASSUME NEW q, Begins(q), UNCHANGED holder PROVE Locked'
  <2>1. \A r \in procs' : InCall(r) => r \in procs  BY <1>7 DEF Begins, InCall
  <2>. QED  BY <1>4, <1>7, <2>1
<1>8. ASSUME NEW p \in procs, Ends(p), UNCHANGED holder, ~InCall(p) PROVE Locked'
  <2>1. \A r \in procs' : InCall(r) => r \in procs  BY <1>8 DEF Ends
  <2>. QED  BY <1>4, <1>8, <2>1
<1>9. ASSUME UNCHANGED procs, UNCHANGED holder PROVE Locked'  BY <1>4, <1>9
<1>11. ASSUME NEW p \in procs, CallbackEnters(p) PROVE Locked'
  <2>1. PICK u : u = p.user  OBVIOUS
  <2>2. p.at = "lock" /\ holder = Free
        /\ \/ Ends(p) /\ UNCHANGED holder
           \/ holder' = PidOf(p) /\ \E q : Advances(p, q, "call")
    BY <1>1, <1>11, <2>1, CallbackEntersDoes
  <2>. QED  BY <1>5, <1>8, <2>2 DEF InCall
<1>12. ASSUME NEW p \in procs, CallbackSaves(p) \/ CleanupEnds(p) PROVE Locked'
  BY <1>3, <1>12 DEF CallbackSaves, CleanupEnds
<1>13. ASSUME NEW p \in procs, RenewalEnters(p) PROVE Locked'
  <2>1. p.at = "lock" /\ holder = Free
        /\ \/ Ends(p) /\ UNCHANGED holder
           \/ holder' = PidOf(p) /\ \E q : Advances(p, q, "call")
    BY <1>13, RenewalEntersDoes
  <2>. QED  BY <1>5, <1>8, <2>1 DEF InCall
<1>14. ASSUME NEW p \in procs, StartWatch(p) PROVE Locked'
  <2>1. p.at = "call" /\ UNCHANGED holder /\ \E q : Advances(p, q, "save")
    BY <1>1, <1>14, StartWatchDoes
  <2>. QED  BY <1>6, <2>1 DEF InCall
<1>15. ASSUME NEW p \in procs, RenewalSaves(p) PROVE Locked'
  <2>1. CASE Ends(p)  BY <1>3, <1>15, <2>1 DEF RenewalSaves
  <2>2. CASE \E q : Advances(p, q, "schedule")
    <3>1. PICK q : Advances(p, q, "schedule")  BY <2>2
    <3>2. ASSUME NEW r \in procs', InCall(r)
          PROVE  InCall(r) /\ PidOf(r) = PidOf(r) /\ r \in procs /\ (Holds(r) => holder' = holder)
      <4>1. r \in procs /\ PidOf(r) # PidOf(p)
        BY <1>1, <3>1, <3>2, AdvancesIs DEF Advances, InCall
      <4>. QED  BY <1>15, <3>2, <4>1 DEF Holds, RenewalSaves, Releases
    <3>. QED  BY <1>1, <3>2, StaysLocked
  <2>. QED  BY <1>1, <1>15, <2>1, <2>2, RenewalSavesDoes
<1>16. ASSUME NEW p \in procs, RenewalSchedules(p) PROVE Locked'
  <2>1. UNCHANGED holder /\ \E q : Advances(p, q, "catchup")
    BY <1>1, <1>16, RenewalSchedulesDoes
  <2>. QED  BY <1>6, <2>1
<1>17. ASSUME NEW p \in procs, RenewalEnds(p) PROVE Locked'
  BY <1>8, <1>17 DEF RenewalEnds, InCall
<1>18. ASSUME NEW p \in procs, CleanupEnters(p) PROVE Locked'
  <2>1. holder = Free /\ holder' = PidOf(p)
        /\ ((\E q : Advances(p, q, "delete")) \/ \E q : Advances(p, q, "call"))
    BY <1>1, <1>18, CleanupEntersDoes
  <2>. QED  BY <1>5, <2>1
<1>19. ASSUME NEW p \in procs, StopWatch(p) PROVE Locked'
  <2>1. p.at = "call" /\ UNCHANGED holder /\ \E q : Advances(p, q, "delete")
    BY <1>1, <1>19, StopWatchDoes
  <2>. QED  BY <1>6, <2>1 DEF InCall
<1>20. ASSUME NEW p \in procs, FindsLockGone(p) \/ FindsGrantGone(p) \/ AttemptFails(p) PROVE Locked'
  BY <1>3, <1>20 DEF FindsLockGone, FindsGrantGone, AttemptFails, GivesUp
<1>21. ASSUME NEW s \in steps, StartStep(s) PROVE Locked'
  <2>1. UNCHANGED holder /\ (UNCHANGED procs \/ \E q : Begins(q))
    BY <1>1, <1>21, StartStepDoes
  <2>. QED  BY <1>7, <1>9, <2>1
<1>22. ASSUME NEW u \in User, PageLooks(u) PROVE Locked'
  <2>1. UNCHANGED holder /\ (UNCHANGED procs \/ \E q : Begins(q))
    BY <1>1, <1>22, PageLooksDoes
  <2>. QED  BY <1>7, <1>9, <2>1
<1>23. ASSUME NEW u \in User, Authorizes(u) PROVE Locked'
  <2>1. UNCHANGED holder /\ \E q : Begins(q)  BY <1>1, <1>23, AuthorizesDoes
  <2>. QED  BY <1>7, <2>1
<1>24. ASSUME NEW u \in User,
              Disconnect(u) \/ RevokeGrant(u) \/ MarkReconnectRequired(u) \/ EnsureDaily(u)
       PROVE  Locked'
  BY <1>9, <1>24 DEF Disconnect, RevokeGrant, MarkReconnectRequired, EnsureDaily
<1>25. CASE LockDrops
  <2>1. spent["drops"] \in Nat /\ spent' = [spent EXCEPT !["drops"] = @ + 1]
        /\ spent \in [Counters -> Nat] /\ "drops" \in Counters
    BY <1>1, <1>25 DEF LockDrops, Spend, TypeOK, Counters
  <2>2. spent'["drops"] # 0  BY <2>1
  <2>. QED  BY <2>2 DEF Locked, Undropped
<1>26. CASE DayPasses \/ UNCHANGED vars  BY <1>9, <1>26 DEF DayPasses, vars
<1>. QED
  BY <1>11, <1>12, <1>13, <1>14, <1>15, <1>16, <1>17, <1>18, <1>19, <1>20, <1>21, <1>22, <1>23,
     <1>24, <1>25, <1>26 DEF Next, Work

\* What a step does to the day a connection believes its watch expires: nothing, or it learns
\* of a watch that was started today, or the connection is removed.
LEMMA ExpiryMoves ==
    ASSUME Sound, [Next]_vars, NEW v \in User
    PROVE  \/ account'[v].expires = account[v].expires
           \/ account'[v].expires = 0 /\ account'[v].status = "none"
           \/ /\ account'[v].expires = today + Lifetime
              /\ \E p \in procs : p.at = "save" /\ p.user = v /\ (CallbackSaves(p) \/ RenewalSaves(p))
<1>1. TypeOK /\ account \in [User -> Account]  BY DEF Sound, TypeOK
<1>2. CASE UNCHANGED account  BY <1>2
<1>3. ASSUME NEW p \in procs, CallbackEnters(p) PROVE account'[v].expires = account[v].expires
  <2>1. PICK u \in User : u = p.user  BY <1>1 DEF TypeOK, Proc
  <2>2. CASE account' = [account EXCEPT ![u] = Reauthorized(account[u])]
    <3>1. PICK a : a = Reauthorized(account[u])  OBVIOUS
    <3>2. a.expires = account[u].expires  BY <1>1, <3>1, ReauthorizedIs
    <3>. QED  BY <1>1, <2>2, <3>1, <3>2
  <2>. QED  BY <1>1, <1>3, <2>1, <2>2, CallbackEntersDoes
<1>4. ASSUME NEW p \in procs, CallbackSaves(p)
      PROVE  \/ account'[v].expires = account[v].expires
             \/ account'[v].expires = today + Lifetime /\ p.user = v /\ p.at = "save"
  <2>1. PICK u \in User : u = p.user  BY <1>1 DEF TypeOK, Proc
  <2>2. account' = [account EXCEPT ![u] = Started(p)] /\ p.at = "save"
    BY <1>4, <2>1 DEF CallbackSaves
  <2>3. PICK a : a = Started(p)  OBVIOUS
  <2>4. a.expires = today + Lifetime
    BY <2>2, <2>3 DEF Started, Sound, AtWork, Works
  <2>. QED  BY <1>1, <2>1, <2>2, <2>3, <2>4
<1>5. ASSUME NEW p \in procs, RenewalSaves(p)
      PROVE  \/ account'[v].expires = account[v].expires
             \/ account'[v].expires = today + Lifetime /\ p.user = v /\ p.at = "save"
  <2>1. p.at = "save"  BY <1>1, <1>5, RenewalSavesDoes
  <2>2. p.expires = today + Lifetime  BY <2>1 DEF Sound, AtWork, Works
  <2>3. CASE v # p.user  BY <1>1, <1>5, <2>3, RenewalSavesDoes
  <2>4. CASE v = p.user
    <3>1. account'[p.user].expires = p.expires \/ account'[p.user].expires = account[p.user].expires
      BY <1>1, <1>5, RenewalSavesDoes
    <3>. QED  BY <2>1, <2>2, <2>4, <3>1
  <2>. QED  BY <2>3, <2>4
<1>6. ASSUME NEW p \in procs, CleanupEnds(p)
      PROVE  \/ account'[v].expires = account[v].expires
             \/ account'[v].expires = 0 /\ account'[v].status = "none"
  <2>1. /\ account'[p.user].expires = 0 /\ account'[p.user].status = "none"
        /\ v # p.user => account'[v] = account[v]
    BY <1>1, <1>6, CleanupEndsDoes
  <2>. QED  BY <2>1
<1>7. ASSUME NEW u \in User, Loses(u) PROVE account'[v].expires = account[v].expires
  BY <1>1, <1>7, LosesDoes
<1>8. ASSUME NEW p \in procs, FailsStep(p) PROVE account'[v].expires = account[v].expires
  <2>1. CASE account' = [account EXCEPT ![p.user].failed = p.key]
    <3>1. PICK a : a = [account[p.user] EXCEPT !.failed = p.key]  OBVIOUS
    <3>2. p.user \in User  BY <1>1 DEF TypeOK, Proc
    <3>3. account' = [account EXCEPT ![p.user] = a] /\ account[p.user] \in Account
      BY <1>1, <2>1, <3>1, <3>2
    <3>4. a.expires = account[p.user].expires  BY <3>1, <3>3 DEF Account
    <3>. QED  BY <1>1, <3>3, <3>4
  <2>. QED  BY <1>2, <1>8, <2>1 DEF FailsStep
<1>9. ASSUME NEW p \in procs, FindsGrantGone(p) PROVE account'[v].expires = account[v].expires
  <2>1. PICK u \in User : u = p.user  BY <1>1 DEF TypeOK, Proc
  <2>. QED  BY <1>7, <1>9, <2>1, FindsGrantGoneDoes
<1>10. ASSUME NEW u \in User, PageLooks(u) PROVE account'[v].expires = account[v].expires
  <2>1. CASE account' = [account EXCEPT ![u].building = FALSE]
    <3>1. PICK a : a = [account[u] EXCEPT !.building = FALSE]  OBVIOUS
    <3>2. account' = [account EXCEPT ![u] = a] /\ account[u] \in Account
      BY <1>1, <2>1, <3>1
    <3>3. a.expires = account[u].expires  BY <3>1, <3>2 DEF Account
    <3>. QED  BY <1>1, <3>2, <3>3
  <2>. QED  BY <1>1, <1>10, <2>1, PageLooksDoes
<1>11. ASSUME NEW u \in User, Disconnect(u) PROVE account'[v].expires = account[v].expires
  <2>1. PICK a : a = [account[u] EXCEPT !.status = "disconnected"]  OBVIOUS
  <2>2. account' = [account EXCEPT ![u] = a] /\ account[u] \in Account
    BY <1>1, <1>11, <2>1 DEF Disconnect
  <2>3. a.expires = account[u].expires  BY <2>1, <2>2 DEF Account
  <2>. QED  BY <1>1, <2>2, <2>3
<1>12. ASSUME NEW p \in procs,
              \/ RenewalEnters(p) \/ StartWatch(p) \/ RenewalSchedules(p)
              \/ RenewalEnds(p) \/ CleanupEnters(p) \/ StopWatch(p)
       PROVE  UNCHANGED account
  BY <1>12 DEF RenewalEnters, StartWatch, RenewalSchedules, RenewalEnds, CleanupEnters, StopWatch
<1>13. ASSUME NEW p \in procs, FindsLockGone(p) \/ AttemptFails(p) PROVE FailsStep(p)
  BY <1>13, GivesUpDoes DEF FindsLockGone, AttemptFails
<1>14. ASSUME NEW u \in User, Authorizes(u) \/ RevokeGrant(u) \/ EnsureDaily(u)
       PROVE  UNCHANGED account
  BY <1>14 DEF Authorizes, RevokeGrant, EnsureDaily
<1>15. ASSUME NEW u \in User, MarkReconnectRequired(u) PROVE Loses(u)
  BY <1>15 DEF MarkReconnectRequired
<1>16. ASSUME NEW s \in steps, StartStep(s) PROVE UNCHANGED account
  BY <1>16 DEF StartStep
<1>17. CASE LockDrops \/ DayPasses \/ UNCHANGED vars
  BY <1>2, <1>17 DEF LockDrops, DayPasses, vars
<1>. QED
  BY <1>2, <1>3, <1>4, <1>5, <1>6, <1>7, <1>8, <1>9, <1>10, <1>11, <1>12, <1>13, <1>14, <1>15,
     <1>16, <1>17 DEF Next, Work

\* What a step does to the watch at Google: nothing, or it starts one, or stops it.
LEMMA WatchMoves ==
    ASSUME [Next]_vars
    PROVE  \/ UNCHANGED registered
           \/ \E p \in procs : StartWatch(p) \/ StopWatch(p)
<1>1. ASSUME NEW p \in procs,
             \/ CallbackEnters(p) \/ CallbackSaves(p)
             \/ RenewalEnters(p) \/ RenewalSaves(p) \/ RenewalSchedules(p)
             \/ RenewalEnds(p) \/ CleanupEnters(p) \/ CleanupEnds(p)
             \/ FindsLockGone(p) \/ FindsGrantGone(p) \/ AttemptFails(p)
      PROVE  UNCHANGED registered
  BY <1>1 DEF CallbackEnters, CallbackSaves, RenewalEnters, RenewalSaves,
              RenewalSchedules, RenewalEnds, CleanupEnters, CleanupEnds, FindsLockGone,
              FindsGrantGone, AttemptFails, GivesUp
<1>2. ASSUME NEW u \in User,
             PageLooks(u) \/ MarkReconnectRequired(u) \/ EnsureDaily(u)
             \/ Authorizes(u) \/ Disconnect(u) \/ RevokeGrant(u)
      PROVE  UNCHANGED registered
  BY <1>2 DEF PageLooks, MarkReconnectRequired, EnsureDaily, Authorizes, Disconnect, RevokeGrant
<1>3. ASSUME NEW s \in steps, StartStep(s) PROVE UNCHANGED registered
  BY <1>3 DEF StartStep
<1>4. CASE LockDrops \/ DayPasses \/ UNCHANGED vars
  BY <1>4 DEF LockDrops, DayPasses, vars
<1>. QED  BY <1>1, <1>2, <1>3, <1>4 DEF Next, Work

\* The day does not go back.
LEMMA DayMoves ==
    ASSUME TypeOK, [Next]_vars
    PROVE  today' \in Nat /\ today \in Nat /\ today' >= today
           /\ (today' = today \/ DayPasses)
<1>0. today \in Nat  BY ConnectionsAssumption DEF TypeOK
<1>1. ASSUME NEW p \in procs,
             \/ CallbackEnters(p) \/ CallbackSaves(p)
             \/ RenewalEnters(p) \/ StartWatch(p) \/ RenewalSaves(p) \/ RenewalSchedules(p)
             \/ RenewalEnds(p) \/ CleanupEnters(p) \/ StopWatch(p) \/ CleanupEnds(p)
             \/ FindsLockGone(p) \/ FindsGrantGone(p) \/ AttemptFails(p)
      PROVE  UNCHANGED today
  BY <1>1 DEF CallbackEnters, CallbackSaves, RenewalEnters, StartWatch, RenewalSaves,
              RenewalSchedules, RenewalEnds, CleanupEnters, StopWatch, CleanupEnds, FindsLockGone,
              FindsGrantGone, AttemptFails, GivesUp
<1>2. ASSUME NEW u \in User,
             PageLooks(u) \/ MarkReconnectRequired(u) \/ EnsureDaily(u)
             \/ Authorizes(u) \/ Disconnect(u) \/ RevokeGrant(u)
      PROVE  UNCHANGED today
  BY <1>2 DEF PageLooks, MarkReconnectRequired, EnsureDaily, Authorizes, Disconnect, RevokeGrant
<1>3. ASSUME NEW s \in steps, StartStep(s) PROVE UNCHANGED today
  BY <1>3 DEF StartStep
<1>4. CASE LockDrops \/ UNCHANGED vars  BY <1>0, <1>4 DEF LockDrops, vars
<1>5. CASE DayPasses  BY <1>0, <1>5 DEF DayPasses
<1>. QED  BY <1>0, <1>1, <1>2, <1>3, <1>4, <1>5 DEF Next, Work

\* The days are kept.
LEMMA DatedKept ==
    ASSUME Sound, Dated, [Next]_vars
    PROVE  Dated'
<1>1. TypeOK /\ TypeOK'  BY SoundKept DEF Sound
<1>2. today \in Nat /\ today' \in Nat /\ today' >= today /\ Lifetime \in Nat
  BY <1>1, DayMoves, ConnectionsAssumption
<1>3. \A v \in User : account[v].expires \in Nat /\ account'[v].expires \in Nat
  BY <1>1 DEF TypeOK, Account
<1>4. ASSUME NEW v \in User PROVE account'[v].expires <= today' + Lifetime
  <2>1. account'[v].expires = today + Lifetime \/ account'[v].expires \in {account[v].expires, 0}
    BY ExpiryMoves
  <2>. QED  BY <1>2, <1>3, <2>1 DEF Dated
<1>5. registered' <= today' + Lifetime
  <2>1. registered \in Nat  BY <1>1 DEF TypeOK
  <2>2. registered' \in {registered, today + Lifetime, 0}
    BY WatchMoves DEF StartWatch, StopWatch
  <2>3. registered <= today + Lifetime  BY DEF Dated
  <2>4. registered' \in Nat  BY <1>1 DEF TypeOK
  <2>5. PICK r, s, d, e : r = registered /\ s = registered' /\ d = today /\ e = today'
    OBVIOUS
  <2>6. r \in Nat /\ d \in Nat /\ e \in Nat /\ e >= d /\ Lifetime \in Nat /\ r <= d + Lifetime
        /\ s \in {r, d + Lifetime, 0}
    BY <1>2, <2>1, <2>2, <2>3, <2>5
  <2>7. s <= e + Lifetime  BY ONLY <2>6
  <2>. QED  BY ONLY <2>5, <2>7
<1>. QED  BY <1>4, <1>5 DEF Dated

-----------------------------------------------------------------------------
(* The third layer: what is registered at Google.                          *)

Mine(u) == account[u].status \in {"connected", "reconnect_required"}

\* What a step does to the standing of a connection.
LEMMA StatusMoves ==
    ASSUME Sound, [Next]_vars, NEW v \in User
    PROVE  \/ account'[v].status = account[v].status
           \/ Mine(v) /\ Mine(v)'
           \/ Mine(v) /\ Disconnect(v)
           \/ account[v].status = "none" /\ \E p \in procs : CallbackSaves(p) /\ p.user = v
           \/ account[v].status = "disconnected" /\ \E p \in procs : CleanupEnds(p) /\ p.user = v
<1>1. TypeOK /\ account \in [User -> Account] /\ \A p \in procs : p.user \in User
  BY DEF Sound, TypeOK, Proc
<1>2. CASE UNCHANGED account  BY <1>2
<1>3. ASSUME NEW p \in procs, CallbackEnters(p)
      PROVE  account'[v].status = account[v].status \/ (Mine(v) /\ Mine(v)')
  <2>1. PICK u \in User : u = p.user  BY <1>1
  <2>2. CASE /\ account[u].status # "none" /\ account[u].status # "disconnected"
             /\ account' = [account EXCEPT ![u] = Reauthorized(account[u])]
    <3>1. PICK a : a = Reauthorized(account[u])  OBVIOUS
    <3>2. a.status = "connected" /\ account[u] \in Account
      BY <1>1, <3>1, ReauthorizedIs
    <3>3. Mine(u)  BY <2>2, <3>2 DEF Mine, Account
    <3>. QED  BY <1>1, <2>2, <3>1, <3>2, <3>3 DEF Mine
  <2>. QED  BY <1>1, <1>3, <2>1, <2>2, CallbackEntersDoes
<1>4. ASSUME NEW p \in procs, CallbackSaves(p)
      PROVE  \/ account'[v].status = account[v].status
             \/ account[v].status = "none" /\ p.user = v
  <2>1. account' = [account EXCEPT ![p.user] = Started(p)] /\ account[p.user].status = "none"
    BY <1>4 DEF CallbackSaves, Sound, AtWork, Works, StatusOf
  <2>. QED  BY <1>1, <2>1
<1>5. ASSUME NEW p \in procs, RenewalSaves(p) PROVE account'[v].status = account[v].status
  <2>1. account'[p.user].status = account[p.user].status /\ (v # p.user => account'[v] = account[v])
    BY <1>1, <1>5, RenewalSavesDoes
  <2>. QED  BY <2>1
<1>6. ASSUME NEW p \in procs, CleanupEnds(p)
      PROVE  \/ account'[v].status = account[v].status
             \/ account[v].status = "disconnected" /\ p.user = v
  <2>1. (v # p.user => account'[v] = account[v]) /\ p.kind = "cleanup"
    BY <1>1, <1>6, CleanupEndsDoes
  <2>2. account[p.user].status = "disconnected"
    BY <2>1 DEF Sound, AtWork, Works, StatusOf
  <2>. QED  BY <2>1, <2>2
<1>7. ASSUME NEW u \in User, Loses(u)
      PROVE  account'[v].status = account[v].status \/ (Mine(v) /\ Mine(v)')
  <2>1. account[v].status \in {"none", "disconnected", "connected", "reconnect_required"}
    BY <1>1 DEF Account
  <2>2. CASE v # u  BY <1>1, <1>7, <2>2, LosesDoes
  <2>3. CASE v = u
    <3>1. CASE account[u].status \in {"none", "disconnected"}
      BY <1>1, <1>7, <2>3, <3>1, LosesDoes
    <3>2. CASE account[u].status \in {"connected", "reconnect_required"}
      <4>1. account'[u].status = "reconnect_required"
        BY <1>1, <1>7, <3>2, LosesDoes
      <4>. QED  BY <2>3, <3>2, <4>1 DEF Mine
    <3>. QED  BY <2>1, <2>3, <3>1, <3>2
  <2>. QED  BY <2>2, <2>3
<1>8. ASSUME NEW p \in procs, FailsStep(p) PROVE account'[v].status = account[v].status
  <2>1. CASE account' = [account EXCEPT ![p.user].failed = p.key]
    <3>1. PICK a : a = [account[p.user] EXCEPT !.failed = p.key]  OBVIOUS
    <3>3. account' = [account EXCEPT ![p.user] = a] /\ account[p.user] \in Account
      BY <1>1, <2>1, <3>1
    <3>4. a.status = account[p.user].status  BY <3>1, <3>3 DEF Account
    <3>. QED  BY <1>1, <3>3, <3>4
  <2>. QED  BY <1>2, <1>8, <2>1 DEF FailsStep
<1>9. ASSUME NEW p \in procs, FindsGrantGone(p)
      PROVE  account'[v].status = account[v].status \/ (Mine(v) /\ Mine(v)')
  <2>1. PICK u \in User : u = p.user  BY <1>1
  <2>. QED  BY <1>7, <1>9, <2>1, FindsGrantGoneDoes
<1>10. ASSUME NEW u \in User, PageLooks(u) PROVE account'[v].status = account[v].status
  <2>1. CASE account' = [account EXCEPT ![u].building = FALSE]
    <3>1. PICK a : a = [account[u] EXCEPT !.building = FALSE]  OBVIOUS
    <3>2. account' = [account EXCEPT ![u] = a] /\ account[u] \in Account
      BY <1>1, <2>1, <3>1
    <3>3. a.status = account[u].status  BY <3>1, <3>2 DEF Account
    <3>. QED  BY <1>1, <3>2, <3>3
  <2>. QED  BY <1>1, <1>10, <2>1, PageLooksDoes
<1>11. ASSUME NEW u \in User, Disconnect(u)
       PROVE  account'[v].status = account[v].status \/ (Mine(v) /\ u = v)
  <2>1. account' = [account EXCEPT ![u].status = "disconnected"] /\ Mine(u)
    BY <1>11 DEF Disconnect, Mine
  <2>. QED  BY <1>1, <2>1
<1>12. ASSUME NEW p \in procs,
              \/ RenewalEnters(p) \/ StartWatch(p) \/ RenewalSchedules(p)
              \/ RenewalEnds(p) \/ CleanupEnters(p) \/ StopWatch(p)
       PROVE  UNCHANGED account
  BY <1>12 DEF RenewalEnters, StartWatch, RenewalSchedules, RenewalEnds, CleanupEnters, StopWatch
<1>13. ASSUME NEW p \in procs, FindsLockGone(p) \/ AttemptFails(p) PROVE FailsStep(p)
  BY <1>13, GivesUpDoes DEF FindsLockGone, AttemptFails
<1>14. ASSUME NEW u \in User, Authorizes(u) \/ RevokeGrant(u) \/ EnsureDaily(u)
       PROVE  UNCHANGED account
  BY <1>14 DEF Authorizes, RevokeGrant, EnsureDaily
<1>15. ASSUME NEW u \in User, MarkReconnectRequired(u) PROVE Loses(u)
  BY <1>15 DEF MarkReconnectRequired
<1>16. ASSUME NEW s \in steps, StartStep(s) PROVE UNCHANGED account
  BY <1>16 DEF StartStep
<1>17. CASE LockDrops \/ DayPasses \/ UNCHANGED vars
  BY <1>2, <1>17 DEF LockDrops, DayPasses, vars
<1>. QED
  BY <1>2, <1>3, <1>4, <1>5, <1>6, <1>7, <1>8, <1>9, <1>10, <1>11, <1>12, <1>13, <1>14, <1>15,
     <1>16, <1>17 DEF Next, Work

\* Where an attempt comes from that was not there before: it has begun, or has gone on.
CameFrom(r, p) ==
    /\ r.user = p.user /\ r.kind = p.kind /\ r.key = p.key
    /\ \/ r.at = "call" /\ p.at = "lock" /\ CallbackEnters(p)
       \/ r.at = "call" /\ p.at = "lock" /\ RenewalEnters(p) /\ Connected(p.user)
       \/ r.at = "call" /\ p.at = "lock" /\ CleanupEnters(p) /\ ~HasOthers(p.user)
       \/ r.at = "delete" /\ p.at = "lock" /\ CleanupEnters(p) /\ HasOthers(p.user)
       \/ r.at = "delete" /\ p.at = "call" /\ StopWatch(p)
       \/ r.at = "save" /\ p.at = "call" /\ StartWatch(p)
       \/ r.at = "schedule" /\ p.at = "save" /\ RenewalSaves(p)
       \/ r.at = "catchup" /\ p.at = "schedule" /\ RenewalSchedules(p)

\* What a step does to the attempts.
LEMMA ProcMoves ==
    ASSUME Sound, [Next]_vars, NEW r \in procs', r \notin procs
    PROVE  \/ r.at = "lock" /\ (account[r.user].status # "none" \/ Authorizes(r.user))
           \/ \E p \in procs : CameFrom(r, p)
<1>1. TypeOK  BY DEF Sound
<1>2. CASE procs' \subseteq procs  BY <1>2
<1>3. ASSUME NEW q, Begins(q), account[q.user].status # "none" \/ Authorizes(q.user)
      PROVE  r.at = "lock" /\ (account[r.user].status # "none" \/ Authorizes(r.user))
  BY <1>3 DEF Begins
<1>4. ASSUME NEW p \in procs, NEW q, NEW at, Advances(p, q, at)
      PROVE  r.user = p.user /\ r.kind = p.kind /\ r.key = p.key /\ r.at = at
  BY <1>4 DEF Advances
<1>5. ASSUME NEW p \in procs, CallbackEnters(p) PROVE CameFrom(r, p)
  <2>1. PICK u : u = p.user  OBVIOUS
  <2>2. p.at = "lock" /\ (Ends(p) \/ \E q : Advances(p, q, "call"))
    BY <1>1, <1>5, <2>1, CallbackEntersDoes
  <2>. QED  BY <1>4, <1>5, <2>2 DEF CameFrom, Ends
<1>6. ASSUME NEW p \in procs, RenewalEnters(p) PROVE CameFrom(r, p)
  <2>1. p.at = "lock" /\ (Ends(p) \/ (Connected(p.user) /\ \E q : Advances(p, q, "call")))
    BY <1>6, RenewalEntersDoes
  <2>. QED  BY <1>4, <1>6, <2>1 DEF CameFrom, Ends
<1>7. ASSUME NEW p \in procs, StartWatch(p) PROVE CameFrom(r, p)
  <2>1. p.at = "call" /\ \E q : Advances(p, q, "save")
    BY <1>1, <1>7, StartWatchDoes
  <2>. QED  BY <1>4, <1>7, <2>1 DEF CameFrom
<1>8. ASSUME NEW p \in procs, RenewalSaves(p) PROVE CameFrom(r, p)
  <2>1. p.at = "save" /\ (Ends(p) \/ \E q : Advances(p, q, "schedule"))
    BY <1>1, <1>8, RenewalSavesDoes
  <2>. QED  BY <1>4, <1>8, <2>1 DEF CameFrom, Ends
<1>9. ASSUME NEW p \in procs, RenewalSchedules(p) PROVE CameFrom(r, p)
  <2>1. p.at = "schedule" /\ \E q : Advances(p, q, "catchup")
    BY <1>1, <1>9, RenewalSchedulesDoes
  <2>. QED  BY <1>4, <1>9, <2>1 DEF CameFrom
<1>10. ASSUME NEW p \in procs, CleanupEnters(p) PROVE CameFrom(r, p)
  <2>1. p.at = "lock"
        /\ \/ HasOthers(p.user) /\ \E q : Advances(p, q, "delete")
           \/ ~HasOthers(p.user) /\ \E q : Advances(p, q, "call")
    BY <1>1, <1>10, CleanupEntersDoes
  <2>. QED  BY <1>4, <1>10, <2>1 DEF CameFrom
<1>11. ASSUME NEW p \in procs, StopWatch(p) PROVE CameFrom(r, p)
  <2>1. p.at = "call" /\ \E q : Advances(p, q, "delete")
    BY <1>1, <1>11, StopWatchDoes
  <2>. QED  BY <1>4, <1>11, <2>1 DEF CameFrom
<1>12. ASSUME NEW p \in procs,
              \/ CallbackSaves(p) \/ RenewalEnds(p) \/ CleanupEnds(p)
              \/ FindsLockGone(p) \/ FindsGrantGone(p) \/ AttemptFails(p)
       PROVE  procs' \subseteq procs
  BY <1>12 DEF CallbackSaves, RenewalEnds, CleanupEnds, FindsLockGone, FindsGrantGone,
               AttemptFails, GivesUp, Ends
<1>13. ASSUME NEW u \in User, Authorizes(u) \/ PageLooks(u)
       PROVE  \/ procs' \subseteq procs
              \/ \E q : Begins(q) /\ (account[q.user].status # "none" \/ Authorizes(q.user))
  BY <1>1, <1>13, AuthorizesDoes, PageLooksDoes DEF Connected
<1>14. ASSUME NEW u \in User,
              Disconnect(u) \/ RevokeGrant(u) \/ MarkReconnectRequired(u) \/ EnsureDaily(u)
       PROVE  procs' \subseteq procs
  BY <1>14 DEF Disconnect, RevokeGrant, MarkReconnectRequired, EnsureDaily
<1>15. ASSUME NEW s \in steps, StartStep(s)
       PROVE  \/ procs' \subseteq procs
              \/ \E q : Begins(q) /\ account[q.user].status # "none"
  BY <1>1, <1>15, StartStepDoes DEF IsOf, Sound, Stepped, Grounded
<1>16. CASE LockDrops \/ DayPasses \/ UNCHANGED vars
  BY <1>2, <1>16 DEF LockDrops, DayPasses, vars
<1>. QED
  BY <1>2, <1>3, <1>5, <1>6, <1>7, <1>8, <1>9, <1>10, <1>11, <1>12, <1>13, <1>14, <1>15, <1>16
     DEF Next, Work

\* As long as no lock connection drops: what a connection claims is registered, what an attempt
\* brings back from Google still is, a renewal at Google has its connection, and a cleanup is
\* there only for the last one.
Claimed == Undropped =>
    /\ \A u \in User : Mine(u) => registered >= account[u].expires
    /\ \A p \in procs :
          /\ p.at = "save" => registered >= p.expires
          /\ p.kind \in {"renewal", "page"} /\ InCall(p) => Mine(p.user)
          /\ p.kind = "cleanup" /\ p.at = "call" => ~HasOthers(p.user)

Held == Sound /\ Locked /\ Dated

\* Only one attempt is between its lock and its commit.
LEMMA OneInCall ==
    ASSUME Sound, Locked, Undropped
    PROVE  /\ \A p, q \in procs : InCall(p) /\ InCall(q) => p = q
           /\ \A p \in procs : InCall(p) => holder # Free
<1>1. OneEach(procs) /\ \A p \in procs : InCall(p) => Holds(p)
  BY TypesAre DEF Sound, Locked
<1>. QED  BY <1>1 DEF OneEach, Holds, PidOf, Free

\* A cleanup stops the watch only when no other connection needs it.
LEMMA StopsForLast ==
    ASSUME Sound, Claimed, Undropped, NEW p \in procs, StopWatch(p)
    PROVE  \A v \in User : ~Mine(v)
<1>1. p.kind = "cleanup" /\ p.at = "call"  BY DEF StopWatch
<1>2. account[p.user].status = "disconnected" /\ ~HasOthers(p.user)
  BY <1>1 DEF Sound, AtWork, Works, StatusOf, Claimed
<1>. QED  BY <1>2 DEF HasOthers, Mine

\* Claims are kept.
LEMMA ClaimedKept ==
    ASSUME Held, Claimed, [Next]_vars
    PROVE  Claimed'
<1>. SUFFICES ASSUME Undropped' PROVE
          /\ \A u \in User : Mine(u)' => registered' >= account'[u].expires
          /\ \A p \in procs' :
                /\ p.at = "save" => registered' >= p.expires
                /\ p.kind \in {"renewal", "page"} /\ InCall(p) => Mine(p.user)'
                /\ p.kind = "cleanup" /\ p.at = "call" => ~HasOthers(p.user)'
  BY DEF Claimed, Mine, HasOthers
<1>1. /\ Undropped /\ Sound' /\ Dated' /\ TypeOK /\ TypeOK'
      /\ Sound /\ Locked /\ Dated
  BY SoundKept, DatedKept, NotBefore DEF Held, Sound, Undropped, Counters
<1>2. \A v \in User : account[v].expires \in Nat /\ account'[v].expires \in Nat
  BY <1>1 DEF TypeOK, Account
<1>3. registered \in Nat /\ registered' \in Nat /\ today \in Nat /\ Lifetime \in Nat
  BY <1>1, ConnectionsAssumption DEF TypeOK
<1>4. \A v \in User : Mine(v) => registered >= account[v].expires
  BY <1>1 DEF Claimed
<1>5. \A p \in procs : p.at = "save" => registered >= p.expires /\ p.expires = today + Lifetime
  BY <1>1 DEF Claimed, Sound, AtWork, Works
<1>6. ASSUME NEW v \in User, Mine(v)' PROVE registered' >= account'[v].expires
  <2>1. CASE UNCHANGED registered
    <3>1. CASE account'[v].expires = today + Lifetime /\ \E p \in procs : p.at = "save"
      BY <1>5, <2>1, <3>1
    <3>2. CASE account'[v].expires = 0  BY <1>3, <3>2
    <3>3. CASE account'[v].expires = account[v].expires
      <4>1. CASE Mine(v)  BY <1>4, <2>1, <3>3, <4>1
      <4>2. CASE ~Mine(v)
        <5>1. PICK p \in procs : CallbackSaves(p) /\ p.user = v
          BY <1>1, <1>6, <4>2, StatusMoves, CleanupEndsDoes DEF Mine
        <5>2. account'[v] = Started(p) /\ p.at = "save"
          BY <1>1, <5>1 DEF CallbackSaves, TypeOK
        <5>3. account'[v].expires = p.expires  BY <5>2 DEF Started
        <5>. QED  BY <1>5, <2>1, <5>1, <5>2, <5>3
      <4>. QED  BY <4>1, <4>2
    <3>. QED  BY <1>1, <3>1, <3>2, <3>3, ExpiryMoves
  <2>2. ASSUME NEW p \in procs, StartWatch(p) PROVE registered' >= account'[v].expires
    <3>1. registered' = today + Lifetime /\ today' = today
      BY <2>2 DEF StartWatch
    <3>2. account'[v].expires <= today' + Lifetime  BY <1>1 DEF Dated
    <3>. QED  BY <1>2, <1>3, <3>1, <3>2
  <2>3. ASSUME NEW p \in procs, StopWatch(p) PROVE FALSE
    <3>1. ~Mine(v) /\ UNCHANGED account
      BY <1>1, <2>3, StopsForLast DEF StopWatch
    <3>. QED  BY <1>6, <3>1 DEF Mine
  <2>. QED  BY <2>1, <2>2, <2>3, WatchMoves
<1>7. ASSUME NEW r \in procs', r.at = "save" PROVE registered' >= r.expires
  <2>1. ASSUME NEW p \in procs, StartWatch(p) PROVE registered' >= r.expires
    <3>1. registered' = today + Lifetime /\ today' = today
      BY <2>1 DEF StartWatch
    <3>2. r.expires = today' + Lifetime  BY <1>1, <1>7 DEF Sound, AtWork, Works
    <3>. QED  BY <1>3, <3>1, <3>2
  <2>2. ASSUME NEW p \in procs, StopWatch(p) PROVE FALSE
    <3>1. p.at = "call" /\ p.kind = "cleanup"  BY <2>2 DEF StopWatch
    <3>2. CASE r \in procs  BY <1>1, <1>7, <3>1, <3>2, OneInCall DEF InCall
    <3>3. CASE r \notin procs
      <4>1. r.kind = "cleanup"
        <5>1. PICK q : Advances(p, q, "delete")  BY <1>1, <2>2, StopWatchDoes
        <5>. QED  BY <3>1, <3>3, <5>1 DEF Advances
      <4>. QED  BY <1>1, <1>7, <4>1 DEF Sound, AtWork, Works, Places
    <3>. QED  BY <3>2, <3>3
  <2>3. CASE UNCHANGED registered
    <3>1. CASE r \in procs  BY <1>5, <1>7, <2>3, <3>1
    <3>2. CASE r \notin procs
      <4>1. PICK p \in procs : CameFrom(r, p)  BY <1>1, <1>7, <3>2, ProcMoves
      <4>2. StartWatch(p)  BY <1>7, <4>1 DEF CameFrom
      <4>. QED  BY <2>1, <4>2
    <3>. QED  BY <3>1, <3>2
  <2>. QED  BY <2>1, <2>2, <2>3, WatchMoves
<1>8. ASSUME NEW r \in procs', r.kind \in {"renewal", "page"}, InCall(r) PROVE Mine(r.user)'
  <2>0. r.user \in User  BY <1>1 DEF TypeOK, Proc
  <2>1. CASE r \in procs
    <3>1. Mine(r.user) /\ holder # Free
      BY <1>1, <1>8, <2>1, OneInCall DEF Claimed
    <3>2. ~Disconnect(r.user)  BY <3>1 DEF Disconnect
    <3>. QED  BY <1>1, <2>0, <3>1, <3>2, StatusMoves DEF Mine
  <2>2. CASE r \notin procs
    <3>1. PICK p \in procs : CameFrom(r, p)
      BY <1>1, <1>8, <2>2, ProcMoves DEF InCall
    <3>2. CASE RenewalEnters(p) /\ Connected(p.user)
      BY <3>1, <3>2 DEF RenewalEnters, Connected, Mine, CameFrom
    <3>3. CASE StartWatch(p) /\ p.at = "call"
      <4>1. Mine(p.user)
        BY <1>1, <1>8, <3>1, <3>3 DEF Claimed, InCall, CameFrom
      <4>. QED  BY <3>1, <3>3, <4>1 DEF StartWatch, Mine, CameFrom
    <3>. QED
      BY <1>8, <3>1, <3>2, <3>3 DEF CameFrom, InCall, CallbackEnters, CleanupEnters, StopWatch
  <2>. QED  BY <2>1, <2>2
<1>9. ASSUME NEW r \in procs', r.kind = "cleanup", r.at = "call" PROVE ~HasOthers(r.user)'
  <2>1. CASE r \in procs
    <3>1. ~HasOthers(r.user)  BY <1>1, <1>9, <2>1 DEF Claimed
    <3>2. ASSUME NEW v \in User \ {r.user}, Mine(v)' PROVE FALSE
      <4>1. ~Mine(v)  BY <3>1 DEF HasOthers, Mine
      <4>2. PICK p \in procs : CallbackSaves(p)
        BY <1>1, <3>2, <4>1, StatusMoves, CleanupEndsDoes DEF Mine
      <4>3. p.at = "save" /\ p.kind = "callback"  BY <4>2 DEF CallbackSaves
      <4>. QED  BY <1>1, <1>9, <2>1, <4>3, OneInCall DEF InCall
    <3>. QED  BY <3>2 DEF HasOthers, Mine
  <2>2. CASE r \notin procs
    <3>1. PICK p \in procs : CameFrom(r, p)  BY <1>1, <1>9, <2>2, ProcMoves
    <3>2. CleanupEnters(p) /\ ~HasOthers(p.user)
      BY <1>9, <3>1 DEF CameFrom, CallbackEnters, RenewalEnters
    <3>. QED  BY <3>1, <3>2 DEF CleanupEnters, HasOthers, CameFrom
  <2>. QED  BY <2>1, <2>2
<1>. QED  BY <1>6, <1>7, <1>8, <1>9

\* Which step takes an attempt away or further.
LEMMA ProcLeaves ==
    ASSUME Sound, [Next]_vars, NEW p \in procs, p \notin procs'
    PROVE  \/ CallbackEnters(p) \/ CallbackSaves(p)
           \/ RenewalEnters(p) \/ StartWatch(p) \/ RenewalSaves(p) \/ RenewalSchedules(p)
           \/ RenewalEnds(p) \/ CleanupEnters(p) \/ StopWatch(p) \/ CleanupEnds(p)
           \/ FindsLockGone(p) \/ FindsGrantGone(p) \/ AttemptFails(p)
<1>1. TypeOK  BY DEF Sound
<1>2. CASE procs \subseteq procs'  BY <1>2
<1>3. ASSUME NEW q, Begins(q) PROVE FALSE  BY <1>3 DEF Begins
<1>4. ASSUME NEW x \in procs, Ends(x) \/ \E q : Moves(x, q) PROVE p = x
  BY <1>4 DEF Ends, Moves
<1>5. ASSUME NEW x \in procs,
             \/ CallbackEnters(x) \/ CallbackSaves(x)
             \/ RenewalEnters(x) \/ StartWatch(x) \/ RenewalSaves(x) \/ RenewalSchedules(x)
             \/ RenewalEnds(x) \/ CleanupEnters(x) \/ StopWatch(x) \/ CleanupEnds(x)
             \/ FindsLockGone(x) \/ FindsGrantGone(x) \/ AttemptFails(x)
      PROVE  p = x
  <2>1. CASE CallbackEnters(x) \/ CallbackSaves(x)
    BY <1>4, <2>1 DEF CallbackEnters, CallbackSaves
  <2>2. CASE RenewalEnters(x) \/ StartWatch(x)
    BY <1>4, <2>2 DEF RenewalEnters, StartWatch
  <2>3. CASE RenewalSaves(x) \/ RenewalSchedules(x)
    BY <1>4, <2>3 DEF RenewalSaves, RenewalSchedules
  <2>4. CASE RenewalEnds(x) \/ CleanupEnters(x)
    BY <1>4, <2>4 DEF RenewalEnds, CleanupEnters
  <2>5. CASE StopWatch(x) \/ CleanupEnds(x)
    BY <1>4, <2>5 DEF StopWatch, CleanupEnds
  <2>6. CASE FindsLockGone(x) \/ FindsGrantGone(x) \/ AttemptFails(x)
    BY <1>4, <2>6 DEF FindsLockGone, FindsGrantGone, AttemptFails, GivesUp
  <2>. QED  BY <1>5, <2>1, <2>2, <2>3, <2>4, <2>5, <2>6
<1>6. ASSUME NEW u \in User, Authorizes(u) \/ PageLooks(u)
      PROVE  procs \subseteq procs' \/ \E q : Begins(q)
  BY <1>1, <1>6, AuthorizesDoes, PageLooksDoes
<1>7. ASSUME NEW u \in User,
             Disconnect(u) \/ RevokeGrant(u) \/ MarkReconnectRequired(u) \/ EnsureDaily(u)
      PROVE  procs \subseteq procs'
  BY <1>7 DEF Disconnect, RevokeGrant, MarkReconnectRequired, EnsureDaily
<1>8. ASSUME NEW s \in steps, StartStep(s) PROVE procs \subseteq procs' \/ \E q : Begins(q)
  BY <1>1, <1>8, StartStepDoes
<1>9. CASE LockDrops \/ DayPasses \/ UNCHANGED vars
  BY <1>2, <1>9 DEF LockDrops, DayPasses, vars
<1>. QED  BY <1>2, <1>3, <1>5, <1>6, <1>7, <1>8, <1>9 DEF Next, Work

Clean == Undropped /\ spent["errors"] = 0 /\ spent["refusals"] = 0

\* As long as nothing goes wrong with the calls to Google: what is registered has a connection,
\* or a callback that is about to make one; and a cleanup that is about to remove its
\* connection has stopped the watch or leaves it to another.
Needed == Clean =>
    /\ registered # 0 => \/ \E u \in User : account[u].status # "none"
                         \/ \E p \in procs : p.kind = "callback" /\ p.at = "save"
    /\ \A p \in procs : p.kind = "cleanup" /\ p.at = "delete" => registered = 0 \/ HasOthers(p.user)

\* What is registered stays needed.
LEMMA NeededKept ==
    ASSUME Held, Claimed, Needed, [Next]_vars
    PROVE  Needed'
<1>. SUFFICES ASSUME Clean' PROVE
        /\ registered' # 0 => \/ \E u \in User : account'[u].status # "none"
                              \/ \E p \in procs' : p.kind = "callback" /\ p.at = "save"
        /\ \A p \in procs' :
              p.kind = "cleanup" /\ p.at = "delete" => registered' = 0 \/ HasOthers(p.user)'
  BY DEF Needed, HasOthers
<1>1. /\ Clean /\ Undropped /\ Sound' /\ Sound /\ Locked /\ TypeOK /\ TypeOK'
  BY SoundKept, NotBefore DEF Held, Sound, Clean, Undropped, Counters
<1>2. ASSUME NEW p \in procs, StopWatch(p) PROVE registered' = 0
  <2>1. CASE spent' = [spent EXCEPT !["refusals"] = 1]
    <3>1. spent'["refusals"] = 1  BY <1>1, <2>1 DEF TypeOK, Counters
    <3>. QED  BY <3>1 DEF Clean
  <2>. QED  BY <1>1, <1>2, <2>1, StopWatchDoes
<1>3. ASSUME NEW p \in procs, AttemptFails(p) PROVE FALSE
  <2>1. spent' = [spent EXCEPT !["errors"] = @ + 1]
    BY <1>3 DEF AttemptFails, Spend
  <2>2. spent'["errors"] = 1  BY <1>1, <2>1 DEF TypeOK, Counters, Clean
  <2>. QED  BY <2>2 DEF Clean
<1>4. ASSUME registered' # 0
      PROVE  \/ \E u \in User : account'[u].status # "none"
             \/ \E p \in procs' : p.kind = "callback" /\ p.at = "save"
  <2>1. ASSUME NEW p \in procs, StartWatch(p)
        PROVE  \/ \E u \in User : account'[u].status # "none"
               \/ \E x \in procs' : x.kind = "callback" /\ x.at = "save"
    <3>1. p.user \in User /\ p.kind \in {"callback", "renewal", "page"}
      BY <1>1, <2>1 DEF TypeOK, Proc, Kind, StartWatch
    <3>2. CASE p.kind = "callback"
      <4>1. PICK q : Advances(p, q, "save")  BY <1>1, <2>1, StartWatchDoes
      <4>. QED  BY <3>2, <4>1 DEF Advances
    <3>3. CASE p.kind \in {"renewal", "page"}
      <4>1. Mine(p.user) /\ UNCHANGED account
        BY <1>1, <2>1, <3>3 DEF Claimed, InCall, StartWatch
      <4>. QED  BY <3>1, <4>1 DEF Mine
    <3>. QED  BY <3>1, <3>2, <3>3
  <2>2. CASE UNCHANGED registered
    <3>1. CASE \E u \in User : account[u].status # "none"
      <4>1. PICK u \in User : account[u].status # "none"  BY <3>1
      <4>2. ASSUME NEW p \in procs, CleanupEnds(p), p.user = u
            PROVE  \E v \in User : account'[v].status # "none"
        <5>1. p.kind = "cleanup" /\ p.at = "delete"
              /\ \A v \in User : v # p.user => account'[v] = account[v]
          BY <1>1, <4>2, CleanupEndsDoes
        <5>2. HasOthers(p.user)  BY <1>1, <1>4, <2>2, <5>1 DEF Needed
        <5>. QED  BY <5>1, <5>2 DEF HasOthers
      <4>3. CASE account'[u].status # "none"  BY <4>3
      <4>4. CASE Disconnect(u)
        <5>1. account' = [account EXCEPT ![u].status = "disconnected"]
              /\ account[u] \in Account /\ account \in [User -> Account]
          BY <1>1, <4>4 DEF Disconnect, TypeOK
        <5>2. account'[u].status = "disconnected"  BY <5>1 DEF Account
        <5>. QED  BY <5>2
      <4>5. CASE Mine(u)'  BY <4>5 DEF Mine
      <4>. QED  BY <1>1, <4>1, <4>2, <4>3, <4>4, <4>5, StatusMoves
    <3>2. CASE \E p \in procs : p.kind = "callback" /\ p.at = "save"
      <4>1. PICK p \in procs : p.kind = "callback" /\ p.at = "save"  BY <3>2
      <4>2. CASE p \in procs'  BY <4>1, <4>2
      <4>3. CASE p \notin procs'
        <5>1. Holds(p)  BY <1>1, <4>1 DEF Locked, InCall
        <5>2. CallbackSaves(p)
          BY <1>1, <1>3, <4>1, <4>3, <5>1, ProcLeaves
             DEF CallbackEnters, RenewalEnters, StartWatch, RenewalSaves, RenewalSchedules,
                 RenewalEnds, CleanupEnters, StopWatch, CleanupEnds, FindsLockGone, FindsGrantGone
        <5>3. PICK u \in User : u = p.user  BY <1>1 DEF TypeOK, Proc
        <5>4. account'[u] = Started(p)
          BY <1>1, <5>2, <5>3 DEF CallbackSaves, TypeOK
        <5>5. account'[u].status = "connected"
          <6>1. PICK a : a = account'[u]  OBVIOUS
          <6>2. a = Started(p)  BY <5>4, <6>1
          <6>3. a.status = "connected"  BY <6>2 DEF Started
          <6>. QED  BY <6>1, <6>3
        <5>. QED  BY <5>5
      <4>. QED  BY <4>2, <4>3
    <3>. QED  BY <1>1, <1>4, <2>2, <3>1, <3>2 DEF Needed
  <2>. QED  BY <1>2, <1>4, <2>1, <2>2, WatchMoves
<1>5. ASSUME NEW r \in procs', r.kind = "cleanup", r.at = "delete"
      PROVE  registered' = 0 \/ HasOthers(r.user)'
  <2>1. CASE r \in procs
    <3>1. ASSUME NEW p \in procs, StartWatch(p) PROVE FALSE
      BY <1>1, <1>5, <2>1, <3>1, OneInCall DEF StartWatch, InCall
    <3>2. UNCHANGED registered \/ registered' = 0  BY <1>2, <3>1, WatchMoves
    <3>3. CASE HasOthers(r.user)
      <4>1. PICK v \in User \ {r.user} : Mine(v)  BY <3>3 DEF HasOthers, Mine
      <4>2. holder # Free  BY <1>1, <1>5, <2>1, OneInCall DEF InCall
      <4>3. Mine(v)'  BY <1>1, <4>1, <4>2, StatusMoves DEF Mine, Disconnect
      <4>. QED  BY <4>1, <4>3 DEF HasOthers, Mine
    <3>. QED  BY <1>1, <1>5, <2>1, <3>2, <3>3 DEF Needed
  <2>2. CASE r \notin procs
    <3>1. PICK p \in procs : CameFrom(r, p)  BY <1>1, <1>5, <2>2, ProcMoves
    <3>2. CASE StopWatch(p)  BY <1>2, <3>2
    <3>3. CASE CleanupEnters(p) /\ HasOthers(p.user)
      BY <3>1, <3>3 DEF CleanupEnters, HasOthers, CameFrom
    <3>. QED  BY <1>5, <3>1, <3>2, <3>3 DEF CameFrom
  <2>. QED  BY <2>1, <2>2
<1>. QED  BY <1>4, <1>5

\* The layers so far.
Registered == Held /\ Claimed /\ Needed

\* The layers so far are kept.
LEMMA RegisteredKept ==
    Registered /\ [Next]_vars => Registered'
<1>. SUFFICES ASSUME Registered, [Next]_vars PROVE Registered'
  OBVIOUS
<1>1. Held'  BY SoundKept, LockedKept, DatedKept DEF Registered, Held
<1>2. Claimed' /\ Needed'  BY ClaimedKept, NeededKept DEF Registered
<1>. QED  BY <1>1, <1>2 DEF Registered

\* The initial state satisfies them.
LEMMA RegisteredFirst ==
    Init => Registered
<1>. SUFFICES ASSUME Init PROVE Registered
  OBVIOUS
<1>1. Sound  BY SoundFirst
<1>2. registered = 0 /\ today = 0 /\ procs = {}
      /\ \A u \in User : account[u].expires = 0 /\ account[u].status = "none"
  BY DEF Init
<1>3. Locked /\ Claimed /\ Needed  BY <1>2 DEF Locked, Claimed, Needed, Mine
<1>4. Dated  BY <1>2, ConnectionsAssumption DEF Dated
<1>. QED  BY <1>1, <1>3, <1>4 DEF Registered, Held

\* A watch that the row of a connection claims is registered at Gmail: no cleanup stops the
\* watch of a mailbox that somebody else still has connected or may authorize again, for any
\* number of users, of which each may come and go while the others renew (gmail-identity.ts).
THEOREM WatchKept ==
    Spec => []SharedWatchKept
<1>1. Registered => SharedWatchKept
  BY DEF Registered, Claimed, Undropped, Mine, SharedWatchKept
<1>. QED  BY <1>1, RegisteredFirst, RegisteredKept, PTL DEF Spec

\* Once the last connection is removed nothing is registered, unless a call to Google failed,
\* was refused or lost its lock (watch-lifecycle.ts).
THEOREM NothingLeft ==
    Spec => []NobodysWatch
<1>1. Registered => NobodysWatch
  BY DEF Registered, Needed, Clean, Undropped, NobodysWatch
<1>. QED  BY <1>1, RegisteredFirst, RegisteredKept, PTL DEF Spec

-----------------------------------------------------------------------------
(* The fourth layer: every connection has a renewal ahead of it.           *)

\* u is connected, and has been since it was authorized first.
Sure(u) == Connected(u) /\ ~account[u].restored

RenewalOf(s, u) == s.user = u /\ s.kind = "renewal"

\* s will renew the watch of u before it expires.
Ahead(s, u) == RenewalOf(s, u) /\ Open(s) /\ s.live /\ s.runAt < account[u].expires

\* A step that is not due is there to be done, a daily one is due on the day it is named after,
\* and one that recovers another follows it.
Linked(s) ==
    /\ s.key.recovery >= 0
    /\ s.runAt > today => Open(s) /\ s.live
    /\ s.key.recovery = 0 => s.runAt = s.key.day
    /\ s.key.recovery > 0 => \E r \in steps :
          /\ RenewalOf(r, s.user) /\ r.status = "failed"
          /\ r.key.day = s.key.day /\ r.key.recovery = s.key.recovery - 1

\* Where the renewal of u is in its course.
OnCourse(u) == \A p \in procs : p.user = u /\ p.kind = "renewal" =>
    /\ p.at = "schedule" => account[u].expires = today + Lifetime
    /\ p.at = "catchup" => \E s \in steps : Ahead(s, u) /\ today < s.runAt

Chain(u) ==
    /\ account[u].expires > today
    /\ \E s \in steps : Ahead(s, u)
    /\ \A s \in steps : RenewalOf(s, u) => Linked(s)
    /\ OnCourse(u)
Chained == \A u \in User : Sure(u) => Chain(u)

\* Only the callback that makes a connection makes it one of these.
LEMMA SureMoves ==
    ASSUME Sound, [Next]_vars, NEW v \in User, Sure(v)'
    PROVE  Sure(v) \/ \E p \in procs : CallbackSaves(p) /\ p.user = v
<1>1. TypeOK /\ account \in [User -> Account] /\ \A p \in procs : p.user \in User
  BY DEF Sound, TypeOK, Proc
<1>2. ASSUME UNCHANGED account PROVE Sure(v)  BY <1>2 DEF Sure, Connected
<1>3. ASSUME NEW u \in User, NEW a \in Account, account' = [account EXCEPT ![u] = a],
             a.status = "connected" /\ ~a.restored =>
                account[u].status = "connected" /\ ~account[u].restored
      PROVE  Sure(v)
  BY <1>1, <1>3 DEF Sure, Connected
<1>4. ASSUME NEW p \in procs, CallbackEnters(p) PROVE Sure(v)
  <2>1. PICK u \in User : u = p.user  BY <1>1
  <2>2. CASE /\ account[u].status # "none" /\ account[u].status # "disconnected"
             /\ account' = [account EXCEPT ![u] = Reauthorized(account[u])]
    <3>1. PICK a : a = Reauthorized(account[u])  OBVIOUS
    <3>2. a \in Account /\ account[u] \in Account
          /\ a.restored = (account[u].restored \/ account[u].status = "reconnect_required")
      BY <1>1, <3>1, ReauthorizedIs
    <3>3. account[u].status \in {"connected", "reconnect_required"}
      BY <2>2, <3>2 DEF Account
    <3>. QED  BY <1>3, <2>2, <3>1, <3>2, <3>3
  <2>. QED  BY <1>1, <1>2, <1>4, <2>1, <2>2, CallbackEntersDoes
<1>5. ASSUME NEW p \in procs, RenewalSaves(p) PROVE Sure(v)
  <2>1. /\ account'[p.user].status = account[p.user].status
        /\ account'[p.user].restored = account[p.user].restored
        /\ v # p.user => account'[v] = account[v]
    BY <1>1, <1>5, RenewalSavesDoes
  <2>. QED  BY <2>1 DEF Sure, Connected
<1>6. ASSUME NEW p \in procs, CleanupEnds(p) PROVE Sure(v)
  <2>1. (v # p.user => account'[v] = account[v]) /\ account'[p.user].status = "none"
    BY <1>1, <1>6, CleanupEndsDoes
  <2>. QED  BY <2>1 DEF Sure, Connected
<1>7. ASSUME NEW u \in User, Loses(u) PROVE Sure(v)
  <2>1. CASE v # u  BY <1>1, <1>7, <2>1, LosesDoes DEF Sure, Connected
  <2>2. CASE v = u
    <3>1. account[u].status \in {"none", "disconnected", "connected", "reconnect_required"}
      BY <1>1 DEF Account
    <3>2. account'[u].status # "connected"  BY <1>1, <1>7, <3>1, LosesDoes
    <3>. QED  BY <2>2, <3>2 DEF Sure, Connected
  <2>. QED  BY <2>1, <2>2
<1>8. ASSUME NEW p \in procs, FailsStep(p) PROVE Sure(v)
  <2>1. CASE account' = [account EXCEPT ![p.user].failed = p.key]
    <3>1. PICK a : a = [account[p.user] EXCEPT !.failed = p.key]  OBVIOUS
    <3>2. account' = [account EXCEPT ![p.user] = a] /\ account[p.user] \in Account /\ p.key \in Key
      BY <1>1, <2>1, <3>1 DEF TypeOK, Proc
    <3>3. a \in Account /\ a.status = account[p.user].status /\ a.restored = account[p.user].restored
      BY <3>1, <3>2 DEF Account
    <3>. QED  BY <1>1, <1>3, <3>2, <3>3
  <2>. QED  BY <1>2, <1>8, <2>1 DEF FailsStep
<1>9. ASSUME NEW p \in procs, FindsGrantGone(p) PROVE Sure(v)
  <2>1. PICK u \in User : u = p.user  BY <1>1
  <2>. QED  BY <1>2, <1>7, <1>9, <2>1, FindsGrantGoneDoes
<1>10. ASSUME NEW u \in User, PageLooks(u) PROVE Sure(v)
  <2>1. CASE account' = [account EXCEPT ![u].building = FALSE]
    <3>1. PICK a : a = [account[u] EXCEPT !.building = FALSE]  OBVIOUS
    <3>2. account' = [account EXCEPT ![u] = a] /\ account[u] \in Account
      BY <1>1, <2>1, <3>1
    <3>3. a \in Account /\ a.status = account[u].status /\ a.restored = account[u].restored
      BY <3>1, <3>2 DEF Account
    <3>. QED  BY <1>3, <3>2, <3>3
  <2>. QED  BY <1>1, <1>2, <1>10, <2>1, PageLooksDoes
<1>11. ASSUME NEW u \in User, Disconnect(u) PROVE Sure(v)
  <2>1. PICK a : a = [account[u] EXCEPT !.status = "disconnected"]  OBVIOUS
  <2>2. account' = [account EXCEPT ![u] = a] /\ account[u] \in Account
    BY <1>1, <1>11, <2>1 DEF Disconnect
  <2>3. a \in Account /\ a.status = "disconnected"  BY <2>1, <2>2 DEF Account
  <2>. QED  BY <1>3, <2>2, <2>3
<1>12. ASSUME NEW p \in procs, CallbackSaves(p), p.user # v PROVE Sure(v)
  BY <1>1, <1>12 DEF CallbackSaves, Sure, Connected
<1>13. ASSUME NEW p \in procs,
              \/ RenewalEnters(p) \/ StartWatch(p) \/ RenewalSchedules(p)
              \/ RenewalEnds(p) \/ CleanupEnters(p) \/ StopWatch(p)
       PROVE  UNCHANGED account
  BY <1>13 DEF RenewalEnters, StartWatch, RenewalSchedules, RenewalEnds, CleanupEnters, StopWatch
<1>14. ASSUME NEW p \in procs, FindsLockGone(p) \/ AttemptFails(p) PROVE FailsStep(p)
  BY <1>14, GivesUpDoes DEF FindsLockGone, AttemptFails
<1>15. ASSUME NEW u \in User, Authorizes(u) \/ RevokeGrant(u) \/ EnsureDaily(u)
       PROVE  UNCHANGED account
  BY <1>15 DEF Authorizes, RevokeGrant, EnsureDaily
<1>16. ASSUME NEW u \in User, MarkReconnectRequired(u) PROVE Loses(u)
  BY <1>16 DEF MarkReconnectRequired
<1>17. ASSUME NEW s \in steps, StartStep(s) PROVE UNCHANGED account
  BY <1>17 DEF StartStep
<1>18. CASE LockDrops \/ DayPasses \/ UNCHANGED vars
  BY <1>2, <1>18 DEF LockDrops, DayPasses, vars
<1>. QED  BY <1>2, <1>4, <1>5, <1>6, <1>7, <1>8, <1>9, <1>10, <1>11, <1>12, <1>13, <1>14, <1>15,
     <1>16, <1>17, <1>18 DEF Next, Work

\* The renewals of u are what they were.
Untouched(u) == \A s : RenewalOf(s, u) => (s \in steps' <=> s \in steps)

\* What keeps the renewals of u as they were.
LEMMA UntouchedBy ==
    ASSUME Sound, NEW u \in User
    PROVE  /\ UNCHANGED steps => Untouched(u)
           /\ \A s \in steps : \A t : ~RenewalOf(s, u) /\ Kept(s, t) /\ steps' = Replaced(steps, s, t)
                 => Untouched(u)
           /\ \A v, kind, key, runAt :
                 (v # u \/ kind # "renewal") /\ steps' = Enqueued(steps, v, kind, key, runAt)
                 => Untouched(u)
           /\ \A v \in User : v # u /\ steps' = Terminalized(steps, v) => Untouched(u)
           /\ \A v \in User : v # u /\ steps' = {s \in steps : s.user # v} => Untouched(u)
<1>1. UNCHANGED steps => Untouched(u)  BY DEF Untouched
<1>2. ASSUME NEW s \in steps, NEW t, ~RenewalOf(s, u), Kept(s, t), steps' = Replaced(steps, s, t)
      PROVE  Untouched(u)
  BY <1>2 DEF Untouched, Replaced, RenewalOf, Kept
<1>3. ASSUME NEW v, NEW kind, NEW key, NEW runAt, v # u \/ kind # "renewal",
             steps' = Enqueued(steps, v, kind, key, runAt)
      PROVE  Untouched(u)
  BY <1>3 DEF Untouched, Enqueued, RenewalOf
<1>4. ASSUME NEW v \in User, v # u, steps' = Terminalized(steps, v) PROVE Untouched(u)
  <2>1. PICK ss : ss = steps  OBVIOUS
  <2>2. WellKept(ss) /\ steps' = Terminalized(ss, v)
    BY <1>4, <2>1, TypesAre DEF Sound
  <2>3. ASSUME NEW s, RenewalOf(s, u), s \in ss PROVE s \in steps'
    <3>1. PICK t \in Terminalized(ss, v) : s.kind # "renewal" \/ s.user # v => t = s
      BY <2>2, <2>3, TerminalizedIs
    <3>. QED  BY <1>4, <2>2, <2>3, <3>1 DEF RenewalOf
  <2>4. ASSUME NEW t, RenewalOf(t, u), t \in steps' PROVE t \in ss
    <3>1. PICK s \in ss : Wanes(s, t) /\ (s.kind # "renewal" \/ s.user # v => t = s)
      BY <2>2, <2>4, TerminalizedIs
    <3>. QED  BY <1>4, <2>4, <3>1 DEF RenewalOf, Wanes, Kept
  <2>. QED  BY <2>1, <2>3, <2>4 DEF Untouched
<1>5. ASSUME NEW v \in User, v # u, steps' = {s \in steps : s.user # v} PROVE Untouched(u)
  BY <1>5 DEF Untouched, RenewalOf
<1>. QED  BY <1>1, <1>2, <1>3, <1>4, <1>5

\* Which steps touch the renewals of a connection that stays connected.
LEMMA RenewalsMove ==
    ASSUME Sound, [Next]_vars, NEW u \in User, Sure(u), Sure(u)', \E s \in steps : Ahead(s, u)
    PROVE  \/ Untouched(u)
           \/ \E s \in steps : RenewalOf(s, u) /\ StartStep(s)
           \/ \E p \in procs : /\ p.user = u /\ p.kind = "renewal"
                               /\ RenewalSchedules(p) \/ RenewalEnds(p) \/ FailsStep(p)
<1> DEFINE Touches == \/ \E s \in steps : RenewalOf(s, u) /\ StartStep(s)
                      \/ \E p \in procs : /\ p.user = u /\ p.kind = "renewal"
                                          /\ RenewalSchedules(p) \/ RenewalEnds(p) \/ FailsStep(p)
<1>1. TypeOK /\ \A p \in procs : p.user \in User  BY DEF Sound, TypeOK, Proc
<1>2. account[u].status = "connected" /\ account'[u].status = "connected"
  BY DEF Sure, Connected
<1>3. ASSUME UNCHANGED steps PROVE Untouched(u)  BY <1>3, UntouchedBy
<1>4. ASSUME NEW p \in procs, StepEnds(p), p.user # u \/ p.kind # "renewal" PROVE Untouched(u)
  <2>1. PICK s \in steps, t \in Step : IsOf(s, p) /\ Wanes(s, t) /\ steps' = Replaced(steps, s, t)
    BY <1>4 DEF StepEnds
  <2>. QED  BY <1>4, <2>1, UntouchedBy DEF IsOf, RenewalOf, Wanes
<1>5. ASSUME NEW p \in procs, CallbackSaves(p) PROVE Untouched(u)
  <2>1. account[p.user].status = "none" /\ steps' = WithDaily(steps, p.user, p.renewed)
    BY <1>5 DEF CallbackSaves, Sound, AtWork, Works, StatusOf
  <2>2. p.user # u  BY <1>2, <2>1
  <2>. QED  BY <2>1, <2>2, UntouchedBy DEF WithDaily
<1>6. ASSUME NEW v \in User, Disconnect(v) PROVE Untouched(u)
  <2>1. steps' = Enqueued(steps, v, "cleanup", NoKey, today)
    BY <1>1, <1>6, DisconnectDoes
  <2>2. "cleanup" # "renewal"  OBVIOUS
  <2>. QED  BY <2>1, <2>2, UntouchedBy
<1>7. ASSUME NEW v \in User, Loses(v) PROVE Untouched(u)
  <2>1. v # u  BY <1>1, <1>2, <1>7, LosesDoes
  <2>. QED  BY <1>1, <1>7, <2>1, LosesDoes, UntouchedBy
<1>8. ASSUME NEW v \in User, EnsureDaily(v) PROVE Untouched(u)
  <2>1. OpenRenewals(v) = {} /\ \E key \in Key : steps' = Enqueued(steps, v, "renewal", key, RecoveryDay(v))
    BY <1>1, <1>8, EnsureDailyDoes
  <2>2. v # u  BY <2>1 DEF OpenRenewals, Ahead, RenewalOf
  <2>. QED  BY <2>1, <2>2, UntouchedBy
<1>9. ASSUME NEW s \in steps, StartStep(s) PROVE Untouched(u) \/ Touches
  <2>1. CASE RenewalOf(s, u)  BY <1>9, <2>1
  <2>2. CASE ~RenewalOf(s, u)
    <3>1. \E t : Kept(s, t) /\ steps' = Replaced(steps, s, t)
      BY <1>1, <1>9, StartStepDoes DEF Wanes
    <3>. QED  BY <2>2, <3>1, UntouchedBy
  <2>. QED  BY <2>1, <2>2
<1>10. ASSUME NEW p \in procs, RenewalEnters(p) PROVE Untouched(u)
  <2>1. \/ UNCHANGED steps
        \/ ~Connected(p.user) /\ StepEnds(p)
    BY <1>10, RenewalEntersDoes
  <2>. QED  BY <1>2, <1>3, <1>4, <2>1 DEF Connected
<1>11. ASSUME NEW p \in procs, RenewalSchedules(p) PROVE Untouched(u) \/ Touches
  <2>1. /\ p.kind = "renewal"
        /\ steps' = Enqueued(steps, p.user, "renewal", Daily(p.renewed + 1), p.renewed + 1)
    BY <1>1, <1>11, RenewalSchedulesDoes
  <2>2. CASE p.user # u  BY <2>1, <2>2, UntouchedBy
  <2>. QED  BY <1>11, <2>1, <2>2
<1>12. ASSUME NEW p \in procs, RenewalEnds(p) PROVE Untouched(u) \/ Touches
  <2>1. p.kind = "renewal" /\ StepEnds(p)
    BY <1>12, CompletedEnds DEF RenewalEnds
  <2>. QED  BY <1>4, <1>12, <2>1
<1>13. ASSUME NEW p \in procs, CleanupEnds(p) PROVE Untouched(u)
  <2>1. p.kind = "cleanup" /\ steps' = {s \in steps : s.user # p.user}
    BY <1>1, <1>13, CleanupEndsDoes
  <2>2. p.user # u  BY <1>2, <2>1 DEF Sound, AtWork, Works, StatusOf
  <2>. QED  BY <1>1, <2>1, <2>2, UntouchedBy
<1>14. ASSUME NEW p \in procs, FailsStep(p) PROVE Untouched(u) \/ Touches
  <2>1. CASE p.user = u /\ p.kind = "renewal"  BY <1>14, <2>1
  <2>2. CASE p.user # u \/ p.kind # "renewal"
    <3>1. ASSUME NEW s \in steps, NEW t, IsOf(s, p), Wanes(s, t), steps' = Replaced(steps, s, t)
          PROVE  Untouched(u)
      BY <2>2, <3>1, UntouchedBy DEF IsOf, RenewalOf, Wanes
    <3>2. ASSUME NEW s \in steps, NEW t, IsOf(s, p), Wanes(s, t), t.status = "failed",
                 p.kind = "renewal",
                 steps' = Enqueued(Replaced(steps, s, t), p.user, "renewal",
                                   RecoveryOf(p.key), RecoveryDay(p.user))
          PROVE  Untouched(u)
      <4>1. PICK v, key, d : v = p.user /\ key = RecoveryOf(p.key) /\ d = RecoveryDay(p.user)
        OBVIOUS
      <4>2. v \in User /\ key \in Key /\ d \in Nat
        <5>1. p.key \in Key  BY <1>1 DEF TypeOK, Proc
        <5>. QED  BY <1>1, <4>1, <5>1, RecoveryOfIs, RecoveryDayIs
      <4>3. ~Open(t) /\ steps' = Enqueued(Replaced(steps, s, t), v, "renewal", key, d)
        BY <3>2, <4>1 DEF Open
      <4>4. /\ \A r \in steps : r # s => r \in steps'
            /\ \A r \in steps' : r = t \/ r \in steps \/ r.user = v
        BY <3>2, <4>2, <4>3, SucceededSteps
      <4>5. v # u /\ s.user = v /\ t.user = v
        BY <2>2, <3>2, <4>1 DEF IsOf, Wanes, Kept
      <4>. QED  BY <4>4, <4>5 DEF Untouched, RenewalOf
    <3>. QED  BY <1>3, <1>14, <3>1, <3>2 DEF FailsStep
  <2>. QED  BY <2>1, <2>2
<1>15. ASSUME NEW p \in procs, FindsGrantGone(p) PROVE Untouched(u)
  <2>1. PICK v \in User : v = p.user  BY <1>1
  <2>2. CASE /\ p.kind = "cleanup"
             /\ \E s \in steps, t \in Step :
                   IsOf(s, p) /\ Wanes(s, t) /\ steps' = Replaced(Terminalized(steps, p.user), s, t)
    <3>1. PICK s \in steps, t \in Step :
             IsOf(s, p) /\ Wanes(s, t) /\ steps' = Replaced(Terminalized(steps, v), s, t)
      BY <2>1, <2>2
    <3>2. s.kind = "cleanup" /\ t.kind = "cleanup"
      BY <2>2, <3>1 DEF IsOf, Wanes, Kept
    <3>3. v # u  BY <1>2, <2>1, <2>2 DEF Sound, AtWork, Works, StatusOf
    <3>4. /\ WellKept(steps')
          /\ \A r \in steps : r # s => \E q \in steps' :
                Wanes(r, q) /\ (r.kind # "renewal" \/ r.user # v => q = r)
          /\ \A q \in steps' :
                \/ q = t
                \/ \E r \in steps : r # s /\ Wanes(r, q) /\ (~Open(q) \/ q = r)
      BY <3>1, <3>2, TerminatedSteps
    <3>5. ASSUME NEW r \in steps, RenewalOf(r, u) PROVE r \in steps'
      BY <3>2, <3>3, <3>4, <3>5 DEF RenewalOf
    <3>6. ASSUME NEW q \in steps', RenewalOf(q, u) PROVE q \in steps
      <4>1. PICK r \in steps : r # s /\ Wanes(r, q)
        BY <3>2, <3>4, <3>6 DEF RenewalOf
      <4>2. RenewalOf(r, u) /\ r.key = q.key
        BY <3>6, <4>1 DEF RenewalOf, Wanes, Kept
      <4>3. r \in steps'  BY <3>5, <4>2
      <4>. QED  BY <3>4, <3>6, <4>2, <4>3 DEF WellKept, RenewalOf
    <3>. QED  BY <3>5, <3>6 DEF Untouched
  <2>3. CASE UNCHANGED steps \/ Loses(p.user)  BY <1>1, <1>3, <1>7, <2>3
  <2>. QED  BY <1>15, <2>2, <2>3, FindsGrantGoneDoes
<1>16. ASSUME NEW p \in procs, FindsLockGone(p) \/ AttemptFails(p) PROVE FailsStep(p)
  BY <1>16, GivesUpDoes DEF FindsLockGone, AttemptFails
<1>17. ASSUME NEW p \in procs,
              CallbackEnters(p) \/ StartWatch(p) \/ RenewalSaves(p) \/ CleanupEnters(p) \/ StopWatch(p)
       PROVE  UNCHANGED steps
  BY <1>17 DEF CallbackEnters, StartWatch, RenewalSaves, CleanupEnters, StopWatch
<1>18. ASSUME NEW v \in User, PageLooks(v) \/ Authorizes(v) \/ RevokeGrant(v) PROVE UNCHANGED steps
  BY <1>18 DEF PageLooks, Authorizes, RevokeGrant
<1>19. ASSUME NEW v \in User, MarkReconnectRequired(v) PROVE Loses(v)
  BY <1>19 DEF MarkReconnectRequired
<1>20. CASE LockDrops \/ DayPasses \/ UNCHANGED vars
  BY <1>3, <1>20 DEF LockDrops, DayPasses, vars
<1>21. Untouched(u) \/ Touches
  <2> HIDE DEF Touches
  <2>. QED
    BY <1>3, <1>5, <1>6, <1>7, <1>8, <1>9, <1>10, <1>11, <1>12, <1>13, <1>14, <1>15, <1>16,
       <1>17, <1>18, <1>19, <1>20 DEF Next, Work
<1>. QED  BY <1>21

\* t is the step s, later: if s is not due t is as open as s was, and what has failed has failed.
Stays(s, t) ==
    /\ Kept(s, t) /\ (s.status = "failed" => t.status = "failed")
    /\ s.runAt > today => t.status = s.status /\ t.live = s.live

\* The renewals of u are still there, each that is new is linked, and one is ahead.
Carried(u) ==
    /\ \A s \in steps : RenewalOf(s, u) => \E t \in steps' : Stays(s, t)
    /\ \A t \in steps' : RenewalOf(t, u) => Linked(t)' \/ \E s \in steps : Stays(s, t)
    /\ \E t \in steps' : RenewalOf(t, u) /\ Open(t) /\ t.live /\ t.runAt < account[u].expires

\* A step that stays the one it was stays linked.
LEMMA StaysLinked ==
    ASSUME today' = today, NEW u, NEW s \in steps, RenewalOf(s, u), Linked(s), NEW t, Stays(s, t),
           \A r \in steps : RenewalOf(r, u) => \E q \in steps' : Stays(r, q)
    PROVE  Linked(t)'
<1>1. t.user = s.user /\ t.kind = s.kind /\ t.key = s.key /\ t.runAt = s.runAt
  BY DEF Stays, Kept
<1>2. t.runAt > today => t.status = "open" /\ t.live
  BY <1>1 DEF Linked, Stays, Open
<1>3. ASSUME t.key.recovery > 0
      PROVE  \E q \in steps' : /\ RenewalOf(q, t.user) /\ q.status = "failed"
                               /\ q.key.day = t.key.day /\ q.key.recovery = t.key.recovery - 1
  <2>1. PICK r \in steps : /\ RenewalOf(r, s.user) /\ r.status = "failed"
                           /\ r.key.day = s.key.day /\ r.key.recovery = s.key.recovery - 1
    BY <1>1, <1>3 DEF Linked
  <2>2. PICK q \in steps' : Stays(r, q)  BY <2>1 DEF RenewalOf
  <2>. QED  BY <1>1, <2>1, <2>2 DEF Stays, Kept, RenewalOf
<1>. QED  BY <1>1, <1>2, <1>3 DEF Linked, Open, RenewalOf

\* Renewals that are not touched are carried.
LEMMA UntouchedCarried ==
    ASSUME Sound, NEW u \in User, Chain(u), Untouched(u)
    PROVE  Carried(u)
<1>1. \A s \in steps : Stays(s, s)  BY DEF Stays, Kept, Sound, TypeOK
<1>2. PICK s \in steps : Ahead(s, u)  BY DEF Chain
<1>. QED  BY <1>1, <1>2 DEF Untouched, Carried, Ahead

\* Renewals of which one, which was due, changes are carried.
LEMMA SwappedCarried ==
    ASSUME Sound, NEW u \in User, NEW s \in steps, NEW t, Kept(s, t), t.tries <= Attempts(t),
           s.runAt <= today, s.status = "failed" => t.status = "failed",
           steps' = Replaced(steps, s, t),
           \E r \in steps' : RenewalOf(r, u) /\ Open(r) /\ r.live /\ r.runAt < account[u].expires
    PROVE  Carried(u)
<1>1. s.runAt \in Nat /\ today \in Nat
  BY ConnectionsAssumption DEF Sound, TypeOK, Step
<1>2. Stays(s, t)  BY <1>1 DEF Stays
<1>3. \A r \in steps : Stays(r, r)  BY DEF Stays, Kept, Sound, TypeOK
<1>4. /\ t \in steps' /\ \A r \in steps : r # s => r \in steps'
      /\ \A r \in steps' : r = t \/ (r \in steps /\ r # s)
  BY SwappedSteps
<1>5. \A r \in steps : \E q \in steps' : Stays(r, q)  BY <1>2, <1>3, <1>4
<1>6. \A q \in steps' : \E r \in steps : Stays(r, q)  BY <1>2, <1>3, <1>4
<1>. QED  BY <1>5, <1>6 DEF Carried

\* An attempt of a renewal begins.
LEMMA StartCarried ==
    ASSUME Sound, NEW u \in User, Sure(u), Chain(u), NEW s \in steps, RenewalOf(s, u), StartStep(s)
    PROVE  Carried(u)
<1>1. TypeOK /\ Connected(u) /\ s.user = u /\ s.kind = "renewal"
  BY DEF Sound, Sure, RenewalOf
<1>2. PICK x \in steps : Ahead(x, u)  BY DEF Chain
<1>3. PICK t \in Step : /\ Kept(s, t) /\ t.status = s.status /\ steps' = Replaced(steps, s, t)
                        /\ Open(s) => t.live = s.live /\ t.tries = s.tries + 1
                        /\ ~Open(s) => Wanes(s, t)
  BY <1>1, StartStepDoes DEF Wanes
<1>4. t.tries <= Attempts(t)
  <2>1. CASE ~Open(s)  BY <1>3, <2>1, WanesWithin
  <2>2. CASE Open(s)
    <3>1. ~Running(s.user, "renewal")  BY <1>1, StartStepDoes
    <3>2. ~\E p \in procs : IsOf(s, p)  BY <1>1, <3>1 DEF Running, IsOf
    <3>3. s.tries < Attempts(s)  BY <2>2, <3>2 DEF Sound, Stepped, Grounded
    <3>4. Attempts(t) = Attempts(s) /\ s.tries \in Nat /\ Attempts(s) \in Nat
      BY <1>1, <1>3, ConnectionsAssumption DEF Attempts, Kept, TypeOK, Step
    <3>. QED  BY <1>3, <2>2, <3>3, <3>4
  <2>. QED  BY <2>1, <2>2
<1>5. /\ t \in steps' /\ \A r \in steps : r # s => r \in steps'
  BY <1>3, <1>4, SwappedSteps
<1>6. s.runAt <= today  BY <1>1, StartStepDoes
<1>7. \E r \in steps' : RenewalOf(r, u) /\ Open(r) /\ r.live /\ r.runAt < account[u].expires
  <2>1. CASE x # s  BY <1>2, <1>5, <2>1 DEF Ahead
  <2>2. CASE x = s  BY <1>2, <1>3, <1>5, <2>2 DEF Ahead, Kept, RenewalOf, Open
  <2>. QED  BY <2>1, <2>2
<1>. QED  BY <1>3, <1>4, <1>6, <1>7, SwappedCarried

\* The step of an attempt was due.
LEMMA DueStep ==
    ASSUME Sound, NEW p \in procs, p.kind = "renewal", NEW s \in steps, IsOf(s, p)
    PROVE  s.runAt <= today /\ RenewalOf(s, p.user)
<1>1. PICK r \in steps : IsOf(r, p) /\ r.runAt <= today
  BY DEF Sound, AtWork, Works
<1>2. r = s  BY <1>1, OneStep
<1>. QED  BY <1>1, <1>2 DEF IsOf, RenewalOf

\* A renewal ends.
LEMMA EndCarried ==
    ASSUME Sound, NEW u \in User, Chain(u), NEW p \in procs, p.user = u, p.kind = "renewal",
           RenewalEnds(p)
    PROVE  Carried(u)
<1>1. StepEnds(p) /\ p.at = "catchup"  BY CompletedEnds DEF RenewalEnds
<1>2. PICK s \in steps, t \in Step : IsOf(s, p) /\ Wanes(s, t) /\ steps' = Replaced(steps, s, t)
  BY <1>1 DEF StepEnds
<1>3. Kept(s, t) /\ t.tries <= Attempts(t) /\ (s.status = "failed" => t.status = "failed")
  BY <1>2, WanesWithin DEF Wanes, Open
<1>4. s.runAt <= today  BY <1>2, DueStep
<1>5. PICK x \in steps : Ahead(x, u) /\ today < x.runAt
  BY <1>1 DEF Chain, OnCourse
<1>6. x # s
  <2>1. x.runAt \in Nat /\ today \in Nat /\ s.runAt \in Nat
    BY ConnectionsAssumption DEF Sound, TypeOK, Step
  <2>. QED  BY <1>4, <1>5, <2>1
<1>7. x \in steps'  BY <1>2, <1>3, <1>6, SwappedSteps
<1>. QED  BY <1>2, <1>3, <1>4, <1>5, <1>7, SwappedCarried DEF Ahead

\* A renewal schedules the next one, which is there tomorrow.
LEMMA ScheduleCarried ==
    ASSUME Sound, Lifetime > 1, NEW u \in User, Chain(u), NEW p \in procs, p.user = u,
           RenewalSchedules(p)
    PROVE  /\ Carried(u)
           /\ \E t \in steps' : /\ RenewalOf(t, u) /\ Open(t) /\ t.live
                                /\ today < t.runAt /\ t.runAt < account[u].expires
<1>1. TypeOK /\ today \in Nat  BY ConnectionsAssumption DEF Sound, TypeOK
<1>2. /\ p.kind = "renewal" /\ p.at = "schedule"
      /\ steps' = Enqueued(steps, u, "renewal", Daily(p.renewed + 1), p.renewed + 1)
  BY <1>1, RenewalSchedulesDoes
<1>3. p.renewed = today /\ account[u].expires = today + Lifetime
  BY <1>2 DEF Sound, AtWork, Works, Chain, OnCourse
<1>4. PICK d \in Nat, key \in Key : d = today + 1 /\ key = Daily(d)
  <2>1. today + 1 \in Nat /\ Daily(today + 1) \in Key  BY <1>1 DEF Daily, Key
  <2>. QED  BY <2>1
<1>5. key.day = d /\ key.recovery = 0 /\ steps' = Enqueued(steps, u, "renewal", key, d)
  BY <1>2, <1>3, <1>4 DEF Daily
<1>6. /\ steps \subseteq steps'
      /\ \A t \in steps' :
            \/ t \in steps
            \/ Fresh(t) /\ t.user = u /\ t.kind = "renewal" /\ t.key = key /\ t.runAt = d
      /\ \E t \in steps' : t.user = u /\ t.kind = "renewal" /\ t.key = key
  BY <1>5, AddedStep
<1>7. \A s \in steps : Stays(s, s)  BY DEF Stays, Kept, Sound, TypeOK
<1>8. today < d /\ d < account[u].expires
  BY <1>1, <1>3, <1>4, ConnectionsAssumption
<1>9. PICK t \in steps' : t.user = u /\ t.kind = "renewal" /\ t.key = key
  BY <1>6
<1>10. RenewalOf(t, u) /\ Open(t) /\ t.live /\ t.runAt = d
  <2>1. CASE t \in steps
    <3>1. Linked(t) /\ RenewalOf(t, u)  BY <1>9, <2>1 DEF Chain, RenewalOf
    <3>2. t.runAt = d  BY <1>5, <1>9, <3>1 DEF Linked
    <3>. QED  BY <1>8, <3>1, <3>2 DEF Linked
  <2>2. CASE t \notin steps  BY <1>6, <2>2 DEF Fresh, Open, RenewalOf
  <2>. QED  BY <2>1, <2>2
<1>11. ASSUME NEW r \in steps', r \notin steps PROVE Linked(r)'
  <2>1. Fresh(r) /\ r.key = key /\ r.runAt = d  BY <1>6, <1>11
  <2>. QED  BY <1>5, <2>1 DEF Linked, Fresh, Open
<1>. QED  BY <1>6, <1>7, <1>8, <1>10, <1>11 DEF Carried

\* A renewal fails, and leaves a successor if it fails for good.
LEMMA FailCarried ==
    ASSUME Sound, NEW u \in User, Sure(u), Chain(u), NEW p \in procs, p.user = u,
           p.kind = "renewal", FailsStep(p)
    PROVE  Carried(u)
<1>1. TypeOK /\ Connected(u) /\ p.key \in Key  BY DEF Sound, TypeOK, Sure, Proc
<1>2. PICK x \in steps : Ahead(x, u)  BY DEF Chain
<1>3. CASE UNCHANGED steps
  <2>1. Untouched(u)  BY <1>3, UntouchedBy
  <2>. QED  BY <2>1, UntouchedCarried
<1>4. CASE \E s \in steps, t \in Step :
             IsOf(s, p) /\ ~Open(s) /\ Wanes(s, t) /\ ~t.live /\ steps' = Replaced(steps, s, t)
  <2>1. PICK s \in steps, t \in Step :
             IsOf(s, p) /\ ~Open(s) /\ Wanes(s, t) /\ ~t.live /\ steps' = Replaced(steps, s, t)
    BY <1>4
  <2>2. Kept(s, t) /\ t.tries <= Attempts(t) /\ t.status = s.status /\ x # s
    BY <1>2, <2>1, WanesWithin DEF Wanes, Ahead
  <2>3. s.runAt <= today /\ x \in steps'  BY <2>1, <2>2, DueStep, SwappedSteps
  <2>. QED  BY <1>2, <2>1, <2>2, <2>3, SwappedCarried DEF Ahead
<1>5. CASE \E s \in steps, t \in Step :
             /\ IsOf(s, p) /\ Open(s) /\ Wanes(s, t) /\ t.status = "failed"
             /\ steps' = Enqueued(Replaced(steps, s, t), p.user, "renewal",
                                  RecoveryOf(p.key), RecoveryDay(p.user))
  <2>1. PICK s \in steps, t \in Step :
             /\ IsOf(s, p) /\ Open(s) /\ Wanes(s, t) /\ t.status = "failed"
             /\ steps' = Enqueued(Replaced(steps, s, t), p.user, "renewal",
                                  RecoveryOf(p.key), RecoveryDay(p.user))
    BY <1>5
  <2>2. PICK key, d : key = RecoveryOf(p.key) /\ d = RecoveryDay(u)  OBVIOUS
  <2>3. /\ key \in Key /\ key.day = p.key.day
        /\ p.key.recovery >= 0 => key.recovery = p.key.recovery + 1
        /\ d \in Nat /\ d < account[u].expires
    <3>1. account[u].expires > today  BY DEF Chain
    <3>. QED  BY <1>1, <2>2, <3>1, RecoveryOfIs, RecoveryDayIs
  <2>4. ~Open(t) /\ steps' = Enqueued(Replaced(steps, s, t), u, "renewal", key, d)
    BY <2>1, <2>2 DEF Open
  <2>5. /\ t \in steps' /\ \A r \in steps : r # s => r \in steps'
        /\ \A r \in steps' :
              \/ r = t \/ (r \in steps /\ r # s)
              \/ /\ Fresh(r) /\ r.user = u /\ r.kind = "renewal" /\ r.key = key /\ r.runAt = d
                 /\ \A y \in steps : ~(y.user = u /\ y.kind = "renewal" /\ y.key = key)
        /\ \E r \in steps' : r.user = u /\ r.kind = "renewal" /\ r.key = key
    BY <2>1, <2>3, <2>4, SucceededSteps
  <2>6. s.key = p.key /\ t.key = p.key /\ RenewalOf(s, u) /\ RenewalOf(t, u) /\ Linked(s)
        /\ s.runAt <= today
    BY <2>1, DueStep DEF IsOf, Wanes, Kept, RenewalOf, Chain
  <2>7. p.key.recovery \in Nat /\ key.recovery = p.key.recovery + 1
    BY <1>1, <2>3, <2>6 DEF Linked, Key
  <2>8. \A y \in steps : ~(y.user = u /\ y.kind = "renewal" /\ y.key = key)
    <3>. SUFFICES ASSUME NEW y \in steps, y.user = u, y.kind = "renewal", y.key = key PROVE FALSE
      OBVIOUS
    <3>1. Linked(y)  BY DEF Chain, RenewalOf
    <3>2. PICK r \in steps : /\ RenewalOf(r, u) /\ r.status = "failed"
                             /\ r.key.day = key.day /\ r.key.recovery = key.recovery - 1
      BY <2>7, <3>1 DEF Linked
    <3>3. r.key \in Key /\ r.key.day = p.key.day /\ r.key.recovery = p.key.recovery
      BY <1>1, <2>3, <2>7, <3>2 DEF TypeOK, Step
    <3>4. r.key = p.key  BY <1>1, <3>3 DEF Key
    <3>5. r = s  BY <1>1, <2>6, <3>2, <3>4 DEF TypeOK, RenewalOf
    <3>. QED  BY <2>1, <3>2, <3>5 DEF Open
  <2>9. PICK n \in steps' : n.user = u /\ n.kind = "renewal" /\ n.key = key
    BY <2>5
  <2>10. Fresh(n) /\ n.runAt = d /\ n # t
    <3>1. n # t  BY <2>6, <2>7, <2>9
    <3>. QED  BY <2>5, <2>8, <2>9, <3>1
  <2>11. RenewalOf(n, u) /\ Open(n) /\ n.live /\ n.runAt < account[u].expires
    BY <2>3, <2>9, <2>10 DEF RenewalOf, Fresh, Open
  <2>12. ASSUME NEW r \in steps', Fresh(r), r.user = u, r.key = key PROVE Linked(r)'
    <3>1. \E q \in steps' : /\ RenewalOf(q, r.user) /\ q.status = "failed"
                            /\ q.key.day = r.key.day /\ q.key.recovery = r.key.recovery - 1
      BY <2>1, <2>3, <2>5, <2>6, <2>7, <2>12
    <3>. QED  BY <2>7, <2>12, <3>1 DEF Linked, Fresh, Open, RenewalOf
  <2>13. Stays(s, t) /\ \A r \in steps : Stays(r, r)
    <3>1. ~(s.runAt > today)
      BY <1>1, <2>6, ConnectionsAssumption DEF TypeOK, Step
    <3>. QED  BY <2>1, <3>1 DEF Stays, Kept, Sound, TypeOK, Wanes
  <2>. QED  BY <2>5, <2>11, <2>12, <2>13 DEF Carried
<1>. QED  BY <1>1, <1>3, <1>4, <1>5 DEF FailsStep

\* The day a connection that stays connected believes its watch expires does not come nearer.
LEMMA ExpiryGrows ==
    ASSUME Sound, Dated, [Next]_vars, NEW u \in User, Sure(u)'
    PROVE  /\ account'[u].expires >= account[u].expires
           /\ account[u].expires \in Nat /\ account'[u].expires \in Nat
           /\ account'[u].expires \in {account[u].expires, today + Lifetime}
<1>1. TypeOK /\ TypeOK'  BY SoundKept DEF Sound
<1>2. account[u].expires \in Nat /\ account'[u].expires \in Nat /\ today \in Nat
  BY <1>1, ConnectionsAssumption DEF TypeOK, Account
<1>3. account'[u].expires \in {account[u].expires, today + Lifetime}
  <2>1. account'[u].status = "connected"  BY DEF Sure, Connected
  <2>. QED  BY <2>1, ExpiryMoves
<1>4. account[u].expires <= today + Lifetime  BY DEF Dated
<1>. QED  BY <1>2, <1>3, <1>4

\* The course of a renewal goes on.
LEMMA CourseStays ==
    ASSUME Sound, Dated, Lifetime > 1, [Next]_vars, today' = today, NEW u \in User,
           Sure(u), Sure(u)', Chain(u), Carried(u)
    PROVE  OnCourse(u)'
<1>1. TypeOK /\ today \in Nat  BY ConnectionsAssumption DEF Sound, TypeOK
<1>2. /\ account'[u].expires >= account[u].expires
      /\ account[u].expires \in Nat /\ account'[u].expires \in Nat
      /\ account'[u].expires \in {account[u].expires, today + Lifetime}
  BY ExpiryGrows
<1>3. ASSUME NEW t \in steps', RenewalOf(t, u), Open(t), t.live, t.runAt \in Nat,
             t.runAt < account[u].expires
      PROVE  Ahead(t, u)'
  <2>1. t.runAt < account'[u].expires  BY <1>2, <1>3
  <2>. QED  BY <1>3, <2>1 DEF Ahead, RenewalOf, Open
<1>4. \A t \in steps' : t.runAt \in Nat  BY SoundKept DEF Sound, TypeOK, Step
<1>. SUFFICES ASSUME NEW r \in procs', r.user = u, r.kind = "renewal"
              PROVE  /\ r.at = "schedule" => account'[u].expires = today + Lifetime
                     /\ r.at = "catchup" => \E s \in steps' : Ahead(s, u)' /\ today < s.runAt
  BY DEF OnCourse
<1>5. CASE r \in procs
  <2>1. r.at = "schedule" => account'[u].expires = today + Lifetime
    BY <1>2, <1>5 DEF Chain, OnCourse
  <2>2. ASSUME r.at = "catchup" PROVE \E s \in steps' : Ahead(s, u)' /\ today < s.runAt
    <3>1. PICK s \in steps : Ahead(s, u) /\ today < s.runAt
      BY <1>5, <2>2 DEF Chain, OnCourse
    <3>2. PICK t \in steps' : Stays(s, t)  BY <3>1 DEF Carried, Ahead
    <3>3. /\ t.runAt = s.runAt /\ RenewalOf(t, u) /\ Open(t) /\ t.live
          /\ t.runAt < account[u].expires
      <4>1. s.runAt > today  BY <1>1, <3>1 DEF TypeOK, Step
      <4>. QED  BY <3>1, <3>2, <4>1 DEF Stays, Kept, Ahead, RenewalOf, Open
    <3>. QED  BY <1>3, <1>4, <3>1, <3>3
  <2>. QED  BY <2>1, <2>2
<1>6. CASE r \notin procs
  <2>1. r.at = "lock" \/ \E p \in procs : CameFrom(r, p)  BY <1>6, ProcMoves
  <2>2. ASSUME r.at = "schedule" PROVE account'[u].expires = today + Lifetime
    <3>1. PICK p \in procs : RenewalSaves(p) /\ p.user = u /\ p.at = "save"
      BY <2>1, <2>2 DEF CameFrom
    <3>2. p.expires = today + Lifetime /\ Connected(u)
      BY <3>1 DEF Sound, AtWork, Works, Sure
    <3>. QED  BY <1>1, <3>1, <3>2, RenewalSavesDoes
  <2>3. ASSUME r.at = "catchup" PROVE \E s \in steps' : Ahead(s, u)' /\ today < s.runAt
    <3>1. PICK p \in procs : RenewalSchedules(p) /\ p.user = u
      BY <2>1, <2>3 DEF CameFrom
    <3>2. PICK t \in steps' : /\ RenewalOf(t, u) /\ Open(t) /\ t.live
                              /\ today < t.runAt /\ t.runAt < account[u].expires
      BY <3>1, ScheduleCarried
    <3>. QED  BY <1>3, <1>4, <3>2
  <2>. QED  BY <2>2, <2>3
<1>. QED  BY <1>5, <1>6

\* What is carried is a chain.
LEMMA ChainStays ==
    ASSUME Sound, Dated, Lifetime > 1, [Next]_vars, today' = today, NEW u \in User,
           Sure(u), Sure(u)', Chain(u), Carried(u)
    PROVE  Chain(u)'
<1>1. /\ account'[u].expires >= account[u].expires
      /\ account[u].expires \in Nat /\ account'[u].expires \in Nat
  BY ExpiryGrows
<1>2. today \in Nat /\ \A t \in steps' : t.runAt \in Nat
  BY SoundKept, ConnectionsAssumption DEF Sound, TypeOK, Step
<1>3. account'[u].expires > today'  BY <1>1, <1>2 DEF Chain
<1>4. (\E s \in steps : Ahead(s, u))'
  <2>1. PICK t \in steps' : RenewalOf(t, u) /\ Open(t) /\ t.live /\ t.runAt < account[u].expires
    BY DEF Carried
  <2>2. t.runAt < account'[u].expires  BY <1>1, <1>2, <2>1
  <2>. QED  BY <2>1, <2>2 DEF Ahead, RenewalOf, Open
<1>5. ASSUME NEW t \in steps', RenewalOf(t, u) PROVE Linked(t)'
  <2>1. Linked(t)' \/ \E s \in steps : Stays(s, t)  BY <1>5 DEF Carried
  <2>2. ASSUME NEW s \in steps, Stays(s, t) PROVE Linked(t)'
    <3>1. RenewalOf(s, u) /\ Linked(s)
      BY <1>5, <2>2 DEF Stays, Kept, RenewalOf, Chain
    <3>2. \A r \in steps : RenewalOf(r, u) => \E q \in steps' : Stays(r, q)
      BY DEF Carried
    <3>. QED  BY <2>2, <3>1, <3>2, StaysLinked
  <2>. QED  BY <2>1, <2>2
<1>6. OnCourse(u)'  BY CourseStays
<1>. QED  BY <1>3, <1>4, <1>5, <1>6 DEF Chain, RenewalOf

\* A day passes.
LEMMA ChainLasts ==
    ASSUME Sound, DayPasses, NEW u \in User, Chain(u)
    PROVE  Chain(u)'
<1>1. today \in Nat /\ account[u].expires \in Nat /\ \A s \in steps : s.runAt \in Nat
  BY ConnectionsAssumption DEF Sound, TypeOK, Account, Step
<1>2. /\ today' = today + 1 /\ UNCHANGED <<account, steps, procs>> /\ procs = {}
      /\ \A s \in steps : ~Due(s)
  BY DEF DayPasses
<1>3. PICK s \in steps : Ahead(s, u)  BY DEF Chain
<1>4. account[u].expires > today + 1  BY <1>1, <1>2, <1>3 DEF Ahead, Due
<1>5. (\E r \in steps : Ahead(r, u))'  BY <1>2, <1>3 DEF Ahead, RenewalOf, Open
<1>6. ASSUME NEW r \in steps, RenewalOf(r, u) PROVE Linked(r)'
  <2>1. Linked(r)  BY <1>6 DEF Chain
  <2>2. r.runAt > today + 1 => r.runAt > today  BY <1>1
  <2>. QED  BY <1>2, <2>1, <2>2 DEF Linked, RenewalOf, Open
<1>7. OnCourse(u)'  BY <1>2 DEF OnCourse
<1>. QED  BY <1>2, <1>4, <1>5, <1>6, <1>7 DEF Chain, RenewalOf

\* A new connection has its first renewal ahead of it.
LEMMA ChainBegins ==
    ASSUME Sound, Lifetime > 1, NEW p \in procs, CallbackSaves(p), NEW u \in User, p.user = u
    PROVE  Chain(u)'
<1>1. TypeOK /\ today \in Nat /\ p.renewed = today /\ p.expires = today + Lifetime
      /\ account[u].status = "none" /\ p.kind = "callback"
  BY ConnectionsAssumption DEF CallbackSaves, Sound, TypeOK, AtWork, Works, StatusOf
<1>2. /\ today' = today /\ account' = [account EXCEPT ![u] = Started(p)]
      /\ steps' = WithDaily(steps, u, p.renewed) /\ procs' \subseteq procs
  BY DEF CallbackSaves, Ends
<1>3. account'[u].expires = today + Lifetime
  <2>1. PICK a : a = Started(p)  OBVIOUS
  <2>2. a.expires = today + Lifetime  BY <1>1, <2>1 DEF Started
  <2>3. account' = [account EXCEPT ![u] = a] /\ account \in [User -> Account]
    BY <1>1, <1>2, <2>1 DEF TypeOK
  <2>. QED  BY <2>2, <2>3
<1>4. PICK d \in Nat, key \in Key : d = today + 1 /\ key = Daily(d)
  <2>1. today + 1 \in Nat /\ Daily(today + 1) \in Key  BY <1>1 DEF Daily, Key
  <2>. QED  BY <2>1
<1>5. key.day = d /\ key.recovery = 0 /\ steps' = Enqueued(steps, u, "renewal", key, d)
  BY <1>1, <1>2, <1>4 DEF Daily, WithDaily
<1>6. /\ \A t \in steps' :
            \/ t \in steps
            \/ Fresh(t) /\ t.user = u /\ t.kind = "renewal" /\ t.key = key /\ t.runAt = d
      /\ \E t \in steps' : t.user = u /\ t.kind = "renewal" /\ t.key = key
  BY <1>5, AddedStep
<1>7. \A s \in steps : s.user # u  BY <1>1 DEF Sound, Stepped, Grounded
<1>8. ASSUME NEW t \in steps', RenewalOf(t, u)
      PROVE  Fresh(t) /\ t.key = key /\ t.runAt = d
  BY <1>6, <1>7, <1>8 DEF RenewalOf
<1>9. d < today + Lifetime  BY <1>1, <1>4, ConnectionsAssumption
<1>10. (\E s \in steps : Ahead(s, u))'
  <2>1. PICK t \in steps' : RenewalOf(t, u)  BY <1>6 DEF RenewalOf
  <2>. QED  BY <1>3, <1>8, <1>9, <2>1 DEF Ahead, RenewalOf, Fresh, Open
<1>11. ASSUME NEW t \in steps', RenewalOf(t, u) PROVE Linked(t)'
  <2>1. Fresh(t) /\ t.key = key /\ t.runAt = d  BY <1>8, <1>11
  <2>. QED  BY <1>5, <2>1 DEF Linked, Fresh, Open
<1>12. OnCourse(u)'
  <2>1. \A q \in procs : ~(q.user = u /\ q.kind = "renewal")
    BY <1>1 DEF Sound, AtWork, Works, StatusOf
  <2>. QED  BY <1>2, <2>1 DEF OnCourse
<1>13. account'[u].expires > today'  BY <1>1, <1>2, <1>3, ConnectionsAssumption
<1>. QED  BY <1>10, <1>11, <1>12, <1>13 DEF Chain, RenewalOf

\* Chains are kept.
LEMMA ChainedKept ==
    ASSUME Sound, Dated, Lifetime > 1, Chained, [Next]_vars
    PROVE  Chained'
<1>. SUFFICES ASSUME NEW u \in User, Sure(u)' PROVE Chain(u)'
  BY DEF Chained
<1>1. CASE ~Sure(u)  BY <1>1, SureMoves, ChainBegins
<1>2. CASE Sure(u)
  <2>1. Chain(u)  BY <1>2 DEF Chained
  <2>2. CASE DayPasses  BY <2>1, <2>2, ChainLasts
  <2>3. CASE ~DayPasses
    <3>1. today' = today  BY <2>3, DayMoves DEF Sound
    <3>2. Carried(u)
      <4>1. \E s \in steps : Ahead(s, u)  BY <2>1 DEF Chain
      <4>2. CASE Untouched(u)  BY <2>1, <4>2, UntouchedCarried
      <4>3. CASE \E s \in steps : RenewalOf(s, u) /\ StartStep(s)
        BY <1>2, <2>1, <4>3, StartCarried
      <4>4. CASE \E p \in procs : /\ p.user = u /\ p.kind = "renewal"
                                  /\ RenewalSchedules(p) \/ RenewalEnds(p) \/ FailsStep(p)
        BY <1>2, <2>1, <4>4, ScheduleCarried, EndCarried, FailCarried
      <4>. QED  BY <1>2, <4>1, <4>2, <4>3, <4>4, RenewalsMove
    <3>. QED  BY <1>2, <2>1, <3>1, <3>2, ChainStays
  <2>. QED  BY <2>2, <2>3
<1>. QED  BY <1>1, <1>2

\* A connection receives notifications as long as it is connected, whatever single step fails
\* for good: every renewal leaves a successor that is due before the watch expires
\* (watch-renewal.ts, gmail-watch-schedule.ts).  A watch that lasts a single day could not be
\* renewed in time.
THEOREM AlwaysHeld ==
    ASSUME Lifetime > 1
    PROVE  Spec => []WatchHeld
<1>1. Init => Registered /\ Chained
  <2>. SUFFICES ASSUME Init PROVE Registered /\ Chained
    OBVIOUS
  <2>1. \A u \in User : account[u].status = "none"  BY DEF Init
  <2>. QED  BY <2>1, RegisteredFirst DEF Chained, Sure, Connected
<1>2. Registered /\ Chained /\ [Next]_vars => (Registered /\ Chained)'
  BY RegisteredKept, ChainedKept DEF Registered, Held
<1>3. Registered /\ Chained => WatchHeld
  <2>. SUFFICES ASSUME Registered, Chained, spent["drops"] = 0, NEW u \in User, Sure(u)
                PROVE  registered > today
    BY DEF WatchHeld, Notified, Sure
  <2>1. registered >= account[u].expires /\ account[u].expires > today
    BY DEF Registered, Claimed, Undropped, Mine, Sure, Connected, Chained, Chain
  <2>2. registered \in Nat /\ today \in Nat /\ account[u].expires \in Nat
    BY ConnectionsAssumption DEF Registered, Held, Sound, TypeOK, Account
  <2>. QED  BY <2>1, <2>2
<1>. QED  BY <1>1, <1>2, <1>3, PTL DEF Spec

-----------------------------------------------------------------------------
(* The fifth layer: a connection that is being removed has its cleanup.    *)

Failures == spent["errors"] + spent["drops"]

\* The cleanup of u has an attempt that has not met with a failure yet.
Tried(u) == \E p \in procs : p.user = u /\ p.kind = "cleanup" /\ (p.at = "lock" \/ Holds(p))

CleanupOf(s, u) == s.user = u /\ s.kind = "cleanup"

\* As long as no grant is revoked: whoever has a connection or asks for one has granted it, a
\* connection that is being removed has its cleanup ahead of it, and every attempt of a cleanup
\* but the last has met with a failure of its own.
Owed == spent["revocations"] = 0 =>
    /\ \A u \in User : account[u].status # "none" => u \in grant
    /\ \A p \in procs : p.user \in grant
    /\ \A u \in User : account[u].status = "disconnected" =>
          \E s \in steps : CleanupOf(s, u) /\ Open(s) /\ s.live
    /\ \A s \in steps : s.kind = "cleanup" =>
          s.tries <= Failures + 1 /\ (~Tried(s.user) => s.tries <= Failures)

\* The mishaps are within their bound.
Within == Mishaps <= MaxMishaps

\* What a step spends.
LEMMA SpentMoves ==
    ASSUME Sound, [Next]_vars
    PROVE  /\ \A c \in Counters : spent[c] \in Nat /\ spent'[c] \in Nat
           /\ \/ \A c \in Counters \ {"refusals"} : spent'[c] = spent[c]
              \/ \E c \in Counters : Spend(c)
<1>1. spent \in [Counters -> Nat] /\ spent' \in [Counters -> Nat]
  BY SoundKept DEF Sound, TypeOK
<1>2. ASSUME NEW p \in procs,
             \/ CallbackEnters(p) \/ CallbackSaves(p)
             \/ RenewalEnters(p) \/ StartWatch(p) \/ RenewalSaves(p) \/ RenewalSchedules(p)
             \/ RenewalEnds(p) \/ CleanupEnters(p) \/ CleanupEnds(p)
             \/ FindsLockGone(p) \/ FindsGrantGone(p)
      PROVE  UNCHANGED spent
  BY <1>2 DEF CallbackEnters, CallbackSaves, RenewalEnters, StartWatch, RenewalSaves,
              RenewalSchedules, RenewalEnds, CleanupEnters, CleanupEnds, FindsLockGone,
              FindsGrantGone
<1>3. ASSUME NEW p \in procs, StopWatch(p)
      PROVE  \A c \in Counters \ {"refusals"} : spent'[c] = spent[c]
  BY <1>1, <1>3 DEF StopWatch
<1>4. ASSUME NEW u \in User, PageLooks(u) \/ MarkReconnectRequired(u) \/ EnsureDaily(u)
      PROVE  UNCHANGED spent
  BY <1>4 DEF PageLooks, MarkReconnectRequired, EnsureDaily
<1>5. ASSUME NEW u \in User, Authorizes(u) \/ Disconnect(u) \/ RevokeGrant(u)
      PROVE  \E d \in Counters : Spend(d)
  BY <1>5 DEF Authorizes, Disconnect, RevokeGrant, Counters
<1>6. ASSUME NEW s \in steps, StartStep(s) PROVE UNCHANGED spent
  BY <1>6 DEF StartStep
<1>7. ASSUME NEW p \in procs, AttemptFails(p) PROVE \E d \in Counters : Spend(d)
  BY <1>7 DEF AttemptFails, Counters
<1>8. ASSUME LockDrops PROVE \E d \in Counters : Spend(d)
  BY <1>8 DEF LockDrops, Counters
<1>9. ASSUME DayPasses \/ UNCHANGED vars PROVE UNCHANGED spent
  BY <1>9 DEF DayPasses, vars
<1>. QED  BY <1>1, <1>2, <1>3, <1>4, <1>5, <1>6, <1>7, <1>8, <1>9 DEF Next, Work

\* No failure is forgotten.
LEMMA FailuresGrow ==
    ASSUME Sound, [Next]_vars
    PROVE  Failures \in Nat /\ Failures' \in Nat /\ Failures' >= Failures
<1>1. spent \in [Counters -> Nat] /\ spent' \in [Counters -> Nat]
  BY SoundKept DEF Sound, TypeOK
<1>2. ASSUME NEW c \in Counters, Spend(c)
      PROVE  spent'["errors"] >= spent["errors"] /\ spent'["drops"] >= spent["drops"]
  BY <1>1, <1>2 DEF Spend, Counters
<1>3. spent'["errors"] >= spent["errors"] /\ spent'["drops"] >= spent["drops"]
  BY <1>1, <1>2, SpentMoves DEF Counters
<1>. QED  BY <1>1, <1>3 DEF Failures, Counters

\* The mishaps stay within their bound.
LEMMA WithinKept ==
    ASSUME Sound, Within, [Next]_vars
    PROVE  Within'
<1>1. spent \in [Counters -> Nat] /\ spent' \in [Counters -> Nat] /\ MaxMishaps \in Nat
  BY SoundKept, ConnectionsAssumption DEF Sound, TypeOK
<1>2. CASE \A c \in Counters \ {"refusals"} : spent'[c] = spent[c]
  BY <1>2 DEF Within, Mishaps, Counters
<1>3. ASSUME NEW c \in Counters, Spend(c) PROVE Within'
  <2>1. CASE c \in {"logins", "disconnects", "refusals"}
    BY <1>1, <1>3, <2>1 DEF Within, Mishaps, Spend, Counters
  <2>2. CASE c \in {"revocations", "errors", "drops"}
    <3>1. Mishaps < MaxMishaps  BY <1>3, <2>2 DEF Spend, MayHappen
    <3>2. Mishaps' = Mishaps + 1
      BY <1>1, <1>3, <2>2 DEF Spend, Mishaps, Counters
    <3>3. Mishaps \in Nat  BY <1>1 DEF Mishaps, Counters
    <3>. QED  BY <1>1, <3>1, <3>2, <3>3 DEF Within
  <2>. QED  BY <2>1, <2>2 DEF Counters
<1>. QED  BY <1>2, <1>3, SpentMoves

\* A grant is lost only when it is revoked.
LEMMA GrantMoves ==
    ASSUME TypeOK, [Next]_vars
    PROVE  grant \subseteq grant' \/ \E u \in User : RevokeGrant(u)
<1>1. ASSUME NEW p \in procs,
             \/ CallbackEnters(p) \/ CallbackSaves(p)
             \/ RenewalEnters(p) \/ StartWatch(p) \/ RenewalSaves(p) \/ RenewalSchedules(p)
             \/ RenewalEnds(p) \/ CleanupEnters(p) \/ StopWatch(p) \/ CleanupEnds(p)
             \/ FindsLockGone(p) \/ FindsGrantGone(p) \/ AttemptFails(p)
      PROVE  UNCHANGED grant
  BY <1>1 DEF CallbackEnters, CallbackSaves, RenewalEnters, StartWatch, RenewalSaves,
              RenewalSchedules, RenewalEnds, CleanupEnters, StopWatch, CleanupEnds, FindsLockGone,
              FindsGrantGone, AttemptFails, GivesUp
<1>2. ASSUME NEW u \in User, PageLooks(u) \/ MarkReconnectRequired(u) \/ EnsureDaily(u) \/ Disconnect(u)
      PROVE  UNCHANGED grant
  BY <1>2 DEF PageLooks, MarkReconnectRequired, EnsureDaily, Disconnect
<1>3. ASSUME NEW u \in User, Authorizes(u) PROVE grant \subseteq grant'
  BY <1>3 DEF Authorizes
<1>4. ASSUME NEW s \in steps, StartStep(s) PROVE UNCHANGED grant
  BY <1>4 DEF StartStep
<1>5. ASSUME LockDrops \/ DayPasses \/ UNCHANGED vars PROVE UNCHANGED grant
  BY <1>5 DEF LockDrops, DayPasses, vars
<1>. QED  BY <1>1, <1>2, <1>3, <1>4, <1>5 DEF Next, Work

\* As long as nothing is revoked, whoever has a connection or asks for one has granted it.
LEMMA GrantedKept ==
    ASSUME Sound, Owed, [Next]_vars, spent'["revocations"] = 0
    PROVE  /\ spent["revocations"] = 0
           /\ \A u \in User : account'[u].status # "none" => u \in grant'
           /\ \A r \in procs' : r.user \in grant'
<1>1. TypeOK /\ spent["revocations"] = 0  BY NotBefore DEF Sound, Counters
<1>2. /\ \A u \in User : account[u].status # "none" => u \in grant
      /\ \A p \in procs : p.user \in grant
  BY <1>1 DEF Owed
<1>3. grant \subseteq grant'
  <2>1. ASSUME NEW u \in User, RevokeGrant(u) PROVE FALSE
    BY <1>1, <2>1 DEF RevokeGrant, Spend, TypeOK, Counters
  <2>. QED  BY <1>1, <2>1, GrantMoves
<1>4. ASSUME NEW u \in User, account'[u].status # "none" PROVE u \in grant'
  <2>1. account[u].status # "none" \/ \E p \in procs : p.user = u
    BY <1>4, StatusMoves DEF Mine
  <2>. QED  BY <1>2, <1>3, <2>1
<1>5. ASSUME NEW r \in procs' PROVE r.user \in grant'
  <2>1. CASE r \in procs  BY <1>2, <1>3, <2>1
  <2>2. CASE r \notin procs
    <3>1. r.user \in User  BY SoundKept DEF Sound, TypeOK, Proc
    <3>2. \/ account[r.user].status # "none" \/ Authorizes(r.user)
          \/ \E p \in procs : CameFrom(r, p)
      BY <2>2, ProcMoves
    <3>3. CASE Authorizes(r.user)  BY <3>3 DEF Authorizes
    <3>4. CASE \E p \in procs : CameFrom(r, p)  BY <1>2, <1>3, <3>4 DEF CameFrom
    <3>. QED  BY <1>2, <1>3, <3>1, <3>2, <3>3, <3>4
  <2>. QED  BY <2>1, <2>2
<1>. QED  BY <1>1, <1>4, <1>5

\* The cleanups of u are what they were.
Spared(u) == \A s : CleanupOf(s, u) => (s \in steps' <=> s \in steps)

\* Which steps touch the cleanups of a connection, as long as no grant is lost and no cleanup
\* runs out of attempts.
LEMMA CleanupsMove ==
    ASSUME Sound, [Next]_vars, NEW u \in User,
           \A v \in User : account[v].status # "none" => v \in grant,
           \A p \in procs : p.user \in grant,
           \A p \in procs, s \in steps :
              p.kind = "cleanup" /\ IsOf(s, p) /\ (AttemptFails(p) \/ FindsLockGone(p))
              => s.tries < Attempts(s)
    PROVE  \/ Spared(u)
           \/ Disconnect(u)
           \/ \E p \in procs : p.user = u /\ CleanupEnds(p)
           \/ \E s \in steps : CleanupOf(s, u) /\ StartStep(s)
<1> DEFINE Touches == \/ Disconnect(u)
                      \/ \E p \in procs : p.user = u /\ CleanupEnds(p)
                      \/ \E s \in steps : CleanupOf(s, u) /\ StartStep(s)
<1>1. TypeOK /\ \A p \in procs : p.user \in User /\ p.kind \in Kind /\ p.key \in Key
  BY DEF Sound, TypeOK, Proc
<1>2. ASSUME UNCHANGED steps PROVE Spared(u)  BY <1>2 DEF Spared
<1>3. ASSUME NEW s \in steps, NEW t, Kept(s, t), ~CleanupOf(s, u), steps' = Replaced(steps, s, t)
      PROVE  Spared(u)
  BY <1>3 DEF Spared, Replaced, CleanupOf, Kept
<1>4. ASSUME NEW v, NEW kind, NEW key, NEW runAt, v # u \/ kind # "cleanup",
             steps' = Enqueued(steps, v, kind, key, runAt)
      PROVE  Spared(u)
  BY <1>4 DEF Spared, Enqueued, CleanupOf
<1>5. ASSUME NEW p \in procs, p.kind = "renewal", StepEnds(p) PROVE Spared(u)
  <2>1. PICK s \in steps, t \in Step : IsOf(s, p) /\ Wanes(s, t) /\ steps' = Replaced(steps, s, t)
    BY <1>5 DEF StepEnds
  <2>2. ~CleanupOf(s, u) /\ Kept(s, t)  BY <1>5, <2>1 DEF IsOf, CleanupOf, Wanes
  <2>. QED  BY <1>3, <2>1, <2>2
<1>6. "renewal" # "cleanup"  OBVIOUS
<1>7. ASSUME NEW p \in procs, CallbackSaves(p) PROVE Spared(u)
  BY <1>4, <1>6, <1>7 DEF CallbackSaves, WithDaily
<1>8. ASSUME NEW v \in User, Disconnect(v) PROVE Spared(u) \/ Touches
  <2>1. steps' = Enqueued(steps, v, "cleanup", NoKey, today)
    BY <1>1, <1>8, DisconnectDoes
  <2>2. CASE v # u  BY <1>4, <2>1, <2>2
  <2>. QED  BY <1>8, <2>2
<1>9. ASSUME NEW v \in User, EnsureDaily(v) PROVE Spared(u)
  <2>1. \E key \in Key : steps' = Enqueued(steps, v, "renewal", key, RecoveryDay(v))
    BY <1>1, <1>9, EnsureDailyDoes
  <2>. QED  BY <1>4, <1>6, <2>1
<1>10. ASSUME NEW s \in steps, StartStep(s) PROVE Spared(u) \/ Touches
  <2>1. CASE CleanupOf(s, u)  BY <1>10, <2>1
  <2>2. CASE ~CleanupOf(s, u)
    <3>1. \E t : Kept(s, t) /\ steps' = Replaced(steps, s, t)
      BY <1>1, <1>10, StartStepDoes DEF Wanes
    <3>. QED  BY <1>3, <2>2, <3>1
  <2>. QED  BY <2>1, <2>2
<1>11. ASSUME NEW p \in procs, RenewalEnters(p) PROVE Spared(u)
  BY <1>2, <1>5, <1>11, RenewalEntersDoes
<1>12. ASSUME NEW p \in procs, RenewalSchedules(p) PROVE Spared(u)
  <2>1. steps' = Enqueued(steps, p.user, "renewal", Daily(p.renewed + 1), p.renewed + 1)
    BY <1>1, <1>12, RenewalSchedulesDoes
  <2>. QED  BY <1>4, <1>6, <2>1
<1>13. ASSUME NEW p \in procs, RenewalEnds(p) PROVE Spared(u)
  <2>1. p.kind = "renewal" /\ StepEnds(p)
    BY <1>13, CompletedEnds DEF RenewalEnds
  <2>. QED  BY <1>5, <2>1
<1>14. ASSUME NEW p \in procs, CleanupEnds(p) PROVE Spared(u) \/ Touches
  <2>1. steps' = {s \in steps : s.user # p.user}
    BY <1>1, <1>14, CleanupEndsDoes
  <2>2. CASE p.user # u  BY <2>1, <2>2 DEF Spared, CleanupOf
  <2>. QED  BY <1>14, <2>2
<1>15. ASSUME NEW p \in procs, FindsLockGone(p) \/ AttemptFails(p) PROVE Spared(u)
  <2>1. FailsStep(p)  BY <1>15, GivesUpDoes DEF FindsLockGone, AttemptFails
  <2>2. ASSUME p.kind = "cleanup" PROVE UNCHANGED steps
    <3>1. \A s \in steps : IsOf(s, p) => s.tries < Attempts(s) /\ Open(s)
      <4>1. PICK r \in steps : IsOf(r, p) /\ Open(r)
        BY <2>2 DEF Sound, AtWork, Works
      <4>2. \A s \in steps : IsOf(s, p) => s = r  BY <4>1, OneStep
      <4>. QED  BY <1>15, <2>2, <4>1, <4>2
    <3>2. \A s \in steps : s.tries \in Nat /\ Attempts(s) \in Nat
      BY <1>1, ConnectionsAssumption DEF TypeOK, Step, Attempts
    <3>. QED  BY <2>1, <2>2, <3>1, <3>2 DEF FailsStep
  <2>3. ASSUME p.kind = "renewal" PROVE Spared(u)
    <3>1. ASSUME NEW s \in steps, NEW t, IsOf(s, p), Wanes(s, t), steps' = Replaced(steps, s, t)
          PROVE  Spared(u)
      BY <1>3, <2>3, <3>1 DEF IsOf, CleanupOf, Wanes
    <3>2. ASSUME NEW s \in steps, NEW t, IsOf(s, p), Wanes(s, t), t.status = "failed",
                 steps' = Enqueued(Replaced(steps, s, t), p.user, "renewal",
                                   RecoveryOf(p.key), RecoveryDay(p.user))
          PROVE  Spared(u)
      <4>1. PICK v, key, d : v = p.user /\ key = RecoveryOf(p.key) /\ d = RecoveryDay(p.user)
        OBVIOUS
      <4>2. v \in User /\ key \in Key /\ d \in Nat
        BY <1>1, <4>1, RecoveryOfIs, RecoveryDayIs
      <4>3. ~Open(t) /\ steps' = Enqueued(Replaced(steps, s, t), v, "renewal", key, d)
        BY <3>2, <4>1 DEF Open
      <4>4. /\ \A r \in steps : r # s => r \in steps'
            /\ \A r \in steps' : r = t \/ r \in steps \/ r.kind = "renewal"
        BY <3>2, <4>2, <4>3, SucceededSteps
      <4>5. s.kind = "renewal" /\ t.kind = "renewal"
        BY <2>3, <3>2 DEF IsOf, Wanes, Kept
      <4>. QED  BY <4>4, <4>5 DEF Spared, CleanupOf
    <3>. QED  BY <1>2, <2>1, <2>3, <3>1, <3>2 DEF FailsStep
  <2>4. ASSUME p.kind \in {"callback", "page"} PROVE UNCHANGED steps
    BY <2>1, <2>4 DEF FailsStep
  <2>. QED  BY <1>1, <1>2, <2>2, <2>3, <2>4 DEF Kind
<1>16. ASSUME NEW p \in procs, FindsGrantGone(p) PROVE FALSE
  BY <1>16 DEF FindsGrantGone
<1>17. ASSUME NEW p \in procs,
              CallbackEnters(p) \/ StartWatch(p) \/ RenewalSaves(p) \/ CleanupEnters(p) \/ StopWatch(p)
       PROVE  UNCHANGED steps
  BY <1>17 DEF CallbackEnters, StartWatch, RenewalSaves, CleanupEnters, StopWatch
<1>18. ASSUME NEW v \in User, PageLooks(v) \/ Authorizes(v) \/ RevokeGrant(v) PROVE UNCHANGED steps
  BY <1>18 DEF PageLooks, Authorizes, RevokeGrant
<1>19. ASSUME NEW v \in User, MarkReconnectRequired(v) PROVE FALSE
  BY <1>19 DEF MarkReconnectRequired, Connected
<1>20. ASSUME LockDrops \/ DayPasses \/ UNCHANGED vars PROVE Spared(u)
  BY <1>2, <1>20 DEF LockDrops, DayPasses, vars
<1>21. Spared(u) \/ Touches
  <2> HIDE DEF Touches
  <2>. QED  BY <1>2, <1>7, <1>8, <1>9, <1>10, <1>11, <1>12, <1>13, <1>14, <1>15, <1>16,
       <1>17, <1>18, <1>19, <1>20 DEF Next, Work
<1>. QED  BY <1>21

\* What a step does to the lock.
LEMMA HolderMoves ==
    ASSUME Sound, [Next]_vars
    PROVE  \/ UNCHANGED holder
           \/ LockDrops
           \/ holder = Free
           \/ \E p \in procs : Holds(p) /\ p \notin procs'
<1>1. TypeOK  BY DEF Sound
<1>2. ASSUME NEW p \in procs, CallbackEnters(p) \/ RenewalEnters(p) \/ CleanupEnters(p)
      PROVE  holder = Free
  BY <1>2 DEF CallbackEnters, RenewalEnters, CleanupEnters
<1>3. ASSUME NEW p \in procs, Releases(p), Ends(p)
      PROVE  UNCHANGED holder \/ (Holds(p) /\ p \notin procs')
  BY <1>3 DEF Releases, Ends
<1>4. ASSUME NEW p \in procs,
             \/ CallbackSaves(p) \/ CleanupEnds(p) \/ FindsLockGone(p) \/ FindsGrantGone(p)
             \/ AttemptFails(p)
      PROVE  Releases(p) /\ Ends(p)
  BY <1>4 DEF CallbackSaves, CleanupEnds, FindsLockGone, FindsGrantGone, AttemptFails, GivesUp
<1>5. ASSUME NEW p \in procs, RenewalSaves(p) PROVE Holds(p) /\ p \notin procs'
  <2>1. Holds(p) /\ p.at = "save" /\ (Ends(p) \/ \E q : Advances(p, q, "schedule"))
    BY <1>1, <1>5, RenewalSavesDoes
  <2>. QED  BY <2>1 DEF Ends, Advances
<1>6. ASSUME NEW p \in procs,
             StartWatch(p) \/ RenewalSchedules(p) \/ RenewalEnds(p) \/ StopWatch(p)
      PROVE  UNCHANGED holder
  BY <1>6 DEF StartWatch, RenewalSchedules, RenewalEnds, StopWatch
<1>7. ASSUME NEW u \in User,
             \/ PageLooks(u) \/ Authorizes(u) \/ Disconnect(u) \/ RevokeGrant(u)
             \/ MarkReconnectRequired(u) \/ EnsureDaily(u)
      PROVE  UNCHANGED holder
  BY <1>7 DEF PageLooks, Authorizes, Disconnect, RevokeGrant, MarkReconnectRequired, EnsureDaily
<1>8. ASSUME NEW s \in steps, StartStep(s) PROVE UNCHANGED holder
  BY <1>8 DEF StartStep
<1>9. ASSUME DayPasses \/ UNCHANGED vars PROVE UNCHANGED holder
  BY <1>9 DEF DayPasses, vars
<1>. QED  BY <1>2, <1>3, <1>4, <1>5, <1>6, <1>7, <1>8, <1>9 DEF Next, Work

\* An attempt of a cleanup that has met with no failure goes on, or meets with one, or ends well.
LEMMA TriedMoves ==
    ASSUME Sound, [Next]_vars, NEW u \in User, Tried(u), \A p \in procs : p.user \in grant
    PROVE  \/ Tried(u)'
           \/ Failures' = Failures + 1
           \/ \E p \in procs : p.user = u /\ CleanupEnds(p)
<1>1. TypeOK /\ OneEach(procs)  BY TypesAre DEF Sound
<1>2. PICK p \in procs : p.user = u /\ p.kind = "cleanup" /\ (p.at = "lock" \/ Holds(p))
  BY DEF Tried
<1>3. ASSUME NEW c \in {"errors", "drops"}, Spend(c) PROVE Failures' = Failures + 1
  BY <1>1, <1>3 DEF Spend, Failures, TypeOK, Counters
<1>4. CASE p \in procs'
  <2>1. CASE p.at = "lock"  BY <1>2, <1>4, <2>1 DEF Tried
  <2>2. CASE Holds(p)
    <3>1. CASE LockDrops  BY <1>3, <3>1 DEF LockDrops
    <3>2. ASSUME NEW q \in procs, Holds(q), q \notin procs' PROVE FALSE
      <4>1. q = p  BY <1>1, <2>2, <3>2 DEF OneEach, Holds, PidOf
      <4>. QED  BY <1>4, <3>2, <4>1
    <3>3. holder # Free  BY <2>2 DEF Holds, PidOf, Free
    <3>4. CASE UNCHANGED holder  BY <1>2, <1>4, <2>2, <3>4 DEF Tried, Holds
    <3>. QED  BY <3>1, <3>2, <3>3, <3>4, HolderMoves
  <2>. QED  BY <1>2, <2>1, <2>2
<1>5. CASE p \notin procs'
  <2>1. CASE CleanupEnters(p)
    <3>1. holder' = PidOf(p) /\ \E q, at : Advances(p, q, at)
      BY <1>1, <2>1, CleanupEntersDoes
    <3>2. PICK q : q \in procs' /\ q.user = p.user /\ q.kind = p.kind
      BY <3>1 DEF Advances
    <3>. QED  BY <1>2, <3>1, <3>2 DEF Tried, Holds, PidOf
  <2>2. CASE StopWatch(p)
    <3>1. UNCHANGED holder /\ p.at = "call" /\ \E q : Advances(p, q, "delete")
      BY <1>1, <2>2, StopWatchDoes
    <3>2. PICK q : q \in procs' /\ q.user = p.user /\ q.kind = p.kind
      BY <3>1 DEF Advances
    <3>. QED  BY <1>2, <3>1, <3>2 DEF Tried, Holds, PidOf
  <2>3. CASE AttemptFails(p)  BY <1>3, <2>3 DEF AttemptFails
  <2>4. CASE CleanupEnds(p)  BY <1>2, <2>4
  <2>5. CASE FindsLockGone(p)  BY <1>2, <2>5 DEF FindsLockGone
  <2>6. CASE FindsGrantGone(p)  BY <2>6 DEF FindsGrantGone
  <2>7. CASE \/ CallbackEnters(p) \/ CallbackSaves(p) \/ RenewalEnters(p) \/ StartWatch(p)
             \/ RenewalSaves(p) \/ RenewalSchedules(p) \/ RenewalEnds(p)
    BY <1>2, <2>7 DEF CallbackEnters, CallbackSaves, RenewalEnters, StartWatch, RenewalSaves,
                      RenewalSchedules, RenewalEnds
  <2>. QED  BY <1>5, <2>1, <2>2, <2>3, <2>4, <2>5, <2>6, <2>7, ProcLeaves
<1>. QED  BY <1>4, <1>5

\* No cleanup runs out of attempts before the mishaps do.
LEMMA CleanupLasts ==
    ASSUME Sound, Within, Owed, spent["revocations"] = 0, MaxMishaps < CleanupAttempts,
           NEW p \in procs, NEW s \in steps, p.kind = "cleanup", IsOf(s, p),
           AttemptFails(p) \/ FindsLockGone(p)
    PROVE  s.tries < Attempts(s)
<1>1. TypeOK /\ OneEach(procs)  BY TypesAre DEF Sound
<1>2. /\ s.kind = "cleanup" /\ s.user = p.user /\ Attempts(s) = CleanupAttempts
      /\ s.tries \in Nat /\ CleanupAttempts \in Nat /\ MaxMishaps \in Nat
  BY <1>1, ConnectionsAssumption DEF IsOf, Attempts, TypeOK, Step
<1>3. s.tries <= Failures + 1 /\ (~Tried(s.user) => s.tries <= Failures)
  BY <1>2 DEF Owed
<1>4. Failures \in Nat /\ Mishaps = Failures
  BY <1>1 DEF TypeOK, Failures, Mishaps, Counters
<1>5. CASE AttemptFails(p)
  <2>1. Mishaps < MaxMishaps  BY <1>5 DEF AttemptFails, Spend, MayHappen
  <2>. QED  BY <1>2, <1>3, <1>4, <2>1
<1>6. CASE FindsLockGone(p)
  <2>1. ~Holds(p) /\ p.at # "lock"  BY <1>6 DEF FindsLockGone
  <2>2. \A q \in procs : q.user = p.user /\ q.kind = "cleanup" => q = p
    BY <1>1 DEF OneEach
  <2>3. ~Tried(s.user)  BY <1>2, <2>1, <2>2 DEF Tried
  <2>. QED  BY <1>2, <1>3, <1>4, <2>3 DEF Within
<1>. QED  BY <1>5, <1>6

\* What starting a cleanup does to it.
LEMMA StartsCleanup ==
    ASSUME Sound, NEW u \in User, NEW x \in steps, CleanupOf(x, u), StartStep(x)
    PROVE  /\ ~Tried(u)
           /\ \E t \in steps' :
                 /\ CleanupOf(t, u) /\ \A s \in steps' : CleanupOf(s, u) => s = t
                 /\ Open(x) => t.status = x.status /\ t.live = x.live /\ t.tries = x.tries + 1 /\ Tried(u)'
                 /\ ~Open(x) => t.tries = x.tries
<1>1. TypeOK /\ x \in Step  BY DEF Sound, TypeOK
<1>2. ~Running(u, "cleanup")  BY <1>1, StartStepDoes DEF CleanupOf
<1>3. ~Tried(u)  BY <1>2 DEF Tried, Running
<1>4. PICK t \in Step : /\ Kept(x, t) /\ steps' = Replaced(steps, x, t)
                        /\ Open(x) => t.status = x.status /\ t.live = x.live /\ t.tries = x.tries + 1
                        /\ ~Open(x) => t.tries = x.tries
  BY <1>1, StartStepDoes DEF CleanupOf, Wanes
<1>5. Open(x) => Tried(u)'
  <2>. SUFFICES ASSUME Open(x) PROVE Tried(u)'
    OBVIOUS
  <2>1. PICK q : Begins(q) /\ IsOf(x, q)  BY <1>1, StartStepDoes DEF CleanupOf
  <2>. QED  BY <2>1 DEF Begins, IsOf, CleanupOf, Tried
<1>6. \A s \in steps : CleanupOf(s, u) => s = x
  BY <1>1 DEF Sound, Stepped, Grounded, CleanupOf, TypeOK
<1>7. t \in steps' /\ CleanupOf(t, u) /\ \A s \in steps' : CleanupOf(s, u) => s = t
  BY <1>4, <1>6 DEF Replaced, Kept, CleanupOf
<1>. QED  BY <1>3, <1>4, <1>5, <1>7

\* What a disconnection leaves.
LEMMA DisconnectOwes ==
    ASSUME Sound, NEW u \in User, Disconnect(u)
    PROVE  /\ \A s \in steps' : CleanupOf(s, u) => Fresh(s)
           /\ \E s \in steps' : CleanupOf(s, u)
<1>1. TypeOK /\ account[u].status # "disconnected" /\ today \in Nat
  BY ConnectionsAssumption DEF Sound, TypeOK, Disconnect
<1>2. \A s \in steps : ~CleanupOf(s, u)
  BY <1>1 DEF Sound, Stepped, Grounded, CleanupOf
<1>3. NoKey \in Key  BY DEF NoKey, Key
<1>4. PICK key \in Key, d \in Nat : key = NoKey /\ d = today  BY <1>1, <1>3
<1>5. steps' = Enqueued(steps, u, "cleanup", key, d)
  BY <1>1, <1>4, DisconnectDoes
<1>6. /\ \A t \in steps' : t \in steps \/ Fresh(t)
      /\ \E t \in steps' : t.user = u /\ t.kind = "cleanup" /\ t.key = key
  BY <1>5, AddedStep
<1>. QED  BY <1>2, <1>6 DEF CleanupOf

\* What is owed to a connection stays owed.
LEMMA OwedKept ==
    ASSUME Sound, Within, Owed, MaxMishaps < CleanupAttempts, [Next]_vars
    PROVE  Owed'
<1>. SUFFICES ASSUME spent'["revocations"] = 0
              PROVE  /\ \A u \in User : account'[u].status # "none" => u \in grant'
                     /\ \A p \in procs' : p.user \in grant'
                     /\ \A u \in User : account'[u].status = "disconnected" =>
                           \E s \in steps' : CleanupOf(s, u) /\ Open(s) /\ s.live
                     /\ \A s \in steps' : s.kind = "cleanup" =>
                           s.tries <= Failures' + 1 /\ (~Tried(s.user)' => s.tries <= Failures')
  BY DEF Owed, CleanupOf, Open
<1>1. /\ spent["revocations"] = 0
      /\ \A u \in User : account'[u].status # "none" => u \in grant'
      /\ \A r \in procs' : r.user \in grant'
  BY GrantedKept
<1>2. /\ \A u \in User : account[u].status # "none" => u \in grant
      /\ \A p \in procs : p.user \in grant
      /\ \A u \in User : account[u].status = "disconnected" =>
            \E s \in steps : CleanupOf(s, u) /\ Open(s) /\ s.live
      /\ \A s \in steps : s.kind = "cleanup" =>
            s.tries <= Failures + 1 /\ (~Tried(s.user) => s.tries <= Failures)
  BY <1>1 DEF Owed
<1>3. ASSUME NEW u \in User
      PROVE  \/ Spared(u)
             \/ Disconnect(u)
             \/ \E p \in procs : p.user = u /\ CleanupEnds(p)
             \/ \E s \in steps : CleanupOf(s, u) /\ StartStep(s)
  <2>1. \A p \in procs, s \in steps :
          p.kind = "cleanup" /\ IsOf(s, p) /\ (AttemptFails(p) \/ FindsLockGone(p))
          => s.tries < Attempts(s)
    BY <1>1, CleanupLasts
  <2>. QED  BY <1>2, <2>1, CleanupsMove
<1>4. TypeOK /\ Failures \in Nat /\ Failures' \in Nat /\ Failures' >= Failures
      /\ (\A s \in steps : s.tries \in Nat) /\ \A s \in steps' : s.user \in User
  BY FailuresGrow, SoundKept DEF Sound, TypeOK, Step
<1>5. ASSUME NEW u \in User, NEW p \in procs, p.user = u, CleanupEnds(p)
      PROVE  account'[u].status = "none" /\ \A s \in steps' : s.user # u
  BY <1>4, <1>5, CleanupEndsDoes
<1>6. ASSUME NEW u \in User, account'[u].status = "disconnected"
      PROVE  \E s \in steps' : CleanupOf(s, u) /\ Open(s) /\ s.live
  <2>1. account[u].status = "disconnected" \/ Disconnect(u)
    <3>1. ASSUME NEW p \in procs, CallbackSaves(p), p.user = u PROVE FALSE
      <4>1. PICK a : a = Started(p)  OBVIOUS
      <4>2. a.status = "connected" /\ account' = [account EXCEPT ![u] = a]
            /\ account \in [User -> Account]
        BY <1>4, <3>1, <4>1 DEF Started, CallbackSaves, TypeOK
      <4>. QED  BY <1>6, <4>2
    <3>. QED  BY <1>6, <3>1, StatusMoves DEF Mine
  <2>2. CASE Disconnect(u)  BY <2>2, DisconnectOwes DEF Fresh, Open
  <2>3. CASE account[u].status = "disconnected" /\ ~Disconnect(u)
    <3>1. PICK s \in steps : CleanupOf(s, u) /\ Open(s) /\ s.live  BY <1>2, <2>3
    <3>2. CASE Spared(u)  BY <3>1, <3>2 DEF Spared
    <3>3. ASSUME NEW x \in steps, CleanupOf(x, u), StartStep(x)
          PROVE  \E t \in steps' : CleanupOf(t, u) /\ Open(t) /\ t.live
      <4>1. x = s
        BY <1>4, <3>1, <3>3 DEF Sound, Stepped, Grounded, CleanupOf, TypeOK
      <4>. QED  BY <3>1, <3>3, <4>1, StartsCleanup DEF Open
    <3>. QED  BY <1>3, <1>5, <1>6, <2>3, <3>2, <3>3
  <2>. QED  BY <2>1, <2>2, <2>3
<1>7. ASSUME NEW s \in steps', s.kind = "cleanup"
      PROVE  s.tries <= Failures' + 1 /\ (~Tried(s.user)' => s.tries <= Failures')
  <2>1. PICK u \in User : u = s.user  BY <1>4
  <2>2. CASE Spared(u)
    <3>1. s \in steps  BY <1>7, <2>1, <2>2 DEF Spared, CleanupOf
    <3>2. s.tries <= Failures + 1 /\ (~Tried(u) => s.tries <= Failures) /\ s.tries \in Nat
      BY <1>2, <1>4, <1>7, <2>1, <3>1
    <3>3. Tried(u) => Tried(u)' \/ Failures' = Failures + 1
      <4>1. ~\E p \in procs : p.user = u /\ CleanupEnds(p)  BY <1>5, <1>7, <2>1
      <4>. QED  BY <1>2, <4>1, TriedMoves
    <3>4. s.tries <= Failures' + 1 /\ (~Tried(u)' => s.tries <= Failures')
      BY <1>4, <3>2, <3>3
    <3>. QED  BY <2>1, <3>4
  <2>3. CASE Disconnect(u)
    <3>1. s.tries = 0  BY <1>7, <2>1, <2>3, DisconnectOwes DEF CleanupOf, Fresh
    <3>2. Failures' \in Nat  BY <1>4
    <3>3. \A n \in Nat : n >= 0 /\ n + 1 >= 0  OBVIOUS
    <3>4. s.tries <= Failures' + 1 /\ s.tries <= Failures'  BY <3>1, <3>2, <3>3
    <3>. QED  BY <3>4
  <2>4. ASSUME NEW x \in steps, CleanupOf(x, u), StartStep(x)
        PROVE  s.tries <= Failures' + 1 /\ (~Tried(s.user)' => s.tries <= Failures')
    <3>1. /\ ~Tried(u)
          /\ Open(x) => s.tries = x.tries + 1 /\ Tried(u)'
          /\ ~Open(x) => s.tries = x.tries
      BY <1>7, <2>1, <2>4, StartsCleanup DEF CleanupOf
    <3>2. x.tries <= Failures /\ x.tries \in Nat
      BY <1>2, <1>4, <2>4, <3>1 DEF CleanupOf
    <3>3. s.tries <= Failures' + 1 /\ (~Tried(u)' => s.tries <= Failures')
      BY <1>4, <3>1, <3>2
    <3>. QED  BY <2>1, <3>3
  <2>. QED  BY <1>3, <1>5, <1>7, <2>1, <2>2, <2>3, <2>4
<1>. QED  BY <1>1, <1>6, <1>7

\* A connection that is disconnected has its cleanup ahead of it, whatever single attempt fails
\* or finds the step's work done by another, as long as no grant is revoked and fewer mishaps
\* happen than a cleanup has attempts (runGmailConnectionCleanup).
THEOREM CleanupStaysOwed ==
    ASSUME MaxMishaps < CleanupAttempts
    PROVE  Spec => []CleanupOwed
<1> DEFINE IInv == Sound /\ Within /\ Owed
<1>1. Init => IInv
  <2>. SUFFICES ASSUME Init PROVE Within /\ Owed
    BY SoundFirst
  <2>1. Mishaps = 0  BY DEF Init, Mishaps, Counters
  <2>2. Within  BY <2>1, ConnectionsAssumption DEF Within
  <2>3. Owed  BY DEF Init, Owed
  <2>. QED  BY <2>2, <2>3
<1>2. IInv /\ [Next]_vars => IInv'  BY SoundKept, WithinKept, OwedKept
<1>3. IInv => CleanupOwed  BY DEF CleanupOwed, Owed, Sound, CleanupOf
<1> HIDE DEF IInv
<1>. QED  BY <1>1, <1>2, <1>3, PTL DEF Spec
===============================================================================
