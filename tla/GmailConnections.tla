-------------------------- MODULE GmailConnections --------------------------
(***************************************************************************)
(* The connections that several users have to one Gmail mailbox, and the   *)
(* push registration (users.watch) they share.  Google knows one watch per *)
(* mailbox; every connection has a row of its own that claims it, renews   *)
(* it daily through gmail.watch.renew steps, and on disconnection is       *)
(* removed by a gmail.account.cleanup step that stops the watch when no    *)
(* other connection needs it.  The Gmail calls are made inside             *)
(* transactions that hold the advisory lock of the mailbox                 *)
(* (packages/database/src/gmail-identity.ts, gmail-watch.ts,               *)
(* gmail-watch-schedule.ts, replica.ts, repositories.ts, workflows.ts,     *)
(* apps/worker/src/activities/gmail/watch-lifecycle.ts, watch.ts,          *)
(* watch-renewal.ts, apps/api/src/routes/gmail-connections.ts).            *)
(***************************************************************************)
EXTENDS Integers, FiniteSets

CONSTANTS User,
          Lifetime,          \* days a watch lasts: seven at Google
          MaxAttempts,       \* attempts of a gmail.watch.renew step
          CleanupAttempts,   \* attempts of a gmail.account.cleanup step
          MaxDay,            \* bound: the last day
          MaxIds,            \* bound: connections a user makes one after the other
          MaxLogins,         \* bound: authorizations that come back from Google
          MaxDisconnects,    \* bound: disconnections
          MaxMishaps         \* bound: grants revoked at Google, attempts that fail or
                             \* crash, lock connections that drop

ASSUME ConnectionsAssumption ==
    /\ Lifetime \in Nat \ {0} /\ MaxAttempts \in Nat \ {0} /\ CleanupAttempts \in Nat \ {0}
    /\ {MaxDay, MaxIds, MaxLogins, MaxDisconnects, MaxMishaps} \subseteq Nat

VARIABLES today,
          registered,   \* Gmail: the day the mailbox's watch expires, 0 if there is none
          grant,        \* Google: the users whose grant to the application stands
          account,      \* connectedAccounts with gmailWatchStates, one row per user
          steps,        \* workflowSteps and their Executions
          procs,        \* callbacks and attempts in progress
          holder,       \* the process whose transaction holds the identity lock
          spent         \* how much of each bound a behaviour has used

vars == <<today, registered, grant, account, steps, procs, holder, spent>>

Kind == {"callback", "page", "renewal", "cleanup"}
Pid == User \X Kind
Free == <<>>

\* An idempotency key: the day of a daily step, or of the row's last renewal
\* ("state:", below 0), and how often it was recovered ("failed:" of a step).
Key == [day : Nat, recovery : Int]
NoKey == [day |-> 0, recovery |-> 0]
Daily(day) == [day |-> day, recovery |-> 0]
RecoveryOf(key) ==
    [key EXCEPT !.recovery = IF key.recovery < 0 THEN key.recovery - 1 ELSE key.recovery + 1]

\* building: a run whose first page has not yet looked at the watch.
\* failed: the gmail.watch.renew step that failed last.  restored: the
\* connection has been authorized again after its grant was lost.
Account == [status : {"none", "connected", "reconnect_required", "disconnected"},
            id : 0 .. MaxIds, expires : Nat, renewed : Nat,
            building : BOOLEAN, failed : Key, restored : BOOLEAN]
\* status "open" is queued or running; live says that the step's command waits
\* for dispatch or its Execution is open.
Step == [user : User, kind : {"renewal", "cleanup"}, key : Key, runAt : Nat,
         status : {"open", "complete", "failed"}, tries : Nat, live : BOOLEAN]
\* id: the connection a callback was asked to authorize again, 0 if none.
Proc == [user : User, kind : Kind, key : Key, id : 0 .. MaxIds,
         at : {"lock", "call", "save", "delete", "schedule", "catchup"},
         expires : Nat, renewed : Nat]

Counters == {"logins", "disconnects", "revocations", "errors", "drops", "refusals"}

TypeOK ==
    /\ today \in 0 .. MaxDay
    /\ registered \in Nat
    /\ grant \subseteq User
    /\ account \in [User -> Account]
    /\ steps \subseteq Step
    /\ \A s, r \in steps :
          s.user = r.user /\ s.kind = r.kind /\ s.key = r.key => s = r
    /\ \A s \in steps : s.tries <= IF s.kind = "cleanup" THEN CleanupAttempts ELSE MaxAttempts
    /\ procs \subseteq Proc
    /\ \A p, q \in procs : p.user = q.user /\ p.kind = q.kind => p = q
    /\ holder \in Pid \union {Free}
    /\ spent \in [Counters -> Nat]

Mishaps == spent["revocations"] + spent["errors"] + spent["drops"]
MayHappen(counter) ==
    IF counter = "logins" THEN spent["logins"] < MaxLogins
    ELSE IF counter = "disconnects" THEN spent["disconnects"] < MaxDisconnects
    ELSE Mishaps < MaxMishaps
Spend(counter) ==
    /\ MayHappen(counter)
    /\ spent' = [spent EXCEPT ![counter] = @ + 1]

PidOf(p) == <<p.user, p.kind>>
Holds(p) == holder = PidOf(p)
Moves(p, q) == procs' = (procs \ {p}) \union {q}
Ends(p) == procs' = procs \ {p}
\* The transaction of p is over, one way or the other.
Releases(p) == holder' = IF Holds(p) THEN Free ELSE holder
Running(u, kind) == \E p \in procs : p.user = u /\ p.kind = kind

Connected(u) == account[u].status = "connected"
Exists(u) == account[u].status # "none"
\* hasOtherGmailConnections: a connection whose grant is lost counts, one that
\* is being removed does not.  Mutant: only those that receive notifications.
OthersConnected(u) == \E v \in User \ {u} : Connected(v)
HasOthers(u) ==
    \E v \in User \ {u} : account[v].status \in {"connected", "reconnect_required"}

Init ==
    /\ today = 0
    /\ registered = 0
    /\ grant = {}
    /\ account = [u \in User |-> [status |-> "none", id |-> 0, expires |-> 0, renewed |-> 0,
                                  building |-> FALSE, failed |-> NoKey, restored |-> FALSE]]
    /\ steps = {} /\ procs = {} /\ holder = Free
    /\ spent = [c \in Counters |-> 0]

-----------------------------------------------------------------------------
(* Steps.                                                                  *)

\* enqueueWorkflowSteps: a key that exists is left alone.
Enqueued(ss, u, kind, key, runAt) ==
    IF \E s \in ss : s.user = u /\ s.kind = kind /\ s.key = key THEN ss
    ELSE ss \union {[user |-> u, kind |-> kind, key |-> key, runAt |-> runAt,
                     status |-> "open", tries |-> 0, live |-> TRUE]}

\* createDailyGmailWatchRenewalStep.
WithDaily(ss, u, renewed) == Enqueued(ss, u, "renewal", Daily(renewed + 1), renewed + 1)

\* createGmailWatchRecoveryStep: within a day, and a day before the watch expires.
Earlier(a, b) == IF a < b THEN a ELSE b
Later(a, b) == IF a > b THEN a ELSE b
RecoveryDay(u) == Later(today, Earlier(today + 1, account[u].expires - 1))
WithRecovery(ss, u, key) == Enqueued(ss, u, "renewal", key, RecoveryDay(u))

StepOf(p) == CHOOSE s \in steps : s.user = p.user /\ s.kind = p.kind /\ s.key = p.key
Replaced(ss, s, t) == (ss \ {s}) \union {t}
Open(s) == s.status = "open"
Attempts(s) == IF s.kind = "cleanup" THEN CleanupAttempts ELSE MaxAttempts

\* completeWorkflowStep, and the end of the Execution.
Completed(s) == [s EXCEPT !.status = IF Open(s) THEN "complete" ELSE @, !.live = FALSE]

\* terminalizeGmailAccountForReconnect: every open step that needs the grant
\* fails, and the connection asks to be authorized again.
OpenRenewals(u) == {s \in steps : s.user = u /\ s.kind = "renewal" /\ Open(s)}
Terminalized(ss, u) ==
    {IF s.user = u /\ s.kind = "renewal" /\ Open(s) THEN [s EXCEPT !.status = "failed"] ELSE s
        : s \in ss}
LostGrant(a, key) ==
    [a EXCEPT !.status = IF a.status = "disconnected" THEN a.status ELSE "reconnect_required",
              !.building = FALSE, !.failed = key]
LosesGrant(u, key) ==
    account' = IF Exists(u) THEN [account EXCEPT ![u] = LostGrant(account[u], key)] ELSE account
Loses(u) ==
    /\ steps' = Terminalized(steps, u)
    /\ \E key \in IF OpenRenewals(u) = {} THEN {account[u].failed}
                  ELSE {s.key : s \in OpenRenewals(u)} :
          LosesGrant(u, key)

-----------------------------------------------------------------------------
(* The users.                                                              *)

\* A consent comes back from Google: handleGmailStart named the connection it is
\* for, or none, at some time before; handleGmailCallback up to the lock.
Authorizes(u) ==
    /\ ~Running(u, "callback")
    /\ grant' = grant \union {u}
    /\ \E id \in 0 .. account[u].id :
          procs' = procs \union {[user |-> u, kind |-> "callback", key |-> NoKey, id |-> id,
                                  at |-> "lock", expires |-> 0, renewed |-> 0]}
    /\ Spend("logins")
    /\ UNCHANGED <<today, registered, account, steps, holder>>

\* The connection named by the request is gone, or is still being removed
\* (GmailConnectionDeletingError).
Refused(p) ==
    \/ p.id # 0 /\ (~Exists(p.user) \/ account[p.user].id # p.id)
    \/ account[p.user].status = "disconnected"

\* saveReturningGmailAuthentication.
Reauthorized(a) ==
    LET lost == a.status = "reconnect_required"
    IN [a EXCEPT !.status = "connected", !.building = a.building \/ lost,
                 !.restored = a.restored \/ lost]

\* getGmailConnectionForOAuth and refreshGmailAuthentication under the lock; a
\* mailbox that is not connected goes on to startGmailWatch.
CallbackEnters(p) ==
    LET u == p.user
    IN /\ p \in procs /\ p.kind = "callback" /\ p.at = "lock" /\ holder = Free
       /\ \/ /\ Refused(p)
             /\ Ends(p) /\ UNCHANGED <<account, holder>>
          \/ /\ ~Refused(p) /\ Exists(u)
             /\ account' = [account EXCEPT ![u] = Reauthorized(account[u])]
             /\ Ends(p) /\ UNCHANGED holder
          \/ /\ ~Refused(p) /\ ~Exists(u) /\ account[u].id < MaxIds
             /\ holder' = PidOf(p) /\ Moves(p, [p EXCEPT !.at = "call"])
             /\ UNCHANGED account
       /\ UNCHANGED <<today, registered, grant, steps, spent>>

\* saveStartedGmailWatch: a connection that is new has no older watch to respect.
Started(p) ==
    [status |-> "connected", id |-> account[p.user].id + 1, expires |-> p.expires,
     renewed |-> p.renewed, building |-> TRUE, failed |-> NoKey, restored |-> FALSE]

\* saveNewGmailConnection, with its initial run and the first renewal.
CallbackSaves(p) ==
    LET u == p.user
    IN /\ p \in procs /\ p.kind = "callback" /\ p.at = "save" /\ Holds(p)
       /\ account' = [account EXCEPT ![u] = Started(p)]
       /\ steps' = WithDaily(steps, u, p.renewed)
       /\ Releases(p) /\ Ends(p)
       /\ UNCHANGED <<today, registered, grant, spent>>

\* markGmailReplicaDeleting: one transaction under the lock.
Disconnect(u) ==
    /\ account[u].status \in {"connected", "reconnect_required"} /\ holder = Free
    /\ account' = [account EXCEPT ![u].status = "disconnected"]
    /\ steps' = Enqueued(steps, u, "cleanup", NoKey, today)
    /\ Spend("disconnects")
    /\ UNCHANGED <<today, registered, grant, procs, holder>>

\* Google withdraws the grant; a call that is refused for it finds out
\* (markGmailAccountReconnectRequired), and takes no lock of the mailbox.
RevokeGrant(u) ==
    /\ u \in grant /\ grant' = grant \ {u}
    /\ Spend("revocations")
    /\ UNCHANGED <<today, registered, account, steps, procs, holder>>

MarkReconnectRequired(u) ==
    /\ u \notin grant /\ Connected(u)
    /\ Loses(u)
    /\ UNCHANGED <<today, registered, grant, procs, holder, spent>>

-----------------------------------------------------------------------------
(* The attempts of the worker.                                             *)

\* ensureGmailWatch of a run: only a watch that has expired is renewed.
PageLooks(u) ==
    /\ Connected(u) /\ account[u].building /\ ~Running(u, "page")
    /\ IF account[u].expires > today
       THEN account' = [account EXCEPT ![u].building = FALSE] /\ UNCHANGED procs
       ELSE /\ procs' = procs \union {[user |-> u, kind |-> "page", key |-> NoKey, id |-> 0,
                                       at |-> "lock", expires |-> 0, renewed |-> 0]}
            /\ UNCHANGED account
    /\ UNCHANGED <<today, registered, grant, steps, holder, spent>>

\* markWorkflowStepRunning.  A renewal of a connection that is not connected is
\* not executed: its Execution ends, and its row stays as it is.  The account's
\* control lock keeps renewals and the cleanup apart.  Mutant: cleanups are
\* refused as well.
ConnectedOnly(s) == Open(s) /\ Connected(s.user)
Executable(s) == Open(s) /\ (s.kind = "cleanup" \/ Connected(s.user))
StartStep(s) ==
    LET u == s.user
    IN /\ s \in steps /\ s.live /\ s.runAt <= today
       /\ ~Running(u, "renewal") /\ ~Running(u, "cleanup")
       /\ \/ /\ Executable(s)
             /\ steps' = Replaced(steps, s, [s EXCEPT !.tries = @ + 1])
             /\ procs' = procs \union {[user |-> u, kind |-> s.kind, key |-> s.key, id |-> 0,
                                        at |-> "lock", expires |-> 0, renewed |-> 0]}
          \/ /\ ~Executable(s)
             /\ steps' = Replaced(steps, s, [s EXCEPT !.live = FALSE])
             /\ UNCHANGED procs
       /\ UNCHANGED <<today, registered, grant, account, holder, spent>>

\* renewGmailConnectionWatch under the lock; GmailConnectionInactiveError ends
\* the step as complete.  Mutant: what was read before the lock is trusted.
ConnectedBefore(p) == TRUE
StillConnected(p) == Connected(p.user)
RenewalEnters(p) ==
    /\ p \in procs /\ p.kind \in {"renewal", "page"} /\ p.at = "lock" /\ holder = Free
    /\ IF StillConnected(p)
       THEN /\ holder' = PidOf(p) /\ Moves(p, [p EXCEPT !.at = "call"])
            /\ UNCHANGED steps
       ELSE /\ Ends(p) /\ UNCHANGED holder
            /\ steps' = IF p.kind = "page" THEN steps
                        ELSE Replaced(steps, StepOf(p), Completed(StepOf(p)))
    /\ UNCHANGED <<today, registered, grant, account, spent>>

\* startGmailWatch reaches Gmail.
StartWatch(p) ==
    /\ p \in procs /\ p.kind # "cleanup" /\ p.at = "call" /\ p.user \in grant
    /\ registered' = today + Lifetime
    /\ Moves(p, [p EXCEPT !.at = "save", !.expires = today + Lifetime, !.renewed = today])
    /\ UNCHANGED <<today, grant, account, steps, holder, spent>>

\* saveGmailWatchState, which does nothing to a connection that has meanwhile
\* lost its grant, and the commit.
RenewalSaves(p) ==
    LET u == p.user
        saved == IF Connected(u)
                 THEN [account EXCEPT ![u].expires = p.expires, ![u].renewed = p.renewed]
                 ELSE account
    IN /\ p \in procs /\ p.kind \in {"renewal", "page"} /\ p.at = "save" /\ Holds(p)
       /\ account' = IF p.kind = "page" THEN [saved EXCEPT ![u].building = FALSE] ELSE saved
       /\ IF p.kind = "page" THEN Ends(p) ELSE Moves(p, [p EXCEPT !.at = "schedule"])
       /\ Releases(p)
       /\ UNCHANGED <<today, registered, grant, steps, spent>>

\* scheduleNext of runDailyGmailWatchRenewal, in a transaction of its own.
\* Mutant: the successor is named after the step and not after the renewal.
NextAfterStep(ss, p) == WithDaily(ss, p.user, p.key.day - 1)
NextRenewal(ss, p) == WithDaily(ss, p.user, p.renewed)
RenewalSchedules(p) ==
    /\ p \in procs /\ p.kind = "renewal" /\ p.at = "schedule" /\ Exists(p.user)
    /\ steps' = NextRenewal(steps, p)
    /\ Moves(p, [p EXCEPT !.at = "catchup"])
    /\ UNCHANGED <<today, registered, grant, account, holder, spent>>

\* catchUpGmailHistory, then completeWorkflowStep.
RenewalEnds(p) ==
    /\ p \in procs /\ p.kind = "renewal" /\ p.at = "catchup"
    /\ steps' = Replaced(steps, StepOf(p), Completed(StepOf(p)))
    /\ Ends(p)
    /\ UNCHANGED <<today, registered, grant, account, holder, spent>>

\* runGmailConnectionCleanup under the lock.
CleanupEnters(p) ==
    LET u == p.user
    IN /\ p \in procs /\ p.kind = "cleanup" /\ p.at = "lock" /\ holder = Free
       /\ holder' = PidOf(p)
       /\ Moves(p, [p EXCEPT !.at = IF HasOthers(u) THEN "delete" ELSE "call"])
       /\ UNCHANGED <<today, registered, grant, account, steps, spent>>

\* stopGmailWatch.  Without the grant Google refuses it, and the refusal is
\* passed over, if the stored access token has not to be refreshed.
StopWatch(p) ==
    /\ p \in procs /\ p.kind = "cleanup" /\ p.at = "call"
    /\ registered' = IF p.user \in grant THEN 0 ELSE registered
    /\ spent' = IF p.user \in grant THEN spent ELSE [spent EXCEPT !["refusals"] = 1]
    /\ Moves(p, [p EXCEPT !.at = "delete"])
    /\ UNCHANGED <<today, grant, account, steps, holder>>

\* completeWorkflowStep of a cleanup removes the connection, and with it its
\* steps, in the transaction that stopped the watch.
Removed(a) == [a EXCEPT !.status = "none", !.building = FALSE, !.expires = 0, !.renewed = 0,
                        !.failed = NoKey, !.restored = FALSE]
CleanupEnds(p) ==
    LET u == p.user
    IN /\ p \in procs /\ p.kind = "cleanup" /\ p.at = "delete" /\ Holds(p)
       /\ account' = [account EXCEPT ![u] = Removed(account[u])]
       /\ steps' = {s \in steps : s.user # u}
       /\ Releases(p) /\ Ends(p)
       /\ UNCHANGED <<today, registered, grant, spent>>

-----------------------------------------------------------------------------
(* Failures.                                                               *)

\* failWorkflowStep, or the reconciliation after the last attempt: a renewal
\* that has no attempt left gets a successor.  Mutant: none.
NotRecovered(ss, s) == ss
Recovered(ss, s) ==
    IF s.kind = "renewal" /\ Connected(s.user)
    THEN WithRecovery(ss, s.user, RecoveryOf(s.key)) ELSE ss
FailAttempt(s) ==
    \/ /\ ~Open(s)
       /\ steps' = Replaced(steps, s, [s EXCEPT !.live = FALSE]) /\ UNCHANGED account
    \/ /\ Open(s) /\ s.tries < Attempts(s)
       /\ UNCHANGED <<steps, account>>
    \/ /\ Open(s) /\ s.tries >= Attempts(s)
       /\ steps' = Recovered(Replaced(steps, s, [s EXCEPT !.status = "failed", !.live = FALSE]), s)
       /\ account' = IF s.kind = "renewal"
                     THEN [account EXCEPT ![s.user].failed = s.key] ELSE account

\* An attempt gives up: its transaction, if it has one, is rolled back, and
\* what Gmail has done stays done.
GivesUp(p) ==
    /\ IF p.kind \in {"renewal", "cleanup"} /\ \E s \in steps : s.user = p.user
                                               /\ s.kind = p.kind /\ s.key = p.key
       THEN FailAttempt(StepOf(p)) ELSE UNCHANGED <<steps, account>>
    /\ Ends(p) /\ Releases(p)
    /\ UNCHANGED <<today, registered, grant>>

AttemptFails(p) ==
    /\ p \in procs /\ p.at # "lock"
    /\ GivesUp(p) /\ Spend("errors")

\* The connection that holds the lock drops: the lock is free, the attempt
\* learns of it only at its next statement.
LockDrops ==
    /\ holder # Free /\ holder' = Free
    /\ Spend("drops")
    /\ UNCHANGED <<today, registered, grant, account, steps, procs>>

FindsLockGone(p) ==
    /\ p \in procs /\ p.at \in {"save", "delete"} /\ ~Holds(p)
    /\ GivesUp(p) /\ UNCHANGED spent

\* invalid_grant, or a 401 of startGmailWatch: the failure is terminal, and
\* the account loses its grant with it.
FindsGrantGone(p) ==
    LET u == p.user
    IN /\ p \in procs /\ p.at = "call" /\ u \notin grant
       /\ IF p.kind = "callback" THEN UNCHANGED <<steps, account>>
          ELSE IF p.kind = "cleanup"
          THEN LET s == StepOf(p) IN
               /\ steps' = Replaced(Terminalized(steps, u), s,
                                    [s EXCEPT !.status = "failed", !.live = FALSE])
               /\ UNCHANGED account
          ELSE Loses(u)
       /\ Ends(p) /\ Releases(p)
       /\ UNCHANGED <<today, registered, grant, spent>>

-----------------------------------------------------------------------------
\* ensureDailyGmailWatchRenewals whenever the worker boots, under the control lock.
EnsureDaily(u) ==
    LET a == account[u]
        key == IF a.failed = NoKey THEN [day |-> a.renewed, recovery |-> -1]
               ELSE RecoveryOf(a.failed)
    IN /\ Connected(u) /\ ~Running(u, "renewal") /\ ~Running(u, "cleanup")
       /\ OpenRenewals(u) = {}
       /\ steps' = WithRecovery(steps, u, key)
       /\ UNCHANGED <<today, registered, grant, account, procs, holder, spent>>

\* Work that is due is done within the day.
Due(s) == s.live /\ s.runAt <= today
DayPasses ==
    /\ today < MaxDay /\ procs = {}
    /\ \A s \in steps : ~Due(s)
    /\ \A u \in User : ~(Connected(u) /\ account[u].building)
    /\ today' = today + 1
    /\ UNCHANGED <<registered, grant, account, steps, procs, holder, spent>>

Work ==
    \/ \E p \in procs :
          \/ CallbackEnters(p) \/ CallbackSaves(p)
          \/ RenewalEnters(p) \/ StartWatch(p) \/ RenewalSaves(p) \/ RenewalSchedules(p)
          \/ RenewalEnds(p) \/ CleanupEnters(p) \/ StopWatch(p) \/ CleanupEnds(p)
          \/ FindsLockGone(p) \/ FindsGrantGone(p)
    \/ \E s \in steps : StartStep(s)
    \/ \E u \in User : PageLooks(u)

Next ==
    \/ Work \/ DayPasses \/ LockDrops
    \/ \E u \in User : Authorizes(u) \/ Disconnect(u) \/ RevokeGrant(u)
                       \/ MarkReconnectRequired(u) \/ EnsureDaily(u)
    \/ \E p \in procs : AttemptFails(p)

Spec == Init /\ [][Next]_vars
\* The worker and the API go on with what they have begun.
FairSpec == Spec /\ WF_vars(Work)

-----------------------------------------------------------------------------
\* A watch that the row of a connection claims is registered at Gmail: no
\* cleanup stops the watch of a mailbox that somebody else still has connected
\* or may authorize again, and none overtakes a registration (README.md:107,
\* gmail-identity.ts).  A dropped lock connection may let a stop come late.
SharedWatchKept ==
    spent["drops"] = 0 =>
        \A u \in User : account[u].status \in {"connected", "reconnect_required"} =>
            registered >= account[u].expires

\* Once the last connection is removed nothing is registered: no renewal that
\* was under way starts the watch again (watch-lifecycle.ts).  An attempt that
\* failed after its call to Gmail, or a stop that Google refused, may leave one.
NobodysWatch ==
    (\A u \in User : account[u].status = "none")
      /\ (\A p \in procs : p.at \in {"lock", "call"})
      /\ spent["drops"] = 0 /\ spent["errors"] = 0 /\ spent["refusals"] = 0
    => registered = 0

\* A connection receives notifications as long as it is connected, whatever
\* single step fails for good: every renewal leaves a successor that is due
\* before the watch expires (watch-renewal.ts, gmail-watch-schedule.ts).
Notified(u) == Connected(u) => registered > today
WatchHeld ==
    spent["drops"] = 0 /\ procs = {} =>
        \A u \in User : ~account[u].restored => Notified(u) \/ account[u].building

\* gmail-identity.ts: "reconnect_required connections still own a replica and
\* need notifications once authorization is restored".
NotifiedOnceRestored ==
    spent["drops"] = 0 /\ procs = {} =>
        \A u \in User : Notified(u) \/ account[u].building

\* A connection that is disconnected has its cleanup ahead of it, whatever single
\* attempt fails or finds the step's work done by another, as long as no grant
\* is revoked: nobody is left who can neither use the mailbox nor connect it
\* again (runGmailConnectionCleanup, GmailConnectionDeletingError).
CleanupOwed ==
    /\ TypeOK
    /\ spent["revocations"] = 0 =>
           \A u \in User : account[u].status = "disconnected" =>
               \E s \in steps : s.user = u /\ s.kind = "cleanup" /\ Open(s) /\ s.live

\* README.md: "Disconnect removes only that user's connection and local data".
DisconnectRemoves ==
    \A u \in User : account[u].status = "disconnected" ~> account[u].status # "disconnected"
=============================================================================
