----------------------------- MODULE MailSync -----------------------------
(***************************************************************************)
(* Synchronization of one connected Gmail account with its replica in      *)
(* PostgreSQL: synchronization runs and their items (packages/database/    *)
(* src/workflows.ts), the replica state (packages/database/src/replica.ts),*)
(* the Temporal Workflows that drive them (packages/workflows) and the     *)
(* Activities that talk to Gmail (apps/worker/src/activities/gmail).       *)
(*                                                                         *)
(* A step is one PostgreSQL transaction, one read of Gmail, or one         *)
(* decision of a Workflow.  Whatever an Activity read earlier is kept in   *)
(* its own record (exec, fetches, pass) and may be stale when it is used.  *)
(***************************************************************************)
EXTENDS GmailMailbox, FiniteSets

CONSTANTS MaxRuns,          \* bound: synchronization runs of the account
          MaxFetches,       \* bound: attempts of one thread in flight at once
          MaxFaults,        \* bound: attempts that fail or crash
          MaxDeaths,        \* bound: Executions Temporal gives up on
          MaxRevocations,   \* bound: times the Google grant is revoked
          MaxTriggers,      \* bound: renewals that fall due and catch-ups requested
          MaxBoots,         \* bound: restarts of the worker process
          MaxMishaps,       \* bound: all of these together
          ReconnectAnytime, \* FALSE: a reconnection waits for the Activities that were
                            \* at work when the grant was revoked
          HistoryExpires    \* FALSE: Gmail serves all history

ASSUME SyncAssumption ==
    /\ {MaxRuns, MaxFetches, MaxFaults, MaxDeaths,
        MaxRevocations, MaxTriggers, MaxBoots, MaxMishaps} \subseteq Nat
    /\ MaxRuns > 0
    /\ {ReconnectAnytime, HistoryExpires} \subseteq BOOLEAN

VARIABLES account,      \* connectedAccounts.status
          replica,      \* gmailReplicaStates: state, historyCursor, pendingHistoryCursor
          stored,       \* messages: the labels stored for m, or Absent
          runs,         \* mailSyncRuns
          items,        \* gmailSyncItems: items[r][t]
          keys,         \* idempotency keys of the catch-up and recovery steps
          offered,      \* runs whose gmail.sync.run command awaits dispatch
          signalled,    \* a gmail.history.catchup command awaits dispatch
          exec,         \* gmailSyncWorkflow Executions, one per run
          fetches,      \* threads that ingestion attempts have fetched, not stored
          job,          \* gmailIncrementalSyncWorkflow ("entity") and the
                        \* gmail.watch.renew step ("renewal"): triggers and attempts
          pass,         \* the Activity that holds the account's control lock
          oauth,        \* history id an OAuth callback has read, 0 for none
          spent         \* how much of each bound a behaviour has used

syncVars == <<account, replica, stored, runs, items, keys, offered, signalled,
              exec, fetches, job, pass, oauth, spent>>
vars == <<mailboxVars, syncVars>>

Run == 1 .. MaxRuns
InitialHistoryId == 1       \* gmailReplicaStates.initialHistoryId

\* queued and running are tested together everywhere, as are an item's.
RunRecord == [type : {"none", "initial", "repair"}, start : HistoryId,
              status : {"none", "active", "complete", "failed"},
              discovered : BOOLEAN]
ItemStatus == {"none", "open", "complete", "failed"}
ReplicaState == {"pending", "snapshotting", "replaying", "ready", "repairing", "failed"}
Replica == [state : ReplicaState, cursor : HistoryId, pending : HistoryId]

Phase == {"none", "discover", "state", "list", "ingest", "finalize",
          "done", "superseded", "failed"}
Execution == [phase : Phase, listed : SUBSET Thread, owed : SUBSET Thread, last : BOOLEAN]
Fetch == [run : Run, thread : Thread, content : [Message -> Content]]
JobKind == {"entity", "renewal"}
Job == [todo : BOOLEAN, attempt : 0 .. 2]      \* attempt 2 is any retry

Op == {"keep", "fetch", "upsert", "labels", "delete"}
Change == [op : Op, label : Content]
Keep == [op |-> "keep", label |-> Absent]
Pass == [kind : {"none", "entity", "renewal", "finalize"},
         step : {"none", "state", "drop", "read", "fetch", "apply", "ready",
                 "complete", "repair", "return", "again", "close"},
         run : 0 .. MaxRuns, expected : HistoryId, start : HistoryId,
         after : ReplicaState, drop : SUBSET Message,
         batch : [Message -> Change], upto : HistoryId]
NoBatch == [m \in Message |-> Keep]
NoPass == [kind |-> "none", step |-> "none", run |-> 0, expected |-> 0, start |-> 0,
           after |-> "failed", drop |-> {}, batch |-> NoBatch, upto |-> 0]
\* <<source, run it is about or 0, cursor it is about or 0>>
Key == {"push", "postReady", "recovery", "ready", "snapshotting", "repairing"}
         \X (0 .. MaxRuns) \X HistoryId

Active(r) == runs[r].status = "active"
ActiveRuns == {r \in Run : Active(r)}
Connected == account = "connected"

\* highestGmailHistoryCursor and the BigInt comparisons of the cursors.
Higher(a, b) == IF a >= b THEN a ELSE b
CurrentCursor == IF replica.cursor = 0 THEN InitialHistoryId ELSE replica.cursor
\* A pending cursor survives an apply up to n only while it is ahead of n.
\* PendingForgotten is its mutant: it clears a notification that came meanwhile.
PendingForgotten(n) == 0
PendingAfter(n) == IF replica.pending > n THEN replica.pending ELSE 0

TypeOK ==
    /\ MailboxTypeOK
    /\ account \in {"connected", "reconnect_required"}
    /\ replica \in Replica
    /\ stored \in [Message -> Content]
    /\ runs \in [Run -> RunRecord]
    /\ items \in [Run -> [Thread -> ItemStatus]]
    /\ keys \subseteq Key
    /\ offered \subseteq Run
    /\ signalled \in BOOLEAN
    /\ exec \in [Run -> Execution]
    /\ fetches \subseteq Fetch
    /\ job \in [JobKind -> Job]
    /\ pass \in Pass
    /\ oauth \in HistoryId
    /\ spent \in [faults : Nat, deaths : Nat, revocations : Nat,
                  triggers : Nat, boots : Nat]

\* saveNewGmailConnection: one transaction creates the account, its replica
\* at the history id the OAuth callback read, and the initial run.
Init ==
    /\ MailboxInit
    /\ account = "connected"
    /\ replica = [state |-> "pending", cursor |-> 0, pending |-> 0]
    /\ stored = [m \in Message |-> Absent]
    /\ runs = [r \in Run |->
                 IF r = 1
                 THEN [type |-> "initial", start |-> InitialHistoryId,
                       status |-> "active", discovered |-> FALSE]
                 ELSE [type |-> "none", start |-> 0, status |-> "none",
                       discovered |-> FALSE]]
    /\ items = [r \in Run |-> [t \in Thread |-> "none"]]
    /\ keys = {}
    /\ offered = {1}
    /\ signalled = FALSE
    /\ exec = [r \in Run |-> [phase |-> "none", listed |-> {}, owed |-> {}, last |-> FALSE]]
    /\ fetches = {}
    /\ job = [k \in JobKind |-> [todo |-> FALSE, attempt |-> 0]]
    /\ pass = NoPass
    /\ oauth = 0
    /\ spent = [faults |-> 0, deaths |-> 0, revocations |-> 0,
                triggers |-> 0, boots |-> 0]

Spend(bound, counter) ==
    /\ spent[counter] < bound
    /\ spent.faults + spent.deaths + spent.revocations + spent.triggers + spent.boots < MaxMishaps
    /\ spent' = [spent EXCEPT ![counter] = @ + 1]

-----------------------------------------------------------------------------
(* The outbox: dispatchTemporalCommandBatch and startAdmittedWorkflow.     *)

\* enqueueWorkflowStepWithExecutor of a gmail.history.catchup step: a step
\* whose key exists already keeps its old command, which is not offered again.
EnqueueCatchup(key) ==
    /\ keys' = keys \union {key}
    /\ signalled' = (signalled \/ key \notin keys)

\* ALLOW_DUPLICATE_FAILED_ONLY: the start of a run that has an Execution is
\* swallowed unless that Execution failed.  A new one walks from page 1.
DispatchRun(r) ==
    /\ r \in offered
    /\ offered' = offered \ {r}
    /\ exec' = IF exec[r].phase \in {"none", "failed"}
                THEN [exec EXCEPT ![r].phase = "discover"]
                ELSE exec
    /\ UNCHANGED <<mailboxVars, account, replica, stored, runs, items, keys, signalled,
                    fetches, job, pass, oauth, spent>>

\* signalWithStart of the account's gmailIncrementalSyncWorkflow, whose signal
\* handler counts the trigger, whatever the Workflow is doing.
\* Mutant: the trigger is counted only by an idle entity.
TriggeredWhenIdle == [job EXCEPT !["entity"].todo = @ \/ job["entity"].attempt = 0]
Triggered == [job EXCEPT !["entity"].todo = TRUE]

DispatchCatchup ==
    /\ signalled
    /\ signalled' = FALSE
    /\ job' = Triggered
    /\ UNCHANGED <<mailboxVars, account, replica, stored, runs, items, keys, offered,
                    exec, fetches, pass, oauth, spent>>

-----------------------------------------------------------------------------
(* gmailSyncWorkflow: discovery and ingestion.                             *)

\* startMailSyncRun: the run must be active and the account connected.
\* Mutant: only the account is checked.
MayStartWhenConnected(r) == Connected
MayStart(r) == Active(r) /\ Connected

PageStart(r) ==
    /\ exec[r].phase = "discover"
    /\ exec' = [exec EXCEPT ![r].phase =
                   CASE ~MayStart(r)                       -> "superseded"
                     [] MayStart(r) /\ exec[r].listed = {} -> "state"
                     [] OTHER                              -> "list"]
    /\ UNCHANGED <<mailboxVars, account, replica, stored, runs, items, keys, offered, signalled,
                    fetches, job, pass, oauth, spent>>

\* setGmailReplicaState does nothing for an account that is not connected.
SetReplicaState(state) ==
    replica' = IF Connected THEN [replica EXCEPT !.state = state] ELSE replica

PageState(r) ==
    /\ exec[r].phase = "state"
    /\ SetReplicaState(IF runs[r].type = "repair" THEN "repairing" ELSE "snapshotting")
    /\ exec' = [exec EXCEPT ![r].phase = "list"]
    /\ UNCHANGED <<mailboxVars, account, stored, runs, items, keys, offered, signalled,
                    fetches, job, pass, oauth, spent>>

\* A walk of threads.list passes every thread whose mail it found at its start;
\* a thread with newer mail only may come on any page or on none.
MustList(r, t) ==
    \E m \in ThreadMessages(t) : mail[m] # Absent /\ ~AddedSince(m, runs[r].start)

\* listGmailThreads and recordMailSyncPage.  Threads already recorded are not
\* duplicated, and the page owes ingestion of those that are still open.
PageRecord(r, page, isLast) ==
    /\ exec[r].phase = "list"
    /\ Connected
    /\ \A t \in page : Present(t) /\ t \notin exec[r].listed
    /\ page # {} \/ isLast
    /\ isLast => \A t \in Thread : MustList(r, t) => t \in page \union exec[r].listed
    /\ IF Active(r)
       THEN /\ items' = [items EXCEPT ![r] =
                   [t \in Thread |-> IF t \in page /\ @[t] = "none" THEN "open" ELSE @[t]]]
            /\ runs' = [runs EXCEPT ![r].discovered = @ \/ isLast]
            /\ exec' = [exec EXCEPT ![r] =
                   [phase |-> "ingest", listed |-> @.listed \union page, last |-> isLast,
                    owed |-> {t \in page : items'[r][t] = "open"}]]
       ELSE /\ exec' = [exec EXCEPT ![r].phase = "superseded"]
            /\ UNCHANGED <<items, runs>>
    /\ UNCHANGED <<mailboxVars, account, replica, stored, keys, offered, signalled,
                    fetches, job, pass, oauth, spent>>

\* The page Activity is retried from its beginning.
PageFails(r) ==
    /\ exec[r].phase \in {"state", "list"}
    /\ Spend(MaxFaults, "faults")
    /\ exec' = [exec EXCEPT ![r].phase = "discover"]
    /\ UNCHANGED <<mailboxVars, account, replica, stored, runs, items, keys, offered, signalled,
                    fetches, job, pass, oauth>>

Attempts(r, t) == {f \in fetches : f.run = r /\ f.thread = t}

\* markMailSyncThreadRunning and getGmailThread.  A retry may start while an
\* attempt that timed out is still at work.  No content at all is a 404.
IngestFetch(r, t) ==
    /\ exec[r].phase = "ingest"
    /\ t \in exec[r].owed
    /\ Active(r) /\ items[r][t] = "open"
    /\ Connected
    /\ Cardinality(Attempts(r, t)) < MaxFetches
    /\ fetches' = fetches \union
          {[run |-> r, thread |-> t,
            content |-> [m \in Message |-> IF ThreadOf[m] = t THEN mail[m] ELSE Absent]]}
    /\ UNCHANGED <<mailboxVars, account, replica, stored, runs, items, keys, offered, signalled,
                    exec, job, pass, oauth, spent>>

\* upsertMailboxThreadMessages: the messages and the item commit together, and
\* only while the run owns the account and the item is not settled.  A thread
\* that is gone (completeMailSyncThread) settles its item only.
Found(f) == {m \in Message : f.content[m] # Absent}
\* Mutants: no check of the run and the item; no way to settle a thread that is gone.
SettlesForAnyone(f) == Connected
SettlesFoundOnly(f) == Active(f.run) /\ Connected /\ Found(f) # {}
Settles(f) ==
    /\ Active(f.run)
    /\ Connected \/ Found(f) = {}
    /\ items[f.run][f.thread] = "open"

IngestStore(f) ==
    /\ f \in fetches
    /\ fetches' = fetches \ {f}
    /\ IF Settles(f)
       THEN /\ stored' = [m \in Message |-> IF m \in Found(f) THEN f.content[m] ELSE stored[m]]
            /\ items' = [items EXCEPT ![f.run][f.thread] = "complete"]
       ELSE UNCHANGED <<stored, items>>
    /\ UNCHANGED <<mailboxVars, account, replica, runs, keys, offered, signalled,
                    exec, job, pass, oauth, spent>>

\* The attempt dies, or failMailSyncThread returns its item to the queue.
IngestFails(f) ==
    /\ f \in fetches
    /\ Spend(MaxFaults, "faults")
    /\ fetches' = fetches \ {f}
    /\ UNCHANGED <<mailboxVars, account, replica, stored, runs, items, keys, offered, signalled,
                    exec, job, pass, oauth>>

\* Every batch of the page has returned.  An attempt that timed out may outlive it.
\* Mutant: the first batch to return ends the page.
PageStoredInPart(r) == exec[r].owed = {} \/ \E t \in exec[r].owed : items[r][t] # "open"
PageStored(r) == \A t \in exec[r].owed : items[r][t] # "open"

IngestReturn(r) ==
    /\ exec[r].phase = "ingest"
    /\ Active(r) => PageStored(r)
    /\ exec' = [exec EXCEPT ![r].owed = {}, ![r].phase =
                   IF ~Active(r) THEN "superseded"
                   ELSE IF exec[r].last THEN "finalize" ELSE "discover"]
    /\ UNCHANGED <<mailboxVars, account, replica, stored, runs, items, keys, offered, signalled,
                    fetches, job, pass, oauth, spent>>

-----------------------------------------------------------------------------
(* Activities that run under withGmailAccountControlLock.  There is one    *)
(* holder at a time: a catch-up of the entity, a watch renewal, which ends *)
(* in a catch-up, or the finalization of a run.                            *)

LockFree == pass.kind = "none"

\* Temporal runs the Activity again; only a step still queued or running is.
Abort ==
    /\ pass' = NoPass
    /\ job' = [k \in JobKind |->
                  IF k = pass.kind /\ job[k].attempt > 0
                  THEN [job[k] EXCEPT !.attempt = 2] ELSE job[k]]

\* catchUpGmailHistory: what planGmailHistoryCatchup decides from the replica.
RepairRuns == {r \in ActiveRuns : runs[r].type = "repair"}
Replayable ==
    \/ replica.state \in {"ready", "snapshotting"}
    \/ replica.state = "repairing" /\ RepairRuns # {}
ReplayStart ==
    IF replica.state = "repairing"
    THEN Higher(CurrentCursor, runs[CHOOSE r \in RepairRuns : TRUE].start)
    ELSE CurrentCursor

\* The entity clears its triggers before the Activity starts, not after.
Due(k) ==
    /\ LockFree
    /\ job[k].attempt = 2 \/ (job[k].attempt = 0 /\ job[k].todo)
\* Mutant: attempts are counted without end.
TakenUncapped(k) == [job[k] EXCEPT !.attempt = @ + 1]
Taken(k) == IF job[k].attempt = 2 THEN job[k] ELSE [todo |-> FALSE, attempt |-> 1]

CatchUpReplay(k) ==
    /\ Due(k)
    /\ Replayable
    /\ job' = [job EXCEPT ![k] = Taken(k)]
    /\ pass' = [NoPass EXCEPT !.kind = k, !.step = "read", !.after = replica.state,
                              !.expected = CurrentCursor, !.start = ReplayStart]
    /\ UNCHANGED <<mailboxVars, account, replica, stored, runs, items, keys, offered, signalled,
                    exec, fetches, oauth, spent>>

\* shouldRepairNonReadyGmailReplica; the repair starts from the mailbox's
\* current history id (repairExpiredHistory).
CatchUpRepair(k) ==
    /\ Due(k)
    /\ ~Replayable
    /\ job[k].attempt = 2 \/ (k = "renewal" /\ replica.state = "failed")
    /\ Connected
    /\ job' = [job EXCEPT ![k] = Taken(k)]
    /\ pass' = [NoPass EXCEPT !.kind = k, !.step = "repair", !.upto = head]
    /\ UNCHANGED <<mailboxVars, account, replica, stored, runs, items, keys, offered, signalled,
                    exec, fetches, oauth, spent>>

\* Deferred, or, when a retry finds the grant revoked, failed for good.
CatchUpDefer(k) ==
    /\ Due(k)
    /\ ~Replayable
    /\ IF job[k].attempt = 2 THEN ~Connected
                              ELSE ~(k = "renewal" /\ replica.state = "failed" /\ Connected)
    /\ job' = [job EXCEPT ![k] = [todo |-> FALSE, attempt |-> 0]]
    /\ UNCHANGED <<mailboxVars, account, replica, stored, runs, items, keys, offered, signalled,
                    exec, fetches, pass, oauth, spent>>

\* createMailSyncRun for a repair from `start`.  An active run is reused; a run
\* of an earlier repair from the same cursor that has ended is not.
\* Mutant: an active run is not looked for.
OwnedByNobody == FALSE
Owned == ActiveRuns # {}
Offer(r) == offered' = offered \union {r}

CreateRepairRun(start) ==
    LET fresh == {r \in Run : runs[r].status = "none"}
        used == {r \in Run : runs[r].type = "repair" /\ runs[r].start = start}
    IN \/ /\ Owned
          /\ replica' = [replica EXCEPT !.state = "repairing"]
          /\ UNCHANGED <<runs, offered>>
       \/ /\ ~Owned /\ used # {}
          /\ UNCHANGED <<replica, runs, offered>>
       \/ /\ ~Owned /\ used = {}
          /\ \E r \in fresh :
               /\ \A other \in fresh : r <= other
               /\ runs' = [runs EXCEPT ![r] = [type |-> "repair", start |-> start,
                                                status |-> "active", discovered |-> FALSE]]
               /\ Offer(r)
          /\ replica' = [replica EXCEPT !.state = "repairing"]

StartRepair ==
    /\ pass.step = "repair"
    /\ CreateRepairRun(pass.upto)
    /\ pass' = [pass EXCEPT !.step = "close"]
    /\ UNCHANGED <<mailboxVars, account, stored, items, keys, signalled,
                    exec, fetches, job, oauth, spent>>

\* applyHistoryRange: the last of delete, upsert and labels in that order of
\* precedence; labels of a message that is not stored need the whole message.
HistoryBatch(start) ==
    [m \in Message |->
       CASE RemovedSince(m, start) -> [op |-> "delete", label |-> Absent]
         [] AddedSince(m, start) /\ ~RemovedSince(m, start) ->
              [op |-> "fetch", label |-> Absent]
         [] LabelledSince(m, start) /\ ~AddedSince(m, start) /\ ~RemovedSince(m, start) ->
              IF stored[m] = Absent THEN [op |-> "fetch", label |-> Absent]
                                    ELSE [op |-> "labels", label |-> mail[m]]
         [] OTHER -> Keep]
\* The cursor after a range: the history id that the last page reports.
HistoryEnd(start) == head
AwaitsFetch(batch) == \E m \in Message : batch[m].op = "fetch"

PassRead ==
    /\ pass.step = "read"
    /\ Connected
    /\ pass.start >= horizon
    /\ LET batch == HistoryBatch(pass.start)
       IN pass' = [pass EXCEPT !.batch = batch, !.upto = HistoryEnd(pass.start),
                               !.step = IF AwaitsFetch(batch) THEN "fetch" ELSE "apply"]
    /\ UNCHANGED <<mailboxVars, account, replica, stored, runs, items, keys, offered, signalled,
                    exec, fetches, job, oauth, spent>>

\* A 404 starts a repair when the replica was ready and is an error otherwise.
PassReadExpired ==
    /\ pass.step = "read"
    /\ Connected
    /\ pass.start < horizon
    /\ IF pass.after = "ready"
       THEN /\ pass' = [pass EXCEPT !.step = "repair", !.upto = head]
            /\ UNCHANGED job
       ELSE Abort
    /\ UNCHANGED <<mailboxVars, account, replica, stored, runs, items, keys, offered, signalled,
                    exec, fetches, oauth, spent>>

\* A message that Gmail no longer has by then (404) becomes a deletion.
FetchedChange(m) ==
    [op |-> IF mail[m] = Absent THEN "delete" ELSE "upsert", label |-> mail[m]]

PassFetch ==
    /\ pass.step = "fetch"
    /\ Connected
    /\ pass' = [pass EXCEPT !.step = "apply", !.batch =
          [m \in Message |-> IF @[m].op = "fetch" THEN FetchedChange(m) ELSE @[m]]]
    /\ UNCHANGED <<mailboxVars, account, replica, stored, runs, items, keys, offered, signalled,
                    exec, fetches, job, oauth, spent>>

\* A read of Gmail that the revoked grant refuses ends the entity's Execution.
PassRevoked ==
    /\ pass.step \in {"read", "fetch"}
    /\ ~Connected
    /\ pass' = NoPass
    /\ job' = [k \in JobKind |->
                  IF k = pass.kind THEN [todo |-> FALSE, attempt |-> 0] ELSE job[k]]
    /\ UNCHANGED <<mailboxVars, account, replica, stored, runs, items, keys, offered, signalled,
                    exec, fetches, oauth, spent>>

Applied(change, current) ==
    CASE change.op = "upsert"                       -> change.label
      [] change.op = "labels" /\ current # Absent   -> change.label
      [] change.op = "delete"                       -> Absent
      [] OTHER                                      -> current

\* applyGmailHistoryBatch, and what the caller makes of its outcome.
PassApply ==
    /\ pass.step = "apply"
    /\ IF Connected /\ CurrentCursor = pass.expected
       THEN /\ stored' = [m \in Message |-> Applied(pass.batch[m], stored[m])]
            /\ replica' = [state |-> pass.after, cursor |-> pass.upto,
                           pending |-> PendingAfter(pass.upto)]
            /\ pass' = [pass EXCEPT !.batch = NoBatch,
                  !.expected = pass.upto, !.start = pass.upto,
                  !.step = IF replica'.pending > 0
                           THEN IF pass.kind = "finalize" THEN "read"
                                ELSE IF pass.kind = "entity" THEN "again" ELSE "return"
                           ELSE IF pass.kind = "finalize" THEN "ready" ELSE "return"]
            /\ UNCHANGED job
       ELSE /\ IF pass.kind = "finalize" THEN Abort
               ELSE /\ pass' = [pass EXCEPT !.batch = NoBatch, !.step = "return"]
                    /\ UNCHANGED job
            /\ UNCHANGED <<stored, replica>>
    /\ UNCHANGED <<mailboxVars, account, runs, items, keys, offered, signalled,
                    exec, fetches, oauth, spent>>

\* The Activity's result reaches its Workflow.  One that started a repair
\* closes, and drops the triggers it had not served yet.
TodoAfter(k) ==
    CASE pass.step = "again"                   -> TRUE
      [] pass.step = "close" /\ k = "entity"   -> FALSE
      [] OTHER                                 -> job[k].todo

PassReturn ==
    /\ pass.step \in {"return", "again", "close"}
    /\ pass' = NoPass
    /\ job' = [k \in JobKind |-> IF k = pass.kind THEN [todo |-> TodoAfter(k), attempt |-> 0]
                                                 ELSE job[k]]
    /\ UNCHANGED <<mailboxVars, account, replica, stored, runs, items, keys, offered, signalled,
                    exec, fetches, oauth, spent>>

PassFails ==
    /\ ~LockFree
    /\ Spend(MaxFaults, "faults")
    /\ Abort
    /\ UNCHANGED <<mailboxVars, account, replica, stored, runs, items, keys, offered, signalled,
                    exec, fetches, oauth>>

-----------------------------------------------------------------------------
(* finalizeGmailSyncActivity.                                              *)

\* The final replay covers everything since the run began, however far the
\* catch-ups of the walk have come, so that no fetch of ingestion outlives it.
FinalReplayStart(r) == runs[r].start

FinalizeStart(r) ==
    /\ exec[r].phase = "finalize"
    /\ LockFree
    /\ IF Active(r)
       THEN /\ pass' = [NoPass EXCEPT !.kind = "finalize", !.step = "state", !.run = r,
                                      !.expected = CurrentCursor, !.start = FinalReplayStart(r)]
            /\ UNCHANGED exec
       ELSE /\ exec' = [exec EXCEPT ![r].phase = "superseded"]
            /\ UNCHANGED pass
    /\ UNCHANGED <<mailboxVars, account, replica, stored, runs, items, keys, offered, signalled,
                    fetches, job, oauth, spent>>

\* A repair drops every stored message that is not in a thread it discovered
\* (getMailSyncRunProviderMessageIds against getIndexedMessageIds).
Undiscovered(r) == {m \in Message : stored[m] # Absent /\ items[r][ThreadOf[m]] = "none"}

FinalizeState ==
    /\ pass.step = "state"
    /\ LET isRepair == runs[pass.run].type = "repair"
           after == IF isRepair THEN "repairing" ELSE "replaying"
           drop == IF isRepair THEN Undiscovered(pass.run) ELSE {}
       IN /\ SetReplicaState(after)
          /\ pass' = [pass EXCEPT !.after = after, !.drop = drop,
                                  !.step = IF drop = {} THEN "read" ELSE "drop"]
    /\ UNCHANGED <<mailboxVars, account, stored, runs, items, keys, offered, signalled,
                    exec, fetches, job, oauth, spent>>

\* deleteIndexedMessage, a transaction for each message.
DropMessage(m) ==
    /\ pass.step = "drop"
    /\ m \in pass.drop
    /\ stored' = [stored EXCEPT ![m] = Absent]
    /\ pass' = [pass EXCEPT !.drop = @ \ {m},
                            !.step = IF pass.drop = {m} THEN "read" ELSE "drop"]
    /\ UNCHANGED <<mailboxVars, account, replica, runs, items, keys, offered, signalled,
                    exec, fetches, job, oauth, spent>>

\* markGmailReplicaReady; a cursor still pending gets a catch-up of its own.
\* Mutant: the replica is published at the baseline of its run.
ReadyCursorAtStart == runs[pass.run].start
ReadyCursor == pass.upto

MarkReady ==
    /\ pass.step = "ready"
    /\ IF Connected
       THEN /\ replica' = [state |-> "ready", cursor |-> ReadyCursor,
                           pending |-> PendingAfter(pass.upto)]
            /\ IF replica'.pending > 0
               THEN EnqueueCatchup(<<"postReady", 0, replica'.pending>>)
               ELSE UNCHANGED <<keys, signalled>>
       ELSE UNCHANGED <<replica, keys, signalled>>
    /\ pass' = [pass EXCEPT !.step = "complete"]
    /\ UNCHANGED <<mailboxVars, account, stored, runs, items, offered,
                    exec, fetches, job, oauth, spent>>

\* completeMailSyncRun throws unless the replica is ready at the final cursor
\* and every discovered thread is stored; the Activity is then run again.
Completable(r) ==
    /\ replica.state = "ready"
    /\ CurrentCursor = pass.upto
    /\ runs[r].discovered
    /\ \A t \in Thread : items[r][t] \in {"none", "complete"}

CompleteRun ==
    /\ pass.step = "complete"
    /\ LET r == pass.run
       IN \/ /\ Active(r) /\ Connected /\ Completable(r)
             /\ runs' = [runs EXCEPT ![r].status = "complete"]
             /\ exec' = [exec EXCEPT ![r].phase = "done"]
          \/ /\ Active(r) /\ Connected /\ ~Completable(r)
             /\ UNCHANGED <<runs, exec>>
          \/ /\ ~(Active(r) /\ Connected)
             /\ exec' = [exec EXCEPT ![r].phase = "superseded"]
             /\ UNCHANGED runs
    /\ pass' = NoPass
    /\ UNCHANGED <<mailboxVars, account, replica, stored, items, keys, offered, signalled,
                    fetches, job, oauth, spent>>

-----------------------------------------------------------------------------
(* What reaches the account from outside: Pub/Sub, the web API, OAuth,     *)
(* time, failures and restarts.                                            *)

\* recordGmailConnectionPush.  Pub/Sub delivers any history id the mailbox has
\* had, in any order and any number of times.
Push(n) ==
    /\ Connected
    /\ replica' = [replica EXCEPT !.pending = Higher(@, n)]
    /\ EnqueueCatchup(<<"push", 0, replica'.pending>>)
    /\ UNCHANGED <<mailboxVars, account, stored, runs, items, offered,
                    exec, fetches, job, pass, oauth, spent>>

\* enqueueGmailHistoryCatchup under a key of its own, and a returning sign-in.
RequestCatchup ==
    /\ Connected
    /\ Spend(MaxTriggers, "triggers")
    /\ signalled' = TRUE
    /\ UNCHANGED <<mailboxVars, account, replica, stored, runs, items, keys, offered,
                    exec, fetches, job, pass, oauth>>

\* ensureDailyGmailWatchRenewals and enqueueDailyGmailWatchRenewal.
RenewalDue ==
    /\ Connected
    /\ Spend(MaxTriggers, "triggers")
    /\ job' = [job EXCEPT !["renewal"].todo = TRUE]
    /\ UNCHANGED <<mailboxVars, account, replica, stored, runs, items, keys, offered, signalled,
                    exec, fetches, pass, oauth>>

\* failWorkflowStep when the last attempt fails: the replica is failed and a
\* recovery of the watch is enqueued.
RenewalFails ==
    /\ LockFree
    /\ Connected
    /\ job["renewal"].attempt = 2
    /\ replica' = [replica EXCEPT !.state = "failed"]
    /\ job' = [job EXCEPT !["renewal"] = [todo |-> TRUE, attempt |-> 0]]
    /\ UNCHANGED <<mailboxVars, account, stored, runs, items, keys, offered, signalled,
                    exec, fetches, pass, oauth, spent>>

\* scheduleToCloseTimeout of an Activity fails the Execution that awaits it.
EntityFails ==
    /\ LockFree
    /\ job["entity"].attempt = 2
    /\ Spend(MaxDeaths, "deaths")
    /\ job' = [job EXCEPT !["entity"] = [todo |-> FALSE, attempt |-> 0]]
    /\ UNCHANGED <<mailboxVars, account, replica, stored, runs, items, keys, offered, signalled,
                    exec, fetches, pass, oauth>>

RunExecutionFails(r) ==
    /\ exec[r].phase \in {"discover", "state", "list", "ingest", "finalize"}
    /\ pass.run # r
    /\ Spend(MaxDeaths, "deaths")
    /\ exec' = [exec EXCEPT ![r] = [phase |-> "failed", listed |-> {}, owed |-> {}, last |-> FALSE]]
    /\ UNCHANGED <<mailboxVars, account, replica, stored, runs, items, keys, offered, signalled,
                    fetches, job, pass, oauth>>

\* markGmailAccountReconnectRequired: terminalizeGmailAccountForReconnect fails
\* the active runs with their open items, the replica and the queued steps.
Revoke ==
    /\ Connected
    /\ Spend(MaxRevocations, "revocations")
    /\ account' = "reconnect_required"
    /\ runs' = [r \in Run |-> IF Active(r) THEN [runs[r] EXCEPT !.status = "failed"] ELSE runs[r]]
    /\ items' = [r \in Run |-> [t \in Thread |->
                    IF Active(r) /\ items[r][t] = "open" THEN "failed" ELSE items[r][t]]]
    /\ replica' = [replica EXCEPT !.state = "failed"]
    /\ job' = [job EXCEPT !["renewal"] = [todo |-> FALSE, attempt |-> 0]]
    /\ UNCHANGED <<mailboxVars, stored, keys, offered, signalled, exec, fetches, pass, oauth>>

\* The OAuth callback reads the profile before the transaction that uses it.
ReconnectProfile ==
    /\ ~Connected
    /\ oauth = 0
    /\ oauth' = head
    /\ UNCHANGED <<mailboxVars, account, replica, stored, runs, items, keys, offered, signalled,
                    exec, fetches, job, pass, spent>>

\* saveReturningGmailAuthentication of an account in reconnect_required.
Reconnect ==
    /\ ReconnectAnytime \/ (LockFree /\ \A r \in Run : exec[r].phase # "state")
    /\ oauth > 0
    /\ account' = "connected"
    /\ CreateRepairRun(oauth)
    /\ oauth' = 0
    /\ UNCHANGED <<mailboxVars, stored, items, keys, signalled, exec, fetches, job, pass, spent>>

\* The sweeps of a starting worker, in the order it makes them:
\* enqueueMissingMailSyncRuns re-offers the run that starts at the initial
\* cursor, enqueueFailedInitialGmailRepairRecoveries enqueues one recovery for
\* a failed initial run, enqueuePendingGmailHistoryCatchups one catch-up for a
\* cursor that is pending in a replica that can replay.
Readmitted ==
    IF Connected /\ replica.state \notin {"ready", "failed"}
    THEN {r \in ActiveRuns : runs[r].start = InitialHistoryId} ELSE {}
RecoveryKeys ==
    IF Connected /\ replica.state = "failed"
    THEN {<<"recovery", r, 0>> : r \in {i \in Run : runs[i].type = "initial"
                                                  /\ runs[i].status = "failed"}}
    ELSE {}
PendingKeys ==
    IF Connected /\ replica.pending > 0 /\ Replayable
    THEN {<<replica.state, IF replica.state = "repairing"
                           THEN CHOOSE r \in RepairRuns : TRUE ELSE 0, replica.pending>>}
    ELSE {}

Boot ==
    /\ Spend(MaxBoots, "boots")
    /\ offered' = offered \union Readmitted
    /\ job' = [job EXCEPT !["renewal"].todo = @ \/ ~(RecoveryKeys \subseteq keys)]
    /\ signalled' = (signalled \/ ~(PendingKeys \subseteq keys))
    /\ keys' = keys \union RecoveryKeys \union PendingKeys
    /\ UNCHANGED <<mailboxVars, account, replica, stored, runs, items,
                    exec, fetches, pass, oauth>>

-----------------------------------------------------------------------------
Mailbox ==
    /\ \/ \E m \in Message, l \in Label : Arrive(m, l) \/ Relabel(m, l)
       \/ \E m \in Message : Remove(m)
       \/ HistoryExpires /\ ForgetHistory
    /\ UNCHANGED syncVars

Workflow(r) ==
    \/ PageStart(r) \/ PageState(r)
    \/ \E page \in SUBSET Thread, isLast \in BOOLEAN : PageRecord(r, page, isLast)
    \/ \E t \in Thread : IngestFetch(r, t)
    \/ IngestReturn(r)

Store == \E f \in fetches : IngestStore(f)

CatchUp(k) == CatchUpReplay(k) \/ CatchUpRepair(k) \/ CatchUpDefer(k)

PassStep ==
    \/ PassRead \/ PassReadExpired \/ PassFetch \/ PassRevoked \/ PassApply
    \/ StartRepair \/ PassReturn
    \/ FinalizeState \/ MarkReady \/ CompleteRun
    \/ \E m \in Message : DropMessage(m)

Fault ==
    \/ \E r \in Run : PageFails(r) \/ RunExecutionFails(r)
    \/ \E f \in fetches : IngestFails(f)
    \/ PassFails \/ RenewalFails \/ EntityFails

Outside ==
    \/ \E n \in 2 .. head : Push(n)
    \/ RequestCatchup \/ RenewalDue
    \/ Revoke \/ ReconnectProfile \/ Reconnect
    \/ Boot

Next ==
    \/ Mailbox
    \/ \E r \in Run : DispatchRun(r) \/ Workflow(r) \/ FinalizeStart(r)
    \/ DispatchCatchup
    \/ Store
    \/ \E k \in JobKind : CatchUp(k)
    \/ PassStep
    \/ Fault
    \/ Outside

Spec == Init /\ [][Next]_vars

-----------------------------------------------------------------------------
(* What the synchronization promises.                                      *)

\* createMailSyncRun never leaves the account with two runs that own it.
OneActiveRun == \A r, q \in ActiveRuns : r = q

\* A message that Gmail deleted before a repair's baseline, in a thread that
\* still exists: no history reports it and its thread was discovered.
Ghost(m) ==
    /\ mail[m] = Absent
    /\ \E r \in Run : /\ runs[r].type = "repair" /\ runs[r].status = "complete"
                      /\ log[m].removed <= runs[r].start
                      /\ items[r][ThreadOf[m]] = "complete"

\* A replica that is ready, with no run at work on it, holds every message as
\* Gmail has it unless history after its cursor is about the message.
Converged ==
    replica.state = "ready" /\ ActiveRuns = {} =>
        \A m \in Message : \/ TouchedSince(m, CurrentCursor)
                           \/ stored[m] = mail[m]
                           \/ Ghost(m)

\* An accepted notification is applied or still pending, never forgotten.
PushKept ==
    \A n \in HistoryId : <<"push", 0, n>> \in keys => n <= Higher(CurrentCursor, replica.pending)

\* A replica that is being built has a run that builds it, and one only.
BuildIsOwned ==
    /\ TypeOK
    /\ OneActiveRun
    /\ Connected /\ replica.state \in {"pending", "snapshotting", "replaying", "repairing"} =>
           ActiveRuns # {}

CursorAdvances == [][CurrentCursor' >= CurrentCursor]_vars

-----------------------------------------------------------------------------
(* What comments and tests say of the program, and the code does not do.   *)

\* finalizeGmailSyncActivity, sync.ts:367-372: a repair reconciles deletions.
RepairReconcilesDeletions ==
    replica.state = "ready" /\ ActiveRuns = {} =>
        \A m \in Message : TouchedSince(m, CurrentCursor) \/ stored[m] = mail[m]

\* gmailSyncWorkflow, gmail-sync.ts:65-69: finalization runs only once every
\* discovered thread has been stored.
FinalizesWhenStored ==
    pass.kind = "finalize" /\ Active(pass.run) =>
        \A t \in Thread : items[pass.run][t] \in {"none", "complete"}

\* What is left of it after a restart, and the user may reconnect at any time: a
\* finalization finds every thread that its own Execution has listed stored.
FinalizesWhatItListed ==
    pass.kind = "finalize" /\ Active(pass.run) =>
        \A t \in exec[pass.run].listed : items[pass.run][t] = "complete"

\* MailSyncPageRecord, workflows.ts:313-316: a run that another run has replaced
\* stops rather than compete with it, be it at its first page or at its finalization.
SupersededStops ==
    [][\A r \in Run :
         /\ ~Active(r) /\ ActiveRuns # {}
         /\ PageState(r) \/ (pass.kind = "finalize" /\ pass.run = r /\ pass' # pass)
         => UNCHANGED <<stored, replica>>]_vars

\* gmail-authentication.test.ts:18: returning OAuth repairs a replica that
\* requires a reconnection.
ReconnectRepairs == [][~Connected /\ Connected' => RepairRuns' # {}]_vars

-----------------------------------------------------------------------------
(* Progress.  Temporal retries an Activity until it succeeds, the command  *)
(* loop dispatches every command, and pg_advisory_lock serves its waiters  *)
(* in turn, so one that waits again and again gets the lock.  Nothing is   *)
(* assumed of Gmail, Pub/Sub, the user or a restart.                       *)
Fairness ==
    /\ \A r \in Run : /\ WF_vars(DispatchRun(r))
                      /\ WF_vars(Workflow(r))
                      /\ SF_vars(FinalizeStart(r))
    /\ WF_vars(DispatchCatchup)
    /\ WF_vars(Store)
    /\ \A k \in JobKind : SF_vars(CatchUp(k))
    /\ WF_vars(PassStep)

FairSpec == Spec /\ Fairness

BecomesReady == Connected ~> (replica.state = "ready" \/ ~Connected)

PushApplied ==
    \A n \in 2 .. MaxHistory :
        <<"push", 0, n>> \in keys ~> (CurrentCursor >= n \/ ~Connected)
=============================================================================
