# Invook: a TLA+ development of an email client and its agent

Invook connects a user's Gmail account, keeps a replica of the mailbox in PostgreSQL, labels its
threads, and lets the user and an agent read, write and send mail in a browser. This directory models
how the replica is built, kept up to date and repaired; how several users share one Gmail
registration; how work recorded in the database reaches Temporal; how threads are labelled, as they
come in and for the past; how an email is written and sent, by a person or in a turn of the agent; and
how a browser tab keeps up. It checks the models with TLC and proves what matters most of
each with TLAPS. Paths below are relative to the repository root (`packages/...`, `apps/...`).

    tlc -workers 2 -config MailSyncWalk.cfg MailSyncMC    # model checking
    tlapm MailSyncProofs.tla                              # proofs (a few minutes at most each)
    tlapm OutgoingProofs.tla                              # DraftWrites and Outbox
    tlapm DraftingProofs.tla                              # DraftResources and Composer
    tlapm AgentTurnsProofs.tla                            # several minutes
    tlapm LabelScanProofs.tla                             # the same
    tlapm ThreadLabelsProofs.tla
    tlapm GmailConnectionsProofs.tla
    tlapm MailboxCacheProofs.tla

## 1. Inventory

Processes: the API (`apps/api`), the worker (`apps/worker`, which runs Temporal Activities and the
outbox's command loop), Temporal (runs the Workflows of `packages/workflows`), PostgreSQL
(`packages/database`), and the services outside: Gmail, Google Pub/Sub, OAuth, the model providers.

| component | state | operations | talks to |
|---|---|---|---|
| **Synchronization runs and the replica** (`packages/database/src/workflows.ts`, `replica.ts`, `repositories.ts`) | `mailSyncRuns`, `gmailSyncItems`, `gmailReplicaStates` (state, history cursor, pending cursor), `messages`, `drafts`, `connectedAccounts.status` | create and claim a run, record a page, settle an item, apply a range of history, publish readiness, complete a run, revoke, reconnect | called by the Activities and the API; writes commands into the outbox |
| **Gmail synchronization Activities** (`apps/worker/src/activities/gmail/`) | what one attempt has read (a page, a thread, a range) | page, thread batch, catch-up, watch renewal, finalize | Gmail over HTTP; the replica by transactions; the advisory lock of the account |
| **Gmail mailbox** (external; `packages/gmail/src/client.ts` is how it is used) | messages, labels, history, its horizon | threads.list, threads.get, history.list, messages.get, getProfile | the Activities |
| **Synchronization Workflows** (`packages/workflows/src/workflows/gmail-sync.ts`, `gmail-incremental-sync.ts`) | phase, page, batches in flight; pending triggers | walk and finalize; serve triggers until there are none | start Activities; receive signals |
| **Outbox and Temporal admission** (`workflows.ts`, `apps/worker/src/temporal/runtime.ts`, `workflow-step.ts`) | `workflowSteps`, `temporalCommands`, Executions by Workflow id | enqueue with an idempotency key, dispatch, signal-with-start, complete and fail a step | PostgreSQL NOTIFY, Temporal |
| **Worker boot** (`apps/worker/src/index.ts`) | none | sweeps that offer unfinished work again | outbox |
| **Gmail watch and shared identity** (`gmail-watch.ts`, `gmail-identity.ts`, `watch-lifecycle.ts`) | watch expiry, connections that share an identity | renew daily, fan a push out, release the identity, disconnect and clean up | Pub/Sub, Gmail, outbox |
| **Draft writes and sending** (`gmail-draft-writes.ts`, `compose-drafts.ts`, `compose-send.ts`) | `gmailDraftWriteOperations`; the send lock and the query pool | claim a key, call Gmail, complete, abandon, recover a pending write, confirm a send | composer, agent, Gmail |
| **Composers** (`compose-surface.tsx`, `compose-draft-state.ts`, `compose-sender-account.ts`, `use-thread-composer.ts`, `gmail-compose-send.ts`) | what is written, the attempt that stands, the sender, the lock | edit, choose the sender, send, retry, leave | the API's compose routes |
| **Agent turns** (`agent-conversations.ts`, `agent-turns.ts`, `agent-approvals.ts`, `agent-tickets.ts`) | the conversation's lease and revision, approvals, tickets | begin, persist, interrupt and resume a turn; approve once | API streams, Gmail |
| **Thread labels and historical batches** (`thread-label-*.ts`, `historical-thread-label-batches.ts`) | analyses, scans, batches, definitions' versions | scan, submit, reconcile, complete | model provider, its webhook |
| **Push ingress and mailbox events** (`google-pubsub.ts`, `mailbox-events.ts`, `client.ts`) | pending cursor; NOTIFY channels; advisory locks | accept a push, stream changes to a browser | Pub/Sub, PostgreSQL |
| **Web mailbox cache** (`apps/web/src/stores/mailbox/`, `hooks/use-mailbox-events.ts`, `components/mail/`) | pages of rows by view, opened threads, counts, the reads under way | hydrate and append pages, recover, patch, open and prefetch a thread, star | API reads; the event stream |
| Authentication, HTML presentation, object storage, UI | - | formatting and input/output | - |

What is hard here, and what makes each part correct:

* *Runs and replica.* Ingestion, catch-ups and a finalization write the same rows in separate
  transactions, each after reading Gmail some time before. Correct means: one run owns the account;
  a replica that says it is ready agrees with Gmail up to its cursor; the cursor never moves back; a
  notification is applied or remembered. A revocation, a reconnection or a restart can come
  between any two of those transactions.
* *Workflows.* Attempts time out and go on working while their retry runs; signals arrive during
  the Activity they ought to follow; an Execution fails and is started again from page 1.
* *Outbox.* A command and the row it is about commit together, and dispatch may be repeated. Correct
  means: work that is active has a driver, and at most one.
* *Watch and identity.* Several connections share one Gmail watch; removal races connection.
* *Drafts, agent, labels.* An external effect (a send, a write to Gmail, a paid batch) stands between
  two transactions: exactly-once intent against at-least-once retries, leases that expire under
  their owner, results computed against definitions that have changed.
* *Composers.* A save and a send that follow each other in one tab may fail, be lost, or be answered after the
  composer was left, and the user may edit and send again. Correct means: one message leaves at most once,
  and what leaves is what the composer shows.
* *Draft rows.* The messages of a range are committed with the cursor, the drafts among them are
  listed, read and written afterwards, and a draft that is gone by then starts a repair of the whole
  account. Correct means: a thread shows the drafts Gmail has.
* *Web.* Reads of the list, of the counts, of a thread and of a prefetch are answered and published one
  by one while changes are committed and announced, and the list and the reader replace each other, aborting what
  the one that leaves was reading. Correct means: a tab that claims to be up
  to date is, and never waits for a read that nobody makes.

`PROJECT.json` lists every such hazard at its line under "hazards", with the property that covers
it or the reason that none does.


## 2. Modules

| module | what it is | extends or instantiates |
|---|---|---|
| `GmailMailbox` | the external mailbox: `mail`, the history `log`, its `head` and the `horizon` below which it answers 404 | - |
| `MailSync` | one account: runs, replica, outbox commands, Workflows, Activities, pushes, revocation, boot | `GmailMailbox` |
| `MailSyncProofs` | theorems and proofs | `MailSync`, `TLAPS` |
| `DraftWrites` | saving and sending a composed email: requests, the rows of `gmailDraftWriteOperations`, the send lock, Gmail's drafts | - |
| `OutgoingProofs` | theorems and proofs about `DraftWrites`, and apart from them about `Outbox` | `Outbox`, `DraftWrites`, `FiniteSetTheorems`, `SequenceTheorems`, `TLAPS` |
| `Composer` | a new message or a reply in one browser tab, up to the answers of the API | - |
| `DraftResources` | the draft rows a thread shows against Gmail's drafts, through catch-ups, finalizations and the repairs that a 404 starts | - |
| `DraftingProofs` | theorems and proofs about `DraftResources`, and apart from them about `Composer` | `Composer`, `DraftResources`, `FiniteSetTheorems`, `WellFoundedInduction`, `TLAPS` |
| `GmailConnections` | several users' connections to one mailbox, and the watch they share | - |
| `GmailConnectionsProofs` | theorems and proofs | `GmailConnections`, `TLAPS` |
| `Outbox` | rows, commands, worker processes, NOTIFY, Temporal's Executions and attempts | - |
| `ThreadLabels` | live labelling of threads, and the scan that recovers what it missed | - |
| `ThreadLabelsProofs` | theorems and proofs | `ThreadLabels`, `TLAPS` |
| `LabelScan` | a historical scan: batches at the model provider, retries, continuations | instantiates `ScanPromise` |
| `LabelScanProofs` | theorems and proofs | `LabelScan`, `FiniteSetTheorems`, `WellFoundedInduction`, `TLAPS` |
| `ScanPromise` | what a request to label past mail promises (the abstract specification) | - |
| `AgentTurns` | one conversation with the agent in several tabs | - |
| `AgentTurnsProofs` | theorems and proofs | `AgentTurns`, `SequenceTheorems`, `TLAPS` |
| `MailboxCache` | one browser tab: its cache, its reads and the event stream | - |
| `MailboxCacheProofs` | theorems and proofs | `MailboxCache`, `FiniteSetTheorems`, `TLAPS` |
| `...MC` | constants, symmetry sets and small data for TLC, one for each module that runs | the module |

Each module is about one interaction that has state of its own. Where two meet, what one does is in
the other reduced to its effect:

* A completed write of `DraftWrites` asks for a catch-up (`enqueueGmailHistoryCatchup`), which is
  `RequestCatchup` in `MailSync`; what that reads is a change of Gmail like any other. `AgentTurns` calls the
  same services: its `tools` are the steps of a turn around `DraftWrites`, of which it takes what
  `WrittenOnce` and `SentTruly` say.
* `Composer` is the client of `DraftWrites`: it has each save and each send as one step with the outcomes
  that module leaves open, and asks what the person at the tab is shown and may do.
* `MailSync` and `LabelScan` carry the dispatch of their own commands as one step; `Outbox` shows
  what that step hides, for any command: batches, crashes between Temporal's acceptance and the
  commit, wake-ups.
* `MailSync` knows of the watch only that a renewal is due and ends in a catch-up;
  `GmailConnections` knows of the replica only that a first page is still to come (`building`).
* `DraftResources` takes the pages and the notifications of `MailSync` for granted and follows the
  drafts through a range of history, a repair's walk of their threads and its finalization.
* `MailboxCache` starts where a transaction of any of these has committed a change and its
  mailbox event.

'''
### MailSync: how the state corresponds

`replica` is the row of `gmailReplicaStates`; `stored` the `messages` table reduced to each
message's label set; `runs` and `items` the tables of the same name; `keys` the idempotency keys of
`workflowSteps` that can conflict; `offered` and `signalled` the undispatched rows of
`temporalCommands`. `exec[r]` is the Temporal Execution of run *r* with the phase of
`gmailSyncWorkflow`; `job["entity"]` the per-account `gmailIncrementalSyncWorkflow` (`todo`:
a pending trigger, `attempt`: the attempt of its Activity), `job["renewal"]` the watch renewal step.
`fetches` are threads that attempts have fetched and not yet stored: stale data in flight. `pass` is
the one Activity that holds the account's control lock (`withGmailAccountControlLock`), with
everything it has read so far. `oauth` is the history id an OAuth callback holds between its read of
the profile and its transaction. `spent` only counts the bounds.

### MailSync: how the actions correspond

One action is one PostgreSQL transaction, one read of Gmail, or one decision of a Workflow.

| actor | actions | code |
|---|---|---|
| Gmail | `Arrive`, `Relabel`, `Remove`, `ForgetHistory` | external |
| outbox | `DispatchRun`, `DispatchCatchup` | `dispatchTemporalCommandBatch`, `startAdmittedWorkflow` |
| page Activity | `PageStart`, `PageState`, `PageRecord`, `PageFails` | `syncGmailPageActivity`, `startMailSyncRun`, `recordMailSyncPage` |
| thread batch | `IngestFetch`, `IngestStore`, `IngestFails`, `IngestReturn` | `ingestGmailThreadBatch...`, `upsertMailboxThreadMessages` |
| catch-up | `CatchUpReplay`, `CatchUpRepair`, `CatchUpDefer`, then `PassRead`, `PassReadExpired`, `PassFetch`, `PassApply`, `StartRepair`, `PassReturn`, `PassRevoked`, `PassFails` | `catchUpGmailHistory`, `planGmailHistoryCatchup`, `applyHistoryRange`, `applyGmailHistoryBatch` |
| finalization | `FinalizeStart`, `FinalizeState`, `DropMessage`, the same range steps, `MarkReady`, `CompleteRun` | `finalizeGmailSyncActivity`, `markGmailReplicaReady`, `completeMailSyncRun` |
| outside | `Push`, `RequestCatchup`, `RenewalDue`, `Revoke`, `ReconnectProfile`, `Reconnect`, `Boot` | `recordGmailConnectionPush`, `terminalizeGmailAccountForReconnect`, `saveReturningGmailAuthentication`, `main` |
| failure | `RenewalFails`, `EntityFails`, `RunExecutionFails` | `failWorkflowStep`, scheduleToCloseTimeout |

A few operators have a variant next to them that a comment calls a mutant: the same decision as a
plausible bug would take it. They are used only to confirm that each property can be violated.

### MailSync: abstractions

* One account, one connection of the Gmail identity. The lock has one holder; that a session-level
  advisory lock is lost with its connection is listed as a hazard and not modelled.
* A message is its label set. Drafts, objects in storage, label analyses, mailbox-change events and
  the rows of the watch are left out; of the watch only "a renewal is due and ends in a catch-up"
  remains.
* `queued` and `running` are one status, `active` for a run and `open` for an item: every test in
  the code admits both.
* A page's list call and the transaction that records it are one step; so are a plan and the read
  that follows it, and a 404 and the read of the new baseline. A thread with newer mail only may or
  may not be in a walk; a thread that was there at the walk's start is. A page Activity attempt
  that timed out does not outlive its retry; an ingestion attempt that timed out does.
* A range of history is read in one step, and a message whose history only changes labels gets the
  labels it has then; messages that must be fetched are fetched in a later step.
* When history expires it expires up to the current head.

### DraftWrites

An *intent* is one email that a composer or the agent wants sent. It is saved under one idempotency
key and sent under another, and the client repeats each with the same key until it is answered
(`sendGmailComposeAttempt`, the agent's `saveDraft` and `sendEmail`). `rows[key]` is the row of
`gmailDraftWriteOperations`: its status and its recorded result, `target`, a message (draft, message
and thread ids in one). `claims[key]` numbers the inserts, so it stands for the row's id, which the
Message-ID header of a saved draft carries (`op`). `req[r]` is a request in the API process with the
statement or call it has reached; `lock` and `open` are the advisory locks of
`withGmailDraftSendLock` and the pool's connections that their transactions keep. `messages` are
Gmail's: the last message of a draft is the draft, a send makes it `sent`. `late` are calls to
Gmail whose request is no longer there to hear the answer.

| part | actions | code |
|---|---|---|
| client | `AskSave`, `AskSend` | `sendGmailComposeAttempt`, `sendEmail` |
| save | `BeginSave`, `ReadCurrent`, `Issue`, `SaveAnswered`, `SaveFailsEarly`, `SaveRejected`, `AbandonSave`, `ListDrafts`, `Complete`, `Respond` | `saveComposeDraft`, `recoverPendingWrite`, `abandonPendingGmailDraftWrite`, `completeGmailDraftWrite` |
| send | `Connect`, `Lock`, `BeginSend`, `ReadDraft`, `Unprepare`, `Prepare`, `Issue`, `SendAnswered`, `RereadDraft`, `ConfirmSent`, `Complete`, `Respond` | `withGmailDraftSendLock`, `sendComposeDraftWithLock`, `prepareAndSend`, `performPreparedSend`, `recoverPreparedSend`, `recoverSentMessage` |
| failure | `Dies` (crash, failed statement, lost answer), `LoseLock`, `Arrives` (a late call) | the error paths; PostgreSQL and Gmail |
| Gmail | `EditOutside`, `LeaveOutside` | external |

Left out: fingerprint conflicts (a key always carries the same request), thread ids (a message's
thread never differs from its draft's), the reply and forward contexts read before the claim. An
answer of Gmail with an error status is taken to mean that nothing was written, as
`isKnownProviderRejection` takes it. `GiveUp` only keeps `claims` within its bound. A message's `overtook` records, for
`SentAsChecked` only, that it was written into its draft while a send was between its check of that draft and the
send; edits may come at any moment.

### Composer

`composer` is the page or the reply composer that is shown, with the phase of its attempt
(`GmailComposeSendAttempt`) and its status; `sender` the page's `ComposeSenderAccountState`, `scope` the address's
account, `known` the accounts as the tab has read them. `attempts` are what was asked, each known by its
number, which stands for its two idempotency keys; `calls` the requests the API has not answered,
`alive` while a promise in the tab waits. `saved` and `sent` are the rows under the two keys, `draft` what
Gmail has of it.

| part | actions | code |
|---|---|---|
| person | `Open`, `Edit`, `ChangeSender`, `SelectScope`, `Press`, `PressInVain`, `Close`, `Reload`, `ReadShell` | `ComposeSurface`, `composeDraftReducer`, `useThreadComposer`, `resolveComposeSenderAccountId` |
| API | `ServeSave`, `ServeSend`, `ServeDenied` | `registerComposeDraftRoutes`, `sendComposeDraftError`, `getGmailProviderAccessForAccount`, `sendGmailComposeAttempt` |
| outside | `Lose`, `Discard`, `AccountTurns` | a lost connection, Gmail, another tab |

A text is a number, 0 one that does not validate; a forward without words of its own counts as a text. The
tab shows one composer at a time (`mail-workspace.tsx`), and a person writes one message in it.

### DraftResources

`mail` and `history` are Gmail's messages and records of change; a draft is a sequence of messages,
since writing over a draft gives it a new one. `replica` is readiness and cursor, with the cursor at which the last run
started (`base`) and the drafts whose threads that run has still to ingest (`owed`), `stored` the label
of each stored message, `rows` the table `drafts` (the message named, and whether its `messageId` is
still set), `pass` the attempt that holds the control lock, with what it has read: its range and batch,
what drafts.list answered, the messages still to refresh and the draft in hand. `retry` says that an
attempt failed and is owed again; `missed` collects the messages whose refresh was cut off, for the
property only.

| actor | actions | code |
|---|---|---|
| Gmail | `ComposeDraft`, `RewriteDraft`, `SendDraft`, `DiscardDraft` | external |
| range | `BeginCatchup`, `BeginFinal`, `ReadHistory`, `FetchMessages`, `ApplyBatch` | `catchUpGmailHistory`, `finalizeGmailSyncActivity`, `gmailHistoryChanges`, `applyHistoryRange`, `applyGmailHistoryBatch` |
| repair | `StartRepair`, `WalkThread` | `catchUpGmailHistory`, `repairExpiredHistory`, `processInitialGmailThread` |
| rows | `ListDrafts`, `RemoveRow`, `GetDraft`, `StoreDraft`, `SaveRow`, `CollectDraft`, `ReplaceRows`, `MarkReady` | `refreshAffectedGmailDraftResources`, `syncGmailDraftResources`, `saveGmailDraftResource`, `deleteGmailDraftResourceByMessageId`, `replaceGmailDraftResources` |
| failure | `LoseGrant`, `AttemptFails` | the error paths |

A draft that was listed and is gone when it is read (404, `drafts.ts:116`) passes in a catch-up for an expired cursor
(`history-recovery.ts:22-28`, which asks only for the status): the range is committed, and a repair begins where the mailbox
is now (`history.ts:292-305`), walks the threads and ends in a finalization that replaces all draft rows. In a finalization the same 404
fails the attempt, which is retried.

Its definitions are prefixed (`DraftsInit`, `DraftsNext`, `DraftsTypeOK`) where `Composer` has the same name, since one
module proves about both.

### GmailConnections

`registered` is the day until which Gmail holds the mailbox's watch (there is one for all users),
`grant` the users whose OAuth grant stands, `account[u]` the row of `connectedAccounts` with that of
`gmailWatchStates`, `steps` the `gmail.watch.renew` and `gmail.account.cleanup` steps with their
idempotency keys, `procs` OAuth callbacks and attempts at work, `holder` the transaction that
holds `withGmailIdentityLock`. Gmail is called inside that transaction: what the call did stays when the
transaction is rolled back.

| part | actions | code |
|---|---|---|
| user | `Authorizes`, `Refused`, `CallbackEnters`, `CallbackSaves`, `Disconnect`, `RevokeGrant`, `MarkReconnectRequired` | `handleGmailStart`, `handleGmailCallback`, `refreshGmailAuthentication`, `saveNewGmailConnection`, `saveReturningGmailAuthentication`, `markGmailReplicaDeleting`, `terminalizeGmailAccountForReconnect` |
| first page | `PageLooks` | `ensureGmailWatch` |
| renewal | `StartStep`, `RenewalEnters`, `StartWatch`, `RenewalSaves`, `RenewalSchedules`, `RenewalEnds` | `runDailyGmailWatchRenewal`, `renewGmailConnectionWatch`, `createDailyGmailWatchRenewalStep` |
| cleanup | `CleanupEnters`, `StopWatch`, `CleanupEnds` | `runGmailConnectionCleanup`, `hasOtherGmailConnections`, `completeWorkflowStep` |
| failure | `AttemptFails`, `LockDrops`, `FindsLockGone`, `FindsGrantGone`, `DayPasses`, `EnsureDaily` | `failWorkflowStep`, `createGmailWatchRecoveryStep`, `ensureDailyGmailWatchRenewals` |

A day does not pass while work that is due is undone (`DayPasses`): the watch lasts a week, and a
worker that is away for days is outside what the code can answer for. The recovery keys of kind
"cadence" and the daily check of the renewals' cadence are left out.

### Outbox

A command `c` is an outbox entry of one of three kinds: a `step` (one Activity under
`workflowStepWorkflow`), a `run` (a Workflow started once) or a `scan` (an entity that is signalled, and started
if need be). `steps[c]` is its `workflowSteps.status`, `waiting` the commands whose `dispatchedAt` is
null, `worker[w]` a worker process in `runTemporalCommandLoop` with the batch its open transaction
has locked, `execution[c]` what Temporal knows under the Workflow ID, `attempts` the attempts at work,
those that timed out included. `received` and `owed` are what the properties compare with. The specification
and its parts are named `OutboxSpec`, `OutboxInit` and so on, since one module of proofs extends both this
module and `DraftWrites`.

| part | actions | code |
|---|---|---|
| database | `Enqueue`, `AccountTurns` | `enqueueWorkflowSteps`, `terminalizeGmailAccountForReconnect` |
| process | `Boot`, `Readmit`, `SweepEnds`, `Selects`, `Starts`, `Commits`, `StartFails`, `Exits`, `Crashes`, `LosesSubscription`, `RequestStop` | `run`, `readmitWorkflowStep`, `createJobSignal`, `runTemporalCommandLoop`, `dispatchTemporalCommandBatch`, `startAdmittedWorkflow` |
| Temporal | `ExecutionEnds`, `ExecutionFails`, `AttemptBegins`, `AttemptTimesOut` | `workflow-step.ts`, policies |
| attempt | `Marks`, `WorkFails`, `Completes`, `Fails`, `Reconciles`, `ReconcileFails` | `runWorkflowStepActivity`, `markWorkflowStepRunning`, `completeWorkflowStep`, `failWorkflowStep`, `reconcileWorkflowStepFailureActivity` |

The ranking of tenants is an open choice of the batch. Commands that can never be dispatched, signals of
batch events and the worker's lanes are left out.

### ThreadLabels

`threads[t]` holds what labelling keeps of a thread (state, version, the hash of definitions it was
reserved under, the cutoff), `assignment[t]` its label and who gave it, `steps` the
`label.thread.assign` steps by idempotency key (thread, version, hash), `work` the attempts of their
Activity with what each has read. `inbox` and `away` are the stored messages, `scan` is the account's
`threadLabelScanWorkflow` with its signal.

| part | actions | code |
|---|---|---|
| mailbox | `Receive`, `Relabel`, `DayPasses` | `upsertMailboxMessageWithTransaction`, `replaceGmailMessageLabels`, `enqueueLiveInboxThreadLabelAnalyses` |
| user | `EditLabel`, `SetUserLabel` | `updateInvookLabel`, `setInvookLabelEnabled`, `setUserThreadLabel` |
| attempt | `StartAttempt`, `Begin`, `NoModel`, `Classify`, `ModelFails`, `Apply`, `CloseStep`, `Reconcile`, `Fail`, `FailStep`, `Lose` | `runThreadLabelAnalysis`, `beginThreadLabelAnalysis`, `completeThreadLabelAnalysis`, `saveAiThreadLabelAssignment`, `failTerminalThreadLabelAnalysis` |
| scan | `Boot`, `DispatchScan`, `ScanPage`, `ScanDecide` | `enqueueRecentThreadLabelRecoveries`, `scanRecentThreadLabelPage`, `threadLabelScanWorkflow` |
| account | `RevokeGrant`, `Reconnect` | as above |

### LabelScan and ScanPromise

`scan` is the row of `historicalThreadLabelScans` (status and cursor), `subs` its
`threadLabelBatchSubmissions` in order, `remote` what the provider has of each: files and a batch. `exec`
is `historicalLabelScanWorkflow` with the scope (first page, retry or continuation) it carries through
Continue-As-New, `work` the attempts of its three Activities with the step each has reached. An attempt
that times out goes on beside its retry.

| part | actions | code |
|---|---|---|
| Workflow | `Dispatch`, `Start`, `Release`, `Report`, `GiveUp`, `Boot` | `historicalLabelScanWorkflow`, `enqueueBatchEvent`, `enqueueHistoricalThreadLabelBatchRecoveries` |
| submit | `Check`, `ClaimSuperseded`, `ClaimResumed`, `ClaimEmpty`, `ClaimPage`, `File`, `Prepare`, `Upload`, `Record`, `Batch`, `RecordBatch` | `submitHistoricalLabelBatchActivity`, `claimThreadLabelBatchSubmission`, `prepareThreadLabelBatch`, `finalizeThreadLabelBatchPreparation`, `recordThreadLabelProviderBatch` |
| finalize | `Read`, `Apply`, `Fail` | `finalizeHistoricalLabelBatchActivity`, `finalizeThreadLabelBatchSubmission`, `failHistoricalThreadLabelScan` |
| others | `Finish`, `Change`, `EditLabel`, `Revoke`, `Reconnect`, `Crash`, `Timeout` | external, and the error paths |

`ScanPromise` is what the person who asks is told: a request is reported complete only once every
thread that was there has been dealt with, and one that failed or was superseded stays so.
`LabelScan` implements it under `status`, `settled` and `astray` (`Promise == INSTANCE ScanPromise
WITH ...`, property `KeepsPromise`). `settled` is a history variable that the code's decisions fill: an
answer applied, or a thread the page's selection, the preparation or the results exclude for good.
`astray` (`Astray`) is the exception the code needs: an Execution that failed forgets the retries it owed, an
overlapping attempt can find a page already gone, and an attempt may close a batch as empty and crash
before it says so. The bounds on such events count them (`spent`), a crash under what it loses (`Loses`).

### AgentTurns

`conv` is the row of `agentConversations` with its lease (`activeRunId`, whether it has lapsed), `history`
the `agentMessages` by position, of which only the call of `sendEmail` and its state matter; `turns[r]` is
`runAgentTurn` at the step it has reached, `tools[r]` the Gmail write it has begun, which outlives a
turn that was stopped; `tab[c]` a browser tab with its chat and socket, `up` and `down` the frames
on their way, `serving` the server's end of the socket. `rows` and `emails` are the draft writes by key
and what Gmail has sent.

| part | actions | code |
|---|---|---|
| tab | `Ask`, `Decide`, `Retry`, `Stop`, `Reload`, `Connect`, `Deliver`, `Disconnect` | `agent-conversation`, `agent-socket-transport.ts`, `agent-tickets.ts` |
| socket | `Receive`, `Identity` | `serveAgentSocket` |
| turn | `Start`, `Reject`, `Prepare`, `Model`, `Abort`, `Resume`, `StopWhen`, `Save`, `End`, `Finish` | `runAgentTurn`, `startAgentRun`, `applyAgentApprovalDecisions`, `closeOpenApprovals`, `renewAgentRun`, `saveAgentRunMessages`, `finishAgentRun` |
| tool | `CheckActive`, `WriteDraft`, `SendDraft`, `CallGmail`, `ConfirmSent` | `createAgentCapabilities`, `ensureRunActive`, `sendComposeDraft` |
| outside | `Throw`, `Crash`, `Lapse`, `Delete`, `SignOut` | the error paths, `deleteAgentConversation` |

### MailboxCache

`stored` is the mailbox as the database shows it (for each thread its last change, the time of its latest message, which of
its messages are starred, and its views),
`notices` NOTIFY payloads the API has received, `stream` the event stream with what the server
wrote and the tab has not read. `tab` is the browser's: `pages` and `rows`, `details` (opened threads),
`counts`, the one read of each kind that still counts (`first`, `more`, `detail`, prefetches), the
reconciler's `job` (a recovery or a patch, with its own reads), what the reader looks at, `loading` (pages whose load
state says that more is being loaded) and `predicted` (the star button's `StarPrediction`).

| part | actions | code |
|---|---|---|
| server | `Change`, `Deliver`, `LookupFails`, `LoseSubscription`, `Subscribe`, `OpenStream`, `SayReady`, `BreakStream` | `mailbox-events.ts`, `client.ts` |
| reconciler | `HandleReady`, `HandleMailboxChange`, `HandleError`, `ServeList`, `ListArrives`, `ListFails`, `ReadCounts`, `CountsFail`, `Resume` | `use-mailbox-events.ts`, `mailbox-event-plan.ts` |
| list, reader | `SwitchView`, `Open`, `Reload`, `RetryFirst`, `LoadMore`, `Prefetch`, `Serve...`, `...Arrives`, `...Fails` | `mail-list.tsx`, `use-thread-detail.ts`, `mailbox-cache.ts` |
| star | `Star`, `StarStored`, `StarAnswered`, `StarFails` | `message-star-button.tsx` |

The workspace shows the list of one view or an opened thread (`mail-workspace.tsx:53-79`). What leaves the screen is unmounted: the
list aborts its first page, the page below and its prefetch (`Unmounted`), and its effects wait until it is shown again
(`Listed`). The aborted page below leaves the cached page in `loading`, in which nothing asks again (section 6).

A row of the list says that *any* message of the thread is starred (`SummaryOf`), the button of the reader is about the
*latest* message (`DetailOf`), and a click writes the latter's star, and on failure the star the button had, into the row. The
button is gone while the opened thread is not cached, and its prediction with it (`Predicting`); between two opened
threads that are both cached it stays.

A read that the code would ignore when it comes back (aborted, or overtaken by `recoveryVersion` or
`readVersion`) is dropped at the moment it becomes so. `steady` records, for `RowsAreTrue` only, that since the last
recovery of the view the reader has stayed in it, has not asked for more below, and has clicked no star in vain: a click that failed, or
that wrote nothing, and left the row with a star that is not the stored one (section 6).

One prefetch and one click are out at a time. The move from one view to another keeps an opened thread: a link of the sidebar
that does both is two steps. A label chosen in the reader is shown at once and put back as a star is
(`smart-label-controls.tsx:66-72`); the model has the star.

## 3. Runs

| run | instance | question |
|---|---|---|
| `walk` | 2 messages in 2 threads, history to 2, 2 runs, any 1 mishap: a failing attempt or Execution, a revocation at any moment, a due renewal, a restart; expiring history | `Converged`; `FinalizesWhenStored`; `BuildIsOwned`; `PushKept`; `CursorAdvances` |
| `live` | 1 message, 2 attempts of it in flight, history to 2, 1 mishap, `FairSpec` | `BecomesReady`; `PushApplied` |
| `drafts` | 1 email (new draft or update, sent by composer or agent), 2 requests, 2 claims of a key, 1 edit in Gmail, 2 faults, a pool of 3, `FairSpec` | `WrittenOnce`; `SendRemembered`; `SentTruly`; `SentAsChecked`; `SentIsReported` |
| `compose` | 2 accounts, 2 messages, 2 texts, 3 attempts, 3 faults, 2 changes of sender or scope or departures | `LeavesOnce`; `SentAsShown` |
| `shown` | 2 drafts, 3 messages, any 1 failed attempt or lost grant | `DraftsAligned` |
| `connections` | 2 users of one mailbox, 3 days, a watch of 2 days, 3 authorizations, 2 disconnections, 1 mishap | `SharedWatchKept`; `NobodysWatch`; `WatchHeld`; `CleanupOwed` |
| `outbox` | 2 worker processes, 2 of a step, a run and a scan, 2 attempts, 2 mishaps, 2 changes of the account | `NothingLost`; `SomeoneLooks`; `TerminalStays` |
| `labels` | a thread of 2 messages, one of them old, 1 label, 2 attempts, any 2 events, `FairSpec` | `RunningAccounted`; `UserDecisionKept`; `AppliedCurrent` |
| `scan` | 2 threads in pages of 2, 1 retry, 5 submissions, any 2 events, `FairSpec` | `BilledOnce`; `UserWins`; `KeepsPromise`; `SettlesUnlessLost` |
| `agent` | 2 tabs, 2 requests for a turn, 1 event, `FairSpec` | `NeverUnapproved`; `SentOnce`; `StopsWriting`; `DecisionKept`; `TabsSettle` |
| `web` | 2 threads in 2 views, an older message of one starred, pages of 1, any 3 of: a change, a fault, up to 3 acts of the reader | `RowsAreTrue`; `CountsAreTrue`; `ReaderIsTrue`; `SomeoneReads` |
| `ghost` | 2 messages of one thread, a repair, expiring history | `RepairReconcilesDeletions`, which fails: section 6 |

Each module has a type invariant, `TypeOK`, as a conjunct of `BuildIsOwned`, `LeavesOnce`,
`RunningAccounted`, `BilledOnce`, `SentOnce`, `RowsAreTrue`, `CleanupOwed`, `NothingLost` and
`DraftsAligned` (there as `DraftsTypeOK`, and `OutboxTypeOK` in `NothingLost`); that of `DraftWrites` is proved.

All runs but those of `MailSync` set `CHECK_DEADLOCK FALSE`: their systems rest once clients are answered, tabs are
up to date, requests have ended or the bounds of the outside are used up.

### Bounds

Every bound is a constant of its specification (`Max...`) and stands in the guard of what it bounds, which is
always something from outside: a change, a fault, an act of a user. What the program does in
response (dispatch, retries within the attempts it grants itself, scans, reads, publications) is not
bounded, and neither is the interleaving.

* `MailSync`. `MaxHistory` (the mailbox changes `MaxHistory - 1` times), `MaxRuns`, `MaxFetches` (attempts of
  one thread in flight), `MaxFaults`, `MaxDeaths`, `MaxRevocations`, `MaxTriggers`, `MaxBoots`, and
  `MaxMishaps` for their sum. The hazards on stale data need one change of a message after it was
  fetched and before it is applied, which history to 2 has; a repair needs the second run; an order of
  two pages needs two threads. The merge of a range whose records say several things of one message,
  with a sibling left in its thread, is met by `ghost` and by `shown` (history is not bounded there but
  by its messages). Two mishaps of two threads are beyond what a run of a few
  minutes covers. With one message and two mishaps (`MaxMishaps = 2`, `MaxHistory = 3`) `BuildIsOwned`, `PushKept`
  and `CursorAdvances` hold as well (a minute and a half); `FinalizesWhenStored` and `Converged` then meet a
  restarted walk (section 6).
* `DraftWrites`. `MaxClaims` (inserts of one key), `MaxEdits`, `MaxFaults`. Requests are repeated for
  ever. Two at once are enough for one to hold the lock (or have lost it) while the other takes over;
  two faults let a request die after its call and the lock drop. Two never exhaust a pool of three, so `drafts` says
  nothing of whether requests return: with three they do not (section 6).
* `Composer`. Two messages let an answer find the next one in its place; three attempts let a failed save be
  edited, sent again, and edited again.
* `DraftResources`. `MaxMishaps` bounds failed attempts and lost grants. Three messages let a draft be written over, and another draft be written, sent or discarded
  meanwhile, also between the list and the read of a refresh, so that a repair begins; the two drafts are interchangeable.
  With two mishaps `DraftsAligned` holds as well (6.6 million states, about three minutes).
* `GmailConnections`. With two users one is the other's last companion; two connections of each let a
  connection be made again while the old one is being removed; a watch of two days on three days must be
  renewed at least once, and one mishap is any one failed attempt, dropped lock or revoked grant. A
  renewal has one attempt there and a cleanup two, so that a step fails for good as well as once.
* `Outbox`. Two processes are a deployment that replaces one. Two commands, of any two kinds, are
  enough for a batch in which one call fails and the other was accepted, and for a notification that
  finds its row locked by the other process. Two mishaps let both processes fail.
* `ThreadLabels`. One thread: threads do not influence each other but through the scan's cursor, of which `labels`
  therefore says nothing. A page of one thread never has a next one there, and `ScanDecide` goes on to no page. The liveness of the scan,
  `OwedIsScanned` (what a boot owes is scanned, or has the cursor still before it), needs two threads with one on a page, so that the
  first page reads one more and hands its cursor to the next (`recent-thread-label-recovery.ts:82-94`), and mail, a boot or
  a signal comes between the two. No run keeps it; it was checked on `ThreadLabels.cfg` with `Threads = 2`, `ThreadOf <- OneEach`,
  `SentAt <- OnTheLastDay`, `Label = {}`, `MaxAttempts = 1`, `MaxVersion = 2`, `MaxDefinition = 1` and `MaxEdits = 0`
  (407,271 states), where it holds. Two events (mail, an edit of a definition or a user's
  decision, a fault, a revocation, a boot) let an edit meet an attempt that outlived its timeout.
* `LabelScan`. Two threads on a page let preparation keep one and continue with the other, and let a
  retry carry one; a timeout counts as two events, since it leaves two attempts.
* `AgentTurns`. Two tabs and two requests: a turn that takes over, a decision made twice. More than
  one event of the kinds bounded (a saved draft, a stop, a fault, a lapsed lease, a deletion, a sign-out) or a
  third request is beyond a run of a few minutes.
* `MailboxCache`. With pages of one row, two threads already have a page below; two views are the one that is
  read and another. Three events let a change meet a lost stream and a reader who moves, or a reader who asks
  for more, opens a thread and comes back. With `MaxChanges = 2` and `MaxActs = 2` all four hold as well (3,085,078 states, over three minutes).

### Restrictions

* `ReconnectAnytime = FALSE` in `walk` and `live`: the grant may be revoked at any moment, also between an
  Activity's check of its run and the writes that rely on it, but the user's reconnection waits until the
  Activities then at work have ended. Without it `Converged` and `BuildIsOwned` fail, because a finalization or
  first page whose run was failed *and replaced* goes on writing (section 6, `SupersededStops`). No theorem of
  `MailSyncProofs` has that restriction; what rests on it, `Converged` and `BuildIsOwned`, is
  checked and not proved.
* One mishap in `walk`: an Execution that fails *and* is started again by a boot can finalize with an item
  nobody will ingest (section 6), and a failed repair is not offered again by a boot. The theorem `ListedThenFinalized` covers both mishaps together.
* `Converged` excuses a `Ghost`: a message deleted before a repair's baseline whose thread lives on. Run
  `ghost` states the property without the excuse and refutes it.
* Some properties name in their statement what they do not claim, since the code does not keep it then:
  `RunningAccounted` after a revocation (and less of it once attempts overlapped), `BilledOnce` when attempts overlap *and* threads change,
  `SharedWatchKept`, `NobodysWatch` and `WatchHeld` after the identity lock's connection dropped,
  `WatchHeld` for a connection that was restored after losing its grant, `CleanupOwed` once a grant
  was revoked (and, since it has one mishap against two attempts, nothing of a cleanup whose attempts are all used up),
  `RowsAreTrue` when the reader has left the view that the last recovery read, loaded more or clicked a star in vain,
  `SentAsChecked` for an edit that overtakes the send, `DraftsAligned` for a draft whose refresh died with its attempt and for
  what was deleted before a repair, `SomeoneReads` for the line that says more is being loaded, `NothingLost` for a step whose account was not
  connected or whose reconciliation failed ten times. Section 6 says what happens then.

## 4. Fairness

`MailSync`. `FairSpec` assumes weak fairness of each run's dispatch and Workflow steps, of the dispatch of
catch-ups, of the storing of what was fetched and of the lock holder's steps: the command loop
polls for ever, Temporal retries Activities with an unlimited number of attempts, and an attempt
that neither fails nor returns is ended by its timeout. Starting a finalization or a catch-up is
*strongly* fair, because it waits for `pg_advisory_lock`, whose waiters PostgreSQL serves in turn:
one that finds the lock taken again and again still gets it. Nothing is assumed of Gmail, Pub/Sub,
the user, a revocation or a boot, and the number of faults is finite. Both liveness properties
end in "or the account is not connected", since a revoked grant waits for the user.

`DraftWrites`. A request at work goes on (the API process runs it and Gmail answers). This is strong
fairness, because a statement waits for a connection of the pool and a send for the advisory lock,
and both serve their waiters in turn. A client that wants an email sent repeats the send, and a late
call arrives. Dying, losing a lock and editing are not fair.

`ThreadLabels`. Temporal runs the steps it was handed, and the scan, to their end: weak fairness of
the attempts of steps together, and of the scan's. `LabelScan`: what the program does (`Drive`: dispatch, the
Workflow, the attempts, the end of the wait, which a timeout guarantees without any webhook) and
the provider's answer (`Answer`: a batch finishes within the day or expires). `AgentTurns`: sockets
deliver, turns and tools go on, Gmail and the model answer (`Runs`). What the user, a fault or a lapse
does is not fair in any of them.

`Outbox`, `GmailConnections`, `Composer` and `MailboxCache` are run on `Spec`, `DraftResources` on `DraftsSpec`. Their properties are
of safety; where the question is whether something happens at all they say who still has to act
(`SomeoneLooks`, `CleanupOwed`, `SomeoneReads`), and that this one does is the loop's, Temporal's or the
browser's plain progress.

## 5. Proofs

`MailSyncProofs` proves, for every set of messages, threads and labels, every bound, and whenever the user reconnects, from
`MailboxAssumption` and `SyncAssumption` only:

| theorem | states | argument |
|---|---|---|
| `TypeCorrect` | `Spec => []TypeOK` | inductive by itself |
| `OneOwner` | `Spec => []OneActiveRun` (a conjunct of `BuildIsOwned`, as `TypeOK` is) | inductive with `TypeOK`: only `CreateRepairRun` activates a run, and only when none is active |
| `NeverAhead` | `Spec => []CursorBehind` | the strengthening below |
| `CursorOnlyAdvances` | `Spec => CursorAdvances` | from `CursorBehind`, step by step |
| `NoPushForgotten` | `Spec => []PushKept` | inductive with `CursorBehind` |
| `ListedThenFinalized` | `Spec => []FinalizesWhatItListed` | from `PassFits` and `Walked` |
| `StoredThenFinalized` | `Spec => [](~Restarted => FinalizesWhenStored)` | from `PassFits` and `Walked` |

`PushKept` is not inductive alone: an apply or a publication clears the pending cursor when the
cursor it writes has reached it, and a state in which the written cursor is *behind* the one it
replaces would forget a notification that the old cursor had covered. `CursorBehind` excludes those
states: the cursor is at most the mailbox's `head`, and while the lock holder is about to fetch,
apply or publish, the cursor is at most the end of the range it has read (`pass.upto`), which is at
most `head`. The range's end is read under the lock, only the lock holder writes the cursor, and the
head only grows; that is why it is preserved. The proof has one lemma per actor (mailbox, outbox,
Workflow, lock holder, failures, outside) and under it one step per action.

What a walk promises rests on two more invariants. `PassFits`: a finalization that holds the lock belongs to an Execution
that has reached its last phase. `Walked`: of an active run, a thread that its Execution has listed is complete, or it is open and the Execution,
still ingesting, waits for it (`Listed`); a thread that is open at all is one that its Execution is at or will
still list (`Awaited`), unless a worker was restarted and an Execution had been given up (`Restarted`, in either order); and a run offered again
to Temporal is one that no Execution has run, or a boot has offered it. So when a finalization holds the lock, nothing that its Execution listed
is open, and without such a restart nothing is. The first holds of every history; the second is the sentence of
`gmail-sync.ts:65`, which is false after a restart (section 6), so that `~Restarted` is as much as can be proved of it. Any number of attempts that fail,
time out or overlap, of revocations and of reconnections at any moment, of repairs, expired histories, and of deaths *or* restarts,
is covered. Neither theorem assumes anything of the constants.

`Converged` and `BuildIsOwned` are checked by `walk` and not proved: when a user may reconnect while an Activity that was at work
still writes, both are false (section 6), and a theorem that excludes the case would say nothing about it.

Of `DraftWrites`, `OutgoingProofs` proves, for every set of emails and requests, every pool and bound, with drafts that are
edited at any moment, from `DraftAssumption` only:

| theorem | states | argument |
|---|---|---|
| `TypeCorrect` | `Spec => []TypeOK` | from `IInv` |
| `SendNotForgotten` | `Spec => []SendRemembered` | from `IInv` |
| `WritesHold` | `Spec => []WritesInv` | inductive, on top of `IInv` |
| `SavedOnce` | `Spec => []WrittenOnce` | from `WritesInv`: `OnePen` |
| `SentIsSent` | `Spec => []SentTruly` | from `WritesInv`: `Aimed` |
| `ApprovedIsSent` | `Spec => []SentAsChecked` | from `WritesInv`: `Approved` |

None is inductive alone. `IInv` adds to `TypeOK` that targets exist (`TargetsExist`: what a request at a step that
uses its target, a row or a late call names is a message that exists) and that sends are recorded (`SendsRecorded`:
a send that is out, *or is about to be repeated because its row was found prepared*, has a row with a target). The
row of such a send survives because the two statements that delete rows touch either saves or rows without a target,
whoever holds the lock; that is why the proof needs no fact about the lock.

That a save is written once rests on its claim, which the proof treats as a *pen* (`OnePen`): the request that holds the
row and has not yet written, the late call of a request that lost the row's answer, and the message that the key has
written exclude one another, and there is at most one of each. A row that is free has none (`FreeHasNone`). That is
what a rejection has to establish before it deletes the row, and why a call whose outcome is unknown may not. The
lemmas `PenTaken`, `PenLeft`, `PenUsed`, `PenArrives` and `PenDropped` are the ways in which the pen changes hands.
`Aimed` says that whatever a send points at (its request, row or late call) is of the draft that its composer saved, and
that a complete send points at a sent message. `Approved` says that as long as a
send is under way the draft holds the approved message, none, or one that was written into it since that send checked it (`overtook`);
the check of the draft's message establishes it, also on a retry and after a lost answer, and an edit
keeps it by being marked. That the marked message leaves too is the divergence of section 6; the theorem says that
nothing else does. `Persists` says what must be shown of a step that moves one request and writes one
row; each action then has a lemma of its own.

Of `Outbox`, `OutgoingProofs` proves, for every set of commands and of worker processes (of which there is at least one),
every size of a batch, number of attempts and bound, from `OutboxAssumption` only:

| theorem | states | argument |
|---|---|---|
| `NothingIsLost` | `Spec => []NothingLost` | from `OutboxInv` |
| `StepsStaySettled` | `Spec => TerminalStays` | from `OutboxInv`, step by step: whoever writes a row tests that it is open |
| `WakeUpsAreKept` | `Spec => []SomeoneLooks` | with the types of `OutboxInv` |

What `NothingLost` says of a row is about its present; to keep it, `OutboxInv` says how an Execution and a row come to
agree. `Executions`: an Execution that is open has an attempt, another one to begin or a reconciliation,
and it ends only after its row has. `Processes`: what a process has started in its open transaction
Temporal has already answered, so that the commit, and a crash before it, are both harmless.
`Recorded`: nothing is offered, executed or reported without a row. `Handed`: a row whose command no
longer waits is known to Temporal. Two lemmas carry most actions: `ExecutionMoves` (one Execution and its
row change, processes stand still) and `ProcessMoves` (one process changes). `SomeoneLooks` is kept by cases:
a process that finds nothing free finds only rows that another process has locked, and that one looks
again once it commits or fails.

`DraftingProofs` proves of `Composer`, for every set of accounts and every bound, from `ComposerAssumption` only:

| theorem | states | argument |
|---|---|---|
| `OneCopy` | `Spec => []LeavesOnce` | from `IInv` |
| `ShownIsSent` | `Spec => []SentAsShown` | from `IInv` |

An attempt *stands* when it was sent, a send of it is prepared or under way, the composer would repeat it or
still waits for an answer about it. Of one message one attempt stands (`OnePerMessage`), with the text and
the sender that are shown (`AsShown`). To keep that when a correction forgets the attempt, `IInv` knows
that an attempt the composer takes for unsaved has not left (`Unsent`), that without an attempt nothing
stands (`Afresh`), and that the composer waits for one call and knows its phase (`Awaited`):
the phase is moved to "send" in the same step in which the send is begun. Two lemmas carry most actions:
`SubsidingQuiet` (at most the composer's status changes, and no attempt comes closer to leaving) and `Blank` (the
composer shows a message of which nothing stands). A second message is another session, so the bound on
messages plays no part.

`DraftingProofs` proves of `DraftResources`, for every set of drafts, any number of messages and any number of repairs, failed
attempts and lost grants, from `DraftResourcesAssumption` only:

| theorem | states | argument |
|---|---|---|
| `DraftsInductive` | `DraftsSpec => []DraftsInv` | the invariant below |
| `DraftsTyped` | `DraftsSpec => []DraftsTypeOK` | from `DraftsInv` |
| `DraftsFollowed` | `DraftsSpec => []DraftsAligned` | from `DraftsInv`: `StoredRight`, `RowsRight` |

`DraftsAligned` speaks of a replica at rest; `DraftsInv` says what is true while an attempt is somewhere between its read
and its last write, and Gmail goes on. What the next range will say, from the cursor or from where the last repair began (`From`), is *pending*: of a message that it came (`Came`),
that it left its draft (`Ended`), or anything (`Touched`).

* *The mailbox* (`MailboxRight`). A draft has one message, and no record says what is not so: a message that was deleted is
  gone, one whose labels changed was sent, and the record says that it has to do with a draft.
* *The range* (`StagesRight`, `BatchRight`). Where the cursor stands at each stage; each message of the range has
  a change that is Gmail's or that a later record corrects, and is to be refreshed if one of its records has to do with a
  draft. `Relabelled` matters here: a message that was sent in place must be among them.
* *What is stored* (`StoredRight`) is Gmail's, or the next range says otherwise, or the walk of a repair has its thread still to
  ingest (`Unwalked`), or it was deleted before that repair began (`Forgotten`: the bug of run `ghost`).
* *The refresh* (`TodoRight`, `ReferencesRight`, `GotRight`, `FoundRight`). A message is refreshed once and a draft is listed
  once; the draft in hand holds the message that was read, and a later one is pending. A finalization has
  collected every draft, or has it still to do, or it is pending; what it collected is stored.
* *The rows* (`RowsNamed`, `RowsRight`). A row names a message that its draft has had. While a repair is to come nothing is
  claimed of rows, for its finalization replaces them all (`RowsHold`). Otherwise the message a draft has is shown, or it is
  pending that it came, or it is *owed*; the message shown is still in its draft, or it is pending that it left, or it is owed.
  What is owed is what the refresh under way has still to see to (`CutOff`) and what an earlier one left when it was cut
  off (`missed`), so a failure moves messages from the one to the other and the exception of `DraftsAligned` is exactly what is left.

Every step of Gmail is one of adding a message, relabelling one, or both, and cites `GrowsKeeps`: what changes becomes
pending. `ApplyBatch` takes what was pending to what is owed (`AppliedRows`), `Done` takes one message off the list
(`DoneRight`, `SeenTo`), and `ReplaceRows` needs that the list is empty (`ReplacedIs`). For the proof `DraftResources` merges
and orders the records of a range by set operators (`About`, `Merged`, `First`, `InOrder`) instead of operators on sequences,
with the same states.

`AgentTurnsProofs` proves, for every set of tabs, every number of requests and every bound on faults, lapses,
deletions, sign-outs and events, from `AgentAssumption` only:

| theorem | states | argument |
|---|---|---|
| `Invariant` | `Spec => []IInv` | the strengthening below |
| `WellFormed` | `Spec => []TypeOK` | from `IInv` |
| `OnlyApproved` | `Spec => []NeverUnapproved` | from `Approved` of `IInv` |
| `EmailsOnce` | `Spec => []SentOnce` | from `Sending` of `IInv` |
| `OvertakenStops` | `Spec => []StopsWriting` | from `Overtaken` of `IInv` |
| `DecisionsStand` | `Spec => DecisionKept` | from `IInv`, step by step |

Approvals travel: a tab makes one, a frame carries it, a turn decides with it, stores it, resumes the call and sends
it back. `IInv` follows it along that way, in four parts.

* *Honest* (`Honestly`). Whatever shows an approval (a stored message, a turn's response, a frame or an answer in a
  queue, a tab's last message) is about a call, and approves it only if the user did.
* *Numbered* (`Numbered`, `Once`). A frame that asks for a turn is unsent, on its way or being served,
  and only one of these. So a turn that starts is new: nobody has written as this run (`Untouched`,
  `Fresh`), and the call it will ask for is not in the history yet (`Unasked`).
* *What the owner knows* (`Viewed`, `Answered`, `Resumable`). A turn that still owns the conversation holds a view that
  is the stored history until it decides, and afterwards a response that agrees with what is stored: not that
  it is equal, but that it is on the same side of the decision. That is why a save by the owner reverses
  nothing, and a save by any other turn is refused: hence `DecisionKept`. Nothing of this is claimed of a turn that was
  overtaken, which may know anything that was once true.
* *What has left* (`Approved`, `Sending`, `Equipped`, `Overtaken`). A call that was sent, or is with a tool, is
  approved by the user and in everything that is stored. A tool is at Gmail only under a row that is pending
  and of which no email has left, and no two tools are there with one call; so a turn that resumes a call
  finds the row whatever became of the turn before it. A tool that may still write has not yet written
  late, and one that has will not own the conversation again.

The proof takes every action through the same steps: what it changes (`...Does`), types (`...Typed`), numbering and
honesty (`...Numbered`, `...Honest`), and the links (`...Keeps`). A step of a tab or a socket leaves turns and tools
alone (`IdleLinked`), and most steps of a turn only move it on (`MovedOnward`); the long proofs are `Prepare`,
which decides or declines, and `Save`.

`LabelScanProofs` proves, for every number of threads and size of a page, every limit of retries and every bound on
crashes, timeouts, failed Executions, changes, revocations and restarts, from `ScanAssumption` only:

| theorem | states | argument |
|---|---|---|
| `Accounting` | `Spec => []IInv` | the strengthening below |
| `WellTyped` | `Spec => []TypeOK` | from `IInv` |
| `OneBatchOut` | `Spec => []BilledOnce` | from `OneBatch` of `IInv` |
| `LateChoiceStands` | `Spec => UserWins` | from `Stale` in `IInv`, step by step |
| `ScanKeepsPromise` | `Spec => KeepsPromise` | the refinement, from `Placed` of `IInv` |

* *What was asked lies behind the thread* (`Stale`). An entry of a submission or of an attempt has a version that is at most
  its thread's, and a smaller one once the user has chosen. Results are applied to threads whose version is still the
  one asked about: hence `UserWins`.
* *What was sent* (`Sound`, `Handed`, `Driven`). An attempt that waits, finalizes or reports names a submission whose batch
  exists; a submission that is recorded as submitted has one.
* *One at a time* (`Led`, `Sequential`, `OneBatch`). The Execution waits for one attempt, and only a timeout leaves another
  beside it. Only the last submission can be active (`Planned`); an earlier one, or one that was closed, is
  over: its batch has ended, or it never had one and no attempt is about to send it. The last is why
  `BilledOnce` makes its exception: an attempt that finds its threads changed closes a submission (`Fresh` excludes that
  while nothing changes), while another that read it before is still sending.
* *Every thread has its place* (`Placed`). A thread that is not settled is behind the cursor, in the batch that is out
  or its continuations, or in the scope that the Execution, or the report it has yet to hear, goes on with; and a first page
  leaves no thread below its last one behind (`Holds`). When a page with no scope is found empty there is
  no batch, no scope and nothing behind the cursor, so that nothing is left: the step is `Complete` of
  `ScanPromise`.

`Placed` was not inductive as the property was first stated: the model checker found, with two faults and two changes of one
thread, the behaviour that the last paragraph of section 6 describes, and `Astray` names it since. The proof shares
three lemmas among most actions: `CarriesOn` (an attempt goes on and only its submission changes), `ClosesKeeps` (a
submission is closed and the attempt reports) and `IdleKeeps` (attempts end and nothing else happens).

`ThreadLabelsProofs` proves, for every number of threads, labels and attempts, every mailbox and every bound on
mail, edits, faults, revocations and boots, from `LabelsAssumption` only:

| theorem | states | argument |
|---|---|---|
| `LabelsAccounted` | `Spec => []IInv` | the strengthening below |
| `WellTyped` | `Spec => []TypeOK` | from `IInv` |
| `NoneRunsLabelled` | `Spec => []RunningAccounted` | from `Keyed`, `Stands`, `Answered`, `Found` and `Alone` of `IInv` |
| `UsersChoiceStands` | `Spec => UserDecisionKept` | only `Apply` and the user write an assignment, step by step |
| `AnswersAreCurrent` | `Spec => AppliedCurrent` | from `Asked` of `IInv`, step by step |

* *Keys* (`Keyed`). No step is of a version its thread has not reached, and a running thread has the step of its
  version and definitions: a reservation admits it in the same transaction. Since versions only grow, a step that speaks of
  its thread now always has (`WasSpoken`).
* *A label stands* (`Stands`). Once an attempt has labelled a thread, the thread is `complete` until its version grows, so a step
  that is closed as complete is not that of a running thread.
* *One attempt at a time* (`Alone`). As long as no attempt was lost or overlapped another, an attempt that has not
  closed its step holds the thread (`InHand`): it is running, for that very version and definitions. Only that attempt
  un-requests the thread, and then its outcome says so; an attempt that fails takes the thread with it. An
  overlapping attempt breaks both, and `RunningAccounted` names what it then leaves behind (`EndedUnlabelled`, section 6).

The proof sorts the actions into kinds (`Kind`): what reserves, what only moves an attempt on, what ends it early, what
settles the thread, what closes the step. `KindOfNext` finds the kind of each action, with its types; each
conjunct of the invariant is then kept by every kind.

Two claims of an earlier statement of these properties did not survive the attempt to prove them. `RunningAccounted` excluded
a failed step altogether: the model checker refutes that with `MaxMail = 2`, `MaxFaults = 1` and three events (section
6). `AppliedCurrent` spoke of the definitions the thread was *reserved* under; an attempt checks those of its own
key, and the thread may have been reserved again under others meanwhile. It now speaks of the attempt.

`GmailConnectionsProofs` proves, for any set of users, days, connections and attempts, from `ConnectionsAssumption` and what
each theorem names:

| theorem | states | argument |
|---|---|---|
| `WellTyped` | `Spec => []TypeOK` | inductive with where an attempt can be (`Sound`) |
| `WatchKept` | `Spec => []SharedWatchKept` | from `Claimed` |
| `NothingLeft` | `Spec => []NobodysWatch` | from `Needed` |
| `AlwaysHeld` | `Spec => []WatchHeld` if `Lifetime > 1` | from `Claimed` and `Chained` |
| `CleanupStaysOwed` | `Spec => []CleanupOwed` if `MaxMishaps < CleanupAttempts` | from `Owed` |

The first assumption is met by Google's seven days; a watch of one day has run out before its daily renewal is due. The second
says that a cleanup does not meet with a failure at every attempt it has: then its step has failed for good and nothing offers
it again. The run has one mishap and two attempts.

The layers, each inductive with those before it that it needs:

* *Who is at work* (`Sound`). The types; that an attempt has the step it is an attempt of, that a cleanup's connection is being
  removed and no renewal of it runs beside (the account's control lock), that what `startGmailWatch` returned was returned
  today; and that an open step has an attempt left or is being attempted.
* *The lock and the days* (`Locked`, `Dated`). Until a lock connection drops, whoever is between its lock and its commit holds the lock,
  so there is one such attempt in the mailbox. No expiry is further away than a watch lasts: this is why a new
  registration never shortens what another connection claims.
* *What is registered* (`Claimed`, `Needed`). A row claims no more than is registered, and neither does an attempt that has called Gmail and has
  not saved. The last conjunct is the point of the lock: a cleanup that is about to stop the watch still has no
  companion, since each way to become one takes the lock or was one already. In the other direction, a watch that is
  registered has a connection, or a callback that is about to make one.
* *The renewals* (`Chained`). A connection that is connected and never lost its grant has an open, live renewal that is due before
  its watch expires. To carry that through a renewal that fails for good one must know its successor is not
  mistaken for a step that ended earlier (`Linked`): a step is named after the day of its renewal and how often it was
  recovered, a recovery follows a step that failed, and a step that is not due has not been touched. To carry
  it through the end of a renewal one must know that the next was scheduled for a later day (`OnCourse`).
* *The cleanup* (`Owed`). Its step is open and live, and each of its attempts but the last met with a failure of its
  own, which is how the number of mishaps bounds the number of attempts.

`DayPasses` waits for what is at work and what is due (section 2): that no attempt spans a night is in `Sound`, that a due renewal is
done is used by `AlwaysHeld` alone. The attempt to prove `Chained` found that the model gave a recovery
that is named after the row (`state:`, `gmail-watch.ts:114`) a key which a daily step could also have; the code's keys differ in their prefix,
and the model's now do too.

`MailboxCacheProofs` proves, for every finite set of threads, every set of views, size of a page and bound, from the
module's four assumptions only (threads are ordered by id, the view rendered first is a view, `None` is no value, bounds
are numbers):

| theorem | states | argument |
|---|---|---|
| `TypesHold` | `Spec => []TypeOK` | from `IInv` |
| `ShownRowsAreStored` | `Spec => []RowsAreTrue` | from `IInv`: `PageAgrees` |
| `ShownCountsAreStored` | `Spec => []CountsAreTrue` | from `IInv`: `CountsAgree` |
| `OpenedIsStored` | `Spec => []ReaderIsTrue` | from `IInv`: `OpenAgrees` |
| `NobodyIsAwaited` | `Spec => []SomeoneReads` | from `IInv`: `Reconciles`, `Opens`, `FirstRuns` |

The first four properties speak of a tab to which nothing is on its way; to keep them one must say what is true while
something is. `IInv` is therefore a relation between a tab `w`, the mailbox `db` and what is *due*: the
threads of which a change is in a notification or an event that the tab has not read, which is all of them while
the stream is not ready, since a stream that becomes ready asks for a recovery (`Due`, `Coming`). It has two halves.

* *The tab by itself* (`Sane`, `FirstRuns`). `Reconciles`: a recovery reads the view that is shown and nothing else reads
  the list then; what events asked for has a job; a tab that says it is ready though its cache is not healthy is being
  recovered. `Opens`: what is open is shown and loads exactly while its read is out. `Lists`: a page that the tab takes for
  the stored one (`Believes`: the last recovery has read it, and neither a failure nor the reader has come between) is
  fresh and is not read again. `FirstRuns`: the effect of the list that is shown has run; there is none under an
  opened thread, and the list that comes back runs it at once.
* *The tab and the mailbox* (`Agrees`). Each part of what is shown (`PageAgrees`, `OpenAgrees`, `CountsAgree`), and each
  answer that is still to be applied (`ListAgrees`, `FoundAgrees`), is what is stored, or a change of it is due, or is
  asked for and not begun (`Planning`), or is being read by the patch at work (`Patching`), or that patch has failed and a
  recovery follows it.

A commit makes its thread due; an event that is handled moves what was due to what is planned; a
job that begins moves what is planned to what it reads, with every older answer dropped; a failure leads to a recovery,
to which everything is planned. The reconciler's loop is one operator in the code's order (`EndJob`, `Continued`), so the
proof has a lemma for each way out of it (`RecoveryKeeps`, `PatchKeeps`, `IdleKeeps`), and every action that ends in it
cites `SettledKeeps`. A row may have another star than is stored only while a click on it has not yet been written (`StarPends`);
once it has, an event is due, or `steady` has ended.

Every safety invariant and action property of the passing runs is proved but for `Converged` and `BuildIsOwned` (of the latter, `OneActiveRun` and
`TypeOK` are). The liveness properties (`BecomesReady`,
`PushApplied`, `SentIsReported`, `SettlesUnlessLost`, `TabsSettle`) stay with
the model checker: fairness and ENABLED are beyond this prover.

## 6. What the code does not do

Each of these is a definition of its module, stated as a comment, a test or the documentation states it. The first is refuted by
run `ghost`; each other by putting the definition into the `.cfg` named, with the changes named, in place of its properties.

* **A repair keeps a deleted message** (`ghost`, `RepairReconcilesDeletions`; a bug). A repair
  computes the messages to drop as stored minus `getMailSyncRunProviderMessageIds`, which is the *stored*
  messages of the discovered threads (`packages/database/src/workflows.ts:686`). A message deleted before
  the repair's baseline in a thread that still exists is in both, and stays for good, although
  `sync.ts:370` says that this difference is how it is found.
* **A restarted walk** (`FinalizesWhenStored`; `MailSyncWalk.cfg` with one message and `MaxMishaps = 2`). After
  a failed Execution the walk starts over and owes only what it lists again. A thread left open by
  the first walk that has gone from Gmail is never settled; the walk still ends in finalization, and
  `completeMailSyncRun` refuses it on each attempt. An attempt left over from the first walk may also
  store, after the last replay and before that check, a thread it fetched when a message now deleted was
  still in it; the run is then complete and the message stays (`Converged`, on the same instance).
* **A superseded run that goes on** (`SupersededStops`; `MailSyncWalk.cfg` with one message and `ReconnectAnytime = TRUE`). The ranges and the
  readiness of a finalization are written under a check of the account and the cursor, not of the
  run, so a run that was failed and replaced still writes history and publishes the replica of its
  successor. A first page checks its run in one transaction and puts the replica into `snapshotting` in the next
  (`sync.ts:109`); the counterexample is that case, which is the shorter one.
* **A second reconnection** (`ReconnectRepairs`, a bug; `MailSyncWalk.cfg` with one message, `MaxRuns = 3`, `MaxRevocations = 2` and `MaxMishaps = 2`). A repair is keyed
  by its starting history id. When a second reconnection finds the same id as a repair that was
  failed by a revocation, the insert conflicts, nothing is enqueued and the replica stays failed.
  Nor does a boot help: its sweep offers a failed run only if it starts at the initial cursor
  (`workflows.ts:737`).
* **An edited draft** (`SentAsApproved`; `DraftWrites.cfg`). `prepareAndSend` compares
  the draft's message with the approved one, and `drafts.send` names only the draft. An edit between
  the two is sent, although `compose-send.ts:45` says that a draft edited after approval is refused. `SentAsChecked` says what
  remains true: an edit before the check is refused, on every retry and after a lost answer.
* **Three sends at once** (`RequestsReturn`, a bug; `DraftWrites.cfg` with the third request, `MaxClaims = 1`, no edits and no faults). `withGmailDraftSendLock`
  waits for its lock, and runs the send, on a connection of the query pool that the send's own
  statements need. Three sends at once, of one key or of several, hold the default pool's three
  connections and wait for ever: what the comment at `client.ts:92` warns of for the account lock,
  which has a pool of its own.
* **A retry that is not offered** (`RetryResolves`; `Composer.cfg`). `compose-draft-state.ts:54` says that only an
  identical retry may resolve a send whose draft exists. When its answer is that the account must be
  reconnected, the page locks the message and disables its button; reconnecting loads the page anew, and
  the attempt is forgotten with its keys.
* **A reply locked over nothing** (`LockedInDoubt`; `Composer.cfg`). `thread-composer.tsx:342` says that a message is locked
  while its send is unresolved. A save that was refused for good, with nothing saved, keeps the reply locked all the
  same: it can be sent again as it is or left, not corrected. The page does let it be edited.
* **Draft rows left behind** (`AlwaysAligned`; `DraftResources.cfg`). `drafts.ts:1-4` keeps rows aligned "after a sync page or a
  history change touches them". A catch-up commits the messages of its range with the new cursor, and then lists, reads and
  writes the drafts among them one by one (`history.ts:181-211`). When the attempt dies between the two, its retry starts behind the range, and the
  rows that it had not reached stay as they were until the next change of their drafts, or the next finalization. A draft
  that is gone between drafts.list and drafts.get does *not* have this end: its 404 is taken for an expired cursor, and
  the repair that it starts replaces all rows.
* **A list that loads more for ever** (`LoadingIsRead`, a bug; `MailboxCache.cfg`). When a thread is opened, or the view changed, while the page
  below is being read, the list is unmounted and aborts the read, and returns without setting the load state of the cached page
  (`mail-list.tsx:446-447`). Shown again, the page says "Loading more mail..." (`:567`), the observer does not ask in that state
  (`:469`), and nothing else does, until a recovery sets the state back.
* **A star that is put back** (`StarsAreReconciled`; `MailboxCache.cfg` with `MaxEvents = 4`). `message-star-button.tsx:52` says that the change event that
  follows a Gmail write reconciles the row against stored state. When only the answer of the write is lost, or comes after its event, the row is given
  the star that the button had (`:59`), and no event follows. The same line writes the star of the *latest* message into a
  row whose star is that of *any* (`mailbox-resources.ts:341`): a click that fails without having written anything, on a thread whose
  older message is starred, leaves the row without a star; one that succeeds in taking the latest message's star away is put right by
  its event.
* **A restored connection without a watch** (`NotifiedOnceRestored`; `GmailConnections.cfg`).
  `gmail-identity.ts` keeps the shared watch for connections that "need notifications once authorization
  is restored". A revocation fails the step of the next renewal, a reconnection schedules none
  (`workflows.ts:215`), and the next chain begins when a worker boots. A renewal step that was
  dispatched and not executed, because its account was not connected, stays open, and
  `ensureDailyGmailWatchRenewals` then skips the connection even at a boot.
* **A disconnection that ends nowhere** (`DisconnectRemoves`; `GmailConnections.cfg` with `FairSpec`, one user and
  without symmetry). README.md:107 says that disconnecting removes the user's connection and that
  reconnecting waits for the cleanup. When the grant was revoked, refreshing the token to stop the watch
  answers invalid_grant, the cleanup fails for good, the account stays disconnected and connecting it again
  is refused.
* **A thread that runs without work** (`RunningHasWork`; `ThreadLabels.cfg` with `Spec`, or with `MaxMail = 2`
  and no revocation). `recent-thread-label-recovery.ts:50` says a thread cannot be marked running without the
  durable work that will label it. An analysis that finds the recent message of its thread archived
  un-requests the thread (`thread-label-analysis.ts:507`); when the message comes back while an older one
  has kept the thread in the inbox, the thread is reserved under the same version and definitions,
  hence under the key of the step that is just being closed: it runs and nobody labels it. After a
  revocation a step is closed as missing and leaves its thread running in the same way. If the attempt that un-requested
  it overlapped the last one of the step, that one finds nothing to fail, and after the thread was
  reserved again marks the step failed: the thread runs under a failed step. The scan offers
  only threads that are pending or were not requested, so new mail or the user has to move it on.
* **A scan that stays running** (`ScanSettles`; `LabelScan.cfg`). `historicalLabelScanWorkflow` says that a
  scan that cannot be advanced must say so. When the report of an applied batch is lost, the retry
  finds its submission complete, answers without a scope, and the Workflow ends with the scan
  running.
* **A cached page that is not stale and not true** (`CachedPagesAreTrue`; `MailboxCache.cfg`). A patch marks as
  stale the other pages that *hold* a changed thread (`mailbox-cache.ts:205`). A thread that moves
  *into* a cached view does not mark it, and the page is shown without it until something else does.

What the models also show, of which no comment claims the contrary: a reconciliation that fails ten
times leaves its step open with no one to settle it; a process that was replaced for good while holding a
batch another process had skipped leaves the next look to the next insert; the read of a view's
first page, or of the page below, that is applied after a patch puts older rows over newer ones
(`mail-list.tsx:366`, `:445`), which is why `RowsAreTrue` asks for `steady`; asking Gmail for a star that a message has already leaves no history, and no event
follows, so that a click made on a star that was itself old leaves the row with what the button predicted; the star
button is not keyed by its thread, so its prediction, until the stored star differs from the one it was made
against, is shown for the next thread as well if both are cached; an event
stream refused with 503 is opened again only when the tab is looked at; a failed recovery waits
for the next event. And a batch closed as empty: a submission that was prepared is taken up again while its thread is
out of the inbox, is closed (`batch.ts:95`), moves the cursor and owes the thread a retry; if the attempt crashes before
it reports that, its retry claims the page behind the cursor, and a thread that is back in the inbox is left out of a
scan that says it is complete (`KeepsPromise` with `skipped` left out of `Astray`; `LabelScan.cfg` with one thread, pages of
one, 2 faults, 2 changes and 4 events).

## 7. Not modelled

* Authentication, HTML presentation, object storage and the user interface as such: formatting, input and
  output or a third party's protocol, with no state of the program's own whose interleavings matter.
* *Two holders of the account's control lock.* `pg_advisory_lock` ends with its session, and an Activity learns of it
  at its next statement. `MailSync` and `DraftResources` have one holder; `GmailConnections` and
  `DraftWrites` do drop their locks.
* *The incremental entity.* Idle close, Continue-As-New and the disconnected signal of
  `gmailIncrementalSyncWorkflow`; the model has its triggers and attempts.
* Of the replica: projections of threads and search, attachments, progress columns, the refresh of a single
  message, deletion of objects. Of the outbox: tenant ranking, `label.batch.event` signals, commands that can
  never be dispatched. Of connections: the "cadence" recovery. Of labels: previews of receipts, and a page
  of the recovery scan that fails for an hour. Of the tab: several accounts, the shell's read, sign-out on
  401, the reader's read marks and label choices. Of composers: parsing, the fields of a message, the
  thread's reload after a send. Of pushes: the verification of the message.
* Induction over data: what the recursive merge of pages or MIME trees computes for inputs of every size.

## 8. Plan

Every part that keeps state has its model. What is left, in order:

1. *Abstract specifications.* An intent to send (written once, sent at most once, reported only when
   sent), which `DraftWrites` implements; a remembered step (executed, recorded once), which `Outbox`
   implements.
2. *Faults.* Two holders of the account's control lock, in `DraftResources` first.
3. *The incremental entity* as an implementation of "every signal is followed by a complete catch-up".
4. *Pure algorithms*: the merge of history records, cursor comparison and retry delays against
   reference definitions.
