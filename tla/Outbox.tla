------------------------------- MODULE Outbox -------------------------------
(***************************************************************************)
(* The outbox: how a step that a transaction records (workflowSteps with   *)
(* temporalCommands) reaches Temporal, and how the Execution that owns it   *)
(* reports back.  Workers take batches of undispatched commands under row   *)
(* locks, start or signal the Workflows inside that transaction and mark    *)
(* the commands dispatched; they are woken by notifications that may be     *)
(* missed, crash, and sweep when they boot (packages/database/src/          *)
(* workflows.ts, client.ts, apps/worker/src/index.ts,                       *)
(* apps/worker/src/temporal/runtime.ts, activities/registry.ts,             *)
(* packages/workflows/src/workflows/workflow-step.ts).                      *)
(***************************************************************************)
EXTENDS Integers, FiniteSets

CONSTANTS Command,       \* the commands, each with its kind
          Worker,        \* worker processes: two while a deployment replaces one
          BatchSize,     \* commands a transaction takes
          MaxAttempts,   \* attempts of a step
          MaxMishaps,    \* bound: crashes, failed or lost calls, lost subscriptions
          MaxTurns,      \* bound: changes of the account's connection
          MaxRows        \* bound: steps that are recorded

\* step: one Activity of workflowStepWorkflow.  run: a Workflow that is started
\* once.  scan: an entity that is signalled, and started if need be.
Kind == {"step", "run", "scan"}

ASSUME OutboxAssumption ==
    /\ \A c \in Command : c.kind \in Kind
    /\ Worker # {}
    /\ BatchSize \in Nat \ {0} /\ MaxAttempts \in Nat \ {0}
    /\ {MaxMishaps, MaxTurns, MaxRows} \subseteq Nat

VARIABLES steps,       \* workflowSteps.status
          waiting,     \* the commands whose dispatchedAt is null
          owed,        \* work of an admission step that is not done yet
          execution,   \* Temporal: the latest Execution of each Workflow ID
          received,    \* commands Temporal has answered since they were offered last
          attempts,    \* attempts of steps in progress, those that timed out included
          worker,      \* the processes
          account,     \* connectedAccounts.status of their account
          mishaps, turns

outboxVars ==
    <<steps, waiting, owed, execution, received, attempts, worker, account, mishaps, turns>>

Terminal == {"complete", "failed"}
OpenRow == {"queued", "running"}
AccountStatus == {"connected", "reconnect_required", "disconnected"}
\* tries: attempts begun.  current: the attempt Temporal waits for, 0 if none.
\* again: a signal that asks for one more pass.
Execution == [status : {"none", "open", "completed", "failed", "refused", "abandoned"},
              tries : 0 .. MaxAttempts, current : 0 .. MaxAttempts,
              reconciling : BOOLEAN, again : BOOLEAN]
Attempt == [of : Command, number : 1 .. MaxAttempts, at : {"mark", "work", "fail"}]
\* pending: the job signal.  sweep: what a boot has still to offer again.
Process == [at : {"down", "sweep", "wait", "start", "failed"},
            batch : SUBSET Command, started : SUBSET Command, sweep : SUBSET Command,
            pending : BOOLEAN, subscribed : BOOLEAN, stop : BOOLEAN]

OutboxTypeOK ==
    /\ steps \in [Command -> {"none"} \union OpenRow \union Terminal]
    /\ waiting \subseteq Command /\ owed \subseteq Command /\ received \subseteq Command
    /\ execution \in [Command -> Execution]
    /\ attempts \subseteq Attempt
    /\ worker \in [Worker -> Process]
    /\ account \in AccountStatus
    /\ mishaps \in 0 .. MaxMishaps /\ turns \in 0 .. MaxTurns

Down == [at |-> "down", batch |-> {}, started |-> {}, sweep |-> {},
         pending |-> FALSE, subscribed |-> FALSE, stop |-> FALSE]
None == [status |-> "none", tries |-> 0, current |-> 0, reconciling |-> FALSE, again |-> FALSE]
Opened == [None EXCEPT !.status = "open"]

OutboxInit ==
    /\ steps = [c \in Command |-> "none"] /\ waiting = {} /\ owed = {} /\ received = {}
    /\ execution = [c \in Command |-> None] /\ attempts = {}
    /\ worker = [w \in Worker |-> Down]
    /\ account = "connected" /\ mishaps = 0 /\ turns = 0

Mishap == mishaps < MaxMishaps /\ mishaps' = mishaps + 1
Open(c) == execution[c].status = "open"
Becomes(w, p) == worker' = [worker EXCEPT ![w] = p]
\* isTemporalAdmissionStepType: the Workflow owns the work.
Admission(c) == c.kind # "step"

\* Rows that a transaction holds FOR UPDATE.
Locked(c) == \E w \in Worker : worker[w].at = "start" /\ c \in worker[w].batch

-----------------------------------------------------------------------------
(* Rows and commands.                                                      *)

\* enqueueWorkflowSteps, and the trigger temporal_commands_notify_worker.
Enqueue(c) ==
    /\ steps[c] = "none" /\ Cardinality({d \in Command : steps[d] # "none"}) < MaxRows
    /\ steps' = [steps EXCEPT ![c] = "queued"]
    /\ waiting' = waiting \union {c}
    /\ owed' = IF Admission(c) THEN owed \union {c} ELSE owed
    /\ worker' = [w \in Worker |-> [worker[w] EXCEPT !.pending = @ \/ worker[w].subscribed]]
    /\ UNCHANGED <<execution, received, attempts, account, mishaps, turns>>

\* The account loses its grant, is authorized again, or is disconnected for
\* good: terminalizeGmailAccountForReconnect fails the open steps that need it.
AccountTurns(status) ==
    /\ turns < MaxTurns /\ turns' = turns + 1
    /\ account # status /\ account # "disconnected"
    /\ account' = status
    /\ IF status = "reconnect_required"
       THEN /\ steps' = [c \in Command |-> IF c.kind # "scan" /\ steps[c] \in OpenRow
                                           THEN "failed" ELSE steps[c]]
            /\ owed' = {c \in owed : c.kind = "scan"}
       ELSE UNCHANGED <<steps, owed>>
    /\ UNCHANGED <<waiting, execution, received, attempts, worker, mishaps>>

-----------------------------------------------------------------------------
(* The worker process: run, createJobSignal, runTemporalCommandLoop.       *)

\* What the sweeps offer again: runs that are queued or running and scans that
\* have work left.  The subscription precedes the sweep.
Boot(w) ==
    /\ worker[w].at = "down"
    /\ Becomes(w, [Down EXCEPT !.at = "sweep", !.subscribed = TRUE,
                               !.sweep = IF account = "connected" THEN owed ELSE {}])
    /\ UNCHANGED <<steps, waiting, owed, execution, received, attempts, account, mishaps, turns>>

\* readmitWorkflowStep: waits for the row lock, and notifies nobody.  Mutant:
\* does not wait.
NoWait(c) == TRUE
RowFree(c) == ~Locked(c)
Readmit(w, c) ==
    /\ worker[w].at = "sweep" /\ c \in worker[w].sweep /\ RowFree(c)
    /\ waiting' = waiting \union {c}
    /\ received' = received \ {c}
    /\ Becomes(w, [worker[w] EXCEPT !.sweep = @ \ {c}])
    /\ UNCHANGED <<steps, owed, execution, attempts, account, mishaps, turns>>

\* outboxSignal.notify() after the sweeps.  Mutant: only notifications wake it.
WaitsForNews(p) == [p EXCEPT !.at = "wait"]
Swept(p) == [p EXCEPT !.at = "wait", !.pending = TRUE]
SweepEnds(w) ==
    /\ worker[w].at = "sweep" /\ worker[w].sweep = {}
    /\ Becomes(w, Swept(worker[w]))
    /\ UNCHANGED <<steps, waiting, owed, execution, received, attempts, account, mishaps, turns>>

\* dispatchTemporalCommandBatch takes commands FOR UPDATE SKIP LOCKED, in an order
\* of tenants, priorities and ages that is left open.
Free == {c \in waiting : ~Locked(c)}
Batches ==
    {b \in SUBSET Free :
        Cardinality(b) = IF Cardinality(Free) < BatchSize THEN Cardinality(Free) ELSE BatchSize}

\* signal.wait() returns, and the loop takes a batch, or waits again; a process
\* that was asked to stop leaves it.
Selects(w) ==
    LET p == [worker[w] EXCEPT !.pending = FALSE] IN
    /\ worker[w].at = "wait" /\ worker[w].pending
    /\ IF p.stop THEN Becomes(w, Down)
       ELSE IF Free = {} THEN Becomes(w, p)
       ELSE \E b \in Batches : Becomes(w, [p EXCEPT !.at = "start", !.batch = b])
    /\ UNCHANGED <<steps, waiting, owed, execution, received, attempts, account, mishaps, turns>>

\* Temporal's answer to a start or a signal: REJECT_DUPLICATE for a step,
\* ALLOW_DUPLICATE_FAILED_ONLY for a run, signalWithStart for a scan.  That an
\* Execution has already been started is no failure.
Accepted(c) ==
    LET x == execution[c] IN
    CASE c.kind = "step" -> IF x.status = "none" THEN Opened ELSE x
      [] c.kind = "run"  -> IF x.status \in {"none", "failed"} THEN Opened ELSE x
      [] c.kind = "scan" -> IF x.status = "open" THEN [x EXCEPT !.again = TRUE] ELSE Opened

\* The calls of a batch run side by side; those of a batch that failed may
\* still arrive.
Starts(w, c) ==
    /\ worker[w].at \in {"start", "failed"} /\ c \in worker[w].batch \ worker[w].started
    /\ execution' = [execution EXCEPT ![c] = Accepted(c)]
    /\ received' = IF worker[w].at = "start" THEN received \union {c} ELSE received
    /\ Becomes(w, [worker[w] EXCEPT !.started = @ \union {c}])
    /\ UNCHANGED <<steps, waiting, owed, attempts, account, mishaps, turns>>

\* The batch is committed, and the loop goes on to the next one.
Commits(w) ==
    LET p == worker[w] IN
    /\ p.at = "start" /\ p.started = p.batch
    /\ waiting' = waiting \ p.batch
    /\ steps' = [c \in Command |-> IF c \in p.batch /\ Admission(c) THEN "complete" ELSE steps[c]]
    /\ Becomes(w, [p EXCEPT !.at = "wait", !.pending = TRUE, !.batch = {}, !.started = {}])
    /\ UNCHANGED <<owed, execution, received, attempts, account, mishaps, turns>>

\* One call fails: the batch is recorded as failed, whatever was started, and
\* the process ends.
StartFails(w) ==
    /\ worker[w].at = "start" /\ Mishap
    /\ Becomes(w, [worker[w] EXCEPT !.at = "failed"])
    /\ UNCHANGED <<steps, waiting, owed, execution, received, attempts, account, turns>>

Exits(w) ==
    /\ worker[w].at = "failed" /\ Becomes(w, Down)
    /\ UNCHANGED <<steps, waiting, owed, execution, received, attempts, account, mishaps, turns>>

Crashes(w) ==
    /\ worker[w].at \notin {"down", "failed"} /\ Mishap
    /\ Becomes(w, Down)
    /\ UNCHANGED <<steps, waiting, owed, execution, received, attempts, account, turns>>

\* A subscription is lost: notifications pass the process by until it finds out
\* (onSubscriptionLost).
LosesSubscription(w) ==
    /\ worker[w].subscribed /\ Mishap
    /\ Becomes(w, [worker[w] EXCEPT !.subscribed = FALSE])
    /\ UNCHANGED <<steps, waiting, owed, execution, received, attempts, account, turns>>

\* requestStop: for a lost subscription, or because a deployment asks for it.
RequestStop(w) ==
    /\ worker[w].at # "down" /\ ~worker[w].stop
    /\ IF worker[w].subscribed THEN Mishap ELSE UNCHANGED mishaps
    /\ Becomes(w, [worker[w] EXCEPT !.stop = TRUE, !.pending = TRUE])
    /\ UNCHANGED <<steps, waiting, owed, execution, received, attempts, account, turns>>

Loop(w) ==
    \/ Boot(w) \/ SweepEnds(w) \/ Selects(w) \/ Commits(w) \/ Exits(w) \/ RequestStop(w)
    \/ \E c \in Command : Readmit(w, c) \/ Starts(w, c)

-----------------------------------------------------------------------------
(* The Executions of admission steps.                                      *)

ExecutionEnds(c) ==
    LET more == execution[c].again IN
    /\ Admission(c) /\ Open(c)
    /\ execution' = [execution EXCEPT ![c].again = FALSE,
                                      ![c].status = IF more THEN "open" ELSE "completed"]
    /\ owed' = IF more THEN owed ELSE owed \ {c}
    /\ UNCHANGED <<steps, waiting, received, attempts, worker, account, mishaps, turns>>

ExecutionFails(c) ==
    /\ Admission(c) /\ Open(c) /\ Mishap
    /\ execution' = [execution EXCEPT ![c].status = "failed", ![c].again = FALSE]
    /\ UNCHANGED <<steps, waiting, owed, received, attempts, worker, account, turns>>

-----------------------------------------------------------------------------
(* workflowStepWorkflow and runWorkflowStepActivity.                       *)

Waits(a) == execution[a.of].current = a.number
\* What Temporal is told by the attempt it waits for; the others are ignored.
Reports(a, x) == execution' = IF Waits(a) THEN [execution EXCEPT ![a.of] = x] ELSE execution
Goes(a, at) == attempts' = (attempts \ {a}) \union {[a EXCEPT !.at = at]}
Returned(c, status) == [execution[c] EXCEPT !.status = status, !.current = 0]
\* An attempt that is over: another one, or reconcileWorkflowStepFailureActivity.
Failed(c) == [execution[c] EXCEPT !.current = 0, !.reconciling = execution[c].tries = MaxAttempts]

AttemptBegins(c) ==
    LET x == execution[c] IN
    /\ c.kind = "step" /\ Open(c) /\ x.current = 0 /\ ~x.reconciling
    /\ execution' = [execution EXCEPT ![c].tries = @ + 1, ![c].current = x.tries + 1]
    /\ attempts' = attempts \union {[of |-> c, number |-> x.tries + 1, at |-> "mark"]}
    /\ UNCHANGED <<steps, waiting, owed, received, worker, account, mishaps, turns>>

\* markWorkflowStepRunning.
Marks(a) ==
    /\ a.at = "mark"
    /\ IF steps[a.of] \in OpenRow /\ account = "connected"
       THEN /\ steps' = [steps EXCEPT ![a.of] = "running"]
            /\ Goes(a, "work") /\ UNCHANGED execution
       ELSE /\ Reports(a, Returned(a.of, IF steps[a.of] \in OpenRow THEN "refused"
                                                                   ELSE "completed"))
            /\ attempts' = attempts \ {a} /\ UNCHANGED steps
    /\ UNCHANGED <<waiting, owed, received, worker, account, mishaps, turns>>

WorkFails(a) ==
    /\ a.at = "work" /\ Mishap /\ Goes(a, "fail")
    /\ UNCHANGED <<steps, waiting, owed, execution, received, worker, account, turns>>

\* completeWorkflowStep.  Mutant: whatever the row says.
Written(c, status) == status
Unsettled(c, status) == IF steps[c] \in OpenRow THEN status ELSE steps[c]
Completes(a) ==
    /\ a.at = "work"
    /\ steps' = [steps EXCEPT ![a.of] = Unsettled(a.of, "complete")]
    /\ Reports(a, Returned(a.of, "completed"))
    /\ attempts' = attempts \ {a}
    /\ UNCHANGED <<waiting, owed, received, worker, account, mishaps, turns>>

\* failWorkflowStep.  The last attempt's failure is terminal.
Fails(a) ==
    /\ a.at = "fail"
    /\ steps' = [steps EXCEPT ![a.of] =
                  Unsettled(a.of, IF a.number = MaxAttempts THEN "failed" ELSE "queued")]
    /\ Reports(a, Failed(a.of))
    /\ attempts' = attempts \ {a}
    /\ UNCHANGED <<waiting, owed, received, worker, account, mishaps, turns>>

\* startToCloseTimeout, or the loss of the process: the attempt may go on.
AttemptTimesOut(c) ==
    /\ Open(c) /\ execution[c].current # 0 /\ Mishap
    /\ execution' = [execution EXCEPT ![c] = Failed(c)]
    /\ UNCHANGED <<steps, waiting, owed, received, attempts, worker, account, turns>>

\* reconcileWorkflowStepFailureActivity.
Reconciles(c) ==
    /\ Open(c) /\ execution[c].reconciling
    /\ steps' = [steps EXCEPT ![c] = Unsettled(c, "failed")]
    /\ execution' = [execution EXCEPT ![c].status = "failed", ![c].reconciling = FALSE]
    /\ UNCHANGED <<waiting, owed, received, attempts, worker, account, mishaps, turns>>

\* Its ten attempts fail.
ReconcileFails(c) ==
    /\ Open(c) /\ execution[c].reconciling
    /\ execution' = [execution EXCEPT ![c].status = "abandoned", ![c].reconciling = FALSE]
    /\ UNCHANGED <<steps, waiting, owed, received, attempts, worker, account, mishaps, turns>>

OutboxNext ==
    \/ \E w \in Worker : Loop(w) \/ StartFails(w) \/ Crashes(w) \/ LosesSubscription(w)
    \/ \E c \in Command :
          \/ Enqueue(c) \/ ExecutionEnds(c) \/ ExecutionFails(c)
          \/ AttemptBegins(c) \/ AttemptTimesOut(c) \/ Reconciles(c) \/ ReconcileFails(c)
    \/ \E a \in attempts : Marks(a) \/ WorkFails(a) \/ Completes(a) \/ Fails(a)
    \/ \E status \in AccountStatus : AccountTurns(status)

OutboxSpec == OutboxInit /\ [][OutboxNext]_outboxVars

-----------------------------------------------------------------------------
\* Nothing that a transaction recorded is forgotten between the database and
\* Temporal, whichever process stops where: a command that is marked dispatched
\* has been answered since it was last offered, and a step that is open has a
\* command or an Execution that will settle it, unless the account was not
\* connected when it ran or its reconciliation failed ten times
\* (dispatchTemporalCommandBatch, readmitWorkflowStep, workflowStepWorkflow).
NothingLost ==
    /\ OutboxTypeOK
    /\ \A c \in Command : steps[c] # "none" /\ c \notin waiting => c \in received
    /\ \A c \in Command : ~Admission(c) /\ steps[c] \in OpenRow =>
          c \in waiting \/ execution[c].status \in {"open", "refused", "abandoned"}

\* A step that is complete or failed stays so, whatever attempt that outlived
\* its timeout reports later (completeWorkflowStep, failWorkflowStep).
TerminalStays ==
    [][\A c \in Command : ~Admission(c) /\ steps[c] \in Terminal => steps'[c] = steps[c]]_outboxVars

\* No wake-up is lost: while a command waits, some process has still to look at
\* the outbox, although notifications pass a process by, find the rows locked by
\* another, or reach one that dies (runTemporalCommandLoop, createJobSignal).
SomeoneLooks ==
    waiting # {} =>
        \E w \in Worker : worker[w].at # "wait" \/ worker[w].pending \/ ~worker[w].subscribed

=============================================================================
