---------------------------- MODULE ThreadLabels ----------------------------
(***************************************************************************)
(* Automatic labelling of the threads of one account.  A thread that is    *)
(* owed a label is reserved, together with a label.thread.assign step, by  *)
(* the transaction that stores its mail or by the account's scan; attempts *)
(* of the step read the thread, ask the model, and apply its answer, each  *)
(* in a transaction of its own (packages/database/src/                     *)
(* thread-label-analysis.ts, recent-thread-label-recovery.ts,              *)
(* apps/worker/src/activities/label/analysis.ts and registry.ts,           *)
(* packages/workflows/src/workflows/thread-label-scan.ts).                 *)
(***************************************************************************)
EXTENDS Integers, FiniteSets

CONSTANTS Threads,         \* how many threads: their ids are ordered, the scan walks them in order
          Message, ThreadOf,
          SentAt,          \* the day a message was sent
          Label,           \* labels a user may define, enable and edit
          Others,          \* the fallback label, always enabled
          PageSize,        \* THREAD_LABEL_SCAN_PAGE_SIZE
          MaxAttempts,     \* attempts Temporal makes of a step
          MaxVersion,      \* bound: analysis versions of a thread
          MaxDefinition,   \* bound: definition versions of a label
          MaxCutoff,       \* bound: the last day the clock reaches
          MaxMail,         \* bound: changes of the mailbox
          MaxEdits,        \* bound: edits of label definitions and user decisions
          MaxFaults,       \* bound: attempts that crash or outlive their timeout
          MaxRevocations,  \* bound: times the Google grant is revoked
          MaxBoots,        \* bound: restarts of the worker process
          MaxEvents        \* bound: all of these together

Thread == 1 .. Threads

ASSUME LabelsAssumption ==
    /\ Threads \in Nat
    /\ ThreadOf \in [Message -> Thread]
    /\ SentAt \in [Message -> Nat]
    /\ Others \notin Label
    /\ PageSize \in Nat \ {0}
    /\ MaxAttempts \in Nat \ {0}
    /\ {MaxVersion, MaxDefinition} \subseteq Nat \ {0}
    /\ {MaxCutoff, MaxMail, MaxEdits, MaxFaults, MaxRevocations, MaxBoots, MaxEvents} \subseteq Nat

VARIABLES connected,    \* connectedAccounts.status = 'connected'
          definitions,  \* labels of kind 'invook', the fallback apart
          inbox,        \* stored messages that carry INBOX
          away,         \* stored messages that do not
          cutoff,       \* automaticThreadLabelCutoff of now
          threads,      \* threads: labelAnalysisState, Version, DefinitionHash, After
          assignment,   \* threadLabelAssignments
          steps,        \* workflowSteps of type label.thread.assign, by idempotency key
          work,         \* attempts of runWorkflowStepActivity in progress
          scan,         \* threadLabelScanWorkflow of the account
          offered,      \* the label.recent.scan command awaits dispatch
          spent         \* how much of each bound a behaviour has used

vars == <<connected, definitions, inbox, away, cutoff, threads, assignment,
          steps, work, scan, offered, spent>>

Definition == [version : 1 .. MaxDefinition, enabled : BOOLEAN]
\* definitionHash distinguishes exactly the enabled labels and their versions.
Hash == SUBSET (Label \X (1 .. MaxDefinition))
ThreadRecord == [state : {"not_requested", "pending", "running", "complete", "failed"},
                 version : 1 .. MaxVersion, hash : Hash,
                 after : Nat \union {-1}]           \* -1: labelAnalysisAfter is null
Assignment == [source : {"none", "ai", "user"}, label : Label \union {Others},
               version : 0 .. MaxDefinition]
Key == [thread : Thread, version : 1 .. MaxVersion, hash : Hash]
Outcome == {"none", "missing", "superseded", "resolved", "ineligible", "complete", "failed"}
\* queued and running are tested together everywhere: "open".
Step == [status : {"open", "complete", "failed"}, tries : 0 .. MaxAttempts,
         result : Outcome]
Attempt == [key : Key, n : 1 .. MaxAttempts,
            at : {"begin", "classify", "apply", "close", "fail", "failStep"},
            label : Label \union {Others}, outcome : Outcome]
Scan == [at : {"closed", "page", "decide"}, cursor : Nat, next : Nat,
         reference : Nat, rescan : BOOLEAN]

Counters == {"mail", "edits", "faults", "revocations", "boots"}

TypeOK ==
    /\ connected \in BOOLEAN
    /\ definitions \in [Label -> Definition]
    /\ inbox \subseteq Message /\ away \subseteq Message
    /\ cutoff \in Nat
    /\ threads \in [Thread -> ThreadRecord]
    /\ assignment \in [Thread -> Assignment]
    /\ DOMAIN steps \subseteq Key /\ \A k \in DOMAIN steps : steps[k] \in Step
    /\ work \subseteq Attempt
    /\ scan \in Scan
    /\ offered \in BOOLEAN
    /\ spent \in [Counters -> Nat]

Spend(counter, bound) ==
    /\ spent[counter] < bound
    /\ spent["mail"] + spent["edits"] + spent["faults"] + spent["revocations"]
         + spent["boots"] < MaxEvents
    /\ spent' = [spent EXCEPT ![counter] = @ + 1]

CurrentHash == {<<l, definitions[l].version>> : l \in {d \in Label : definitions[d].enabled}}
KeyOf(t, thread) == [thread |-> t, version |-> thread.version, hash |-> thread.hash]

\* inboxThreadCondition and recentInboxThreadCondition.
InInbox(box, t) == \E m \in box : ThreadOf[m] = t
Recent(box, t, after) == \E m \in box : ThreadOf[m] = t /\ SentAt[m] >= after

\* automaticThreadLabelAssignmentAllowed, and the same test of begin, complete
\* and saveAiThreadLabelAssignment.  Mutant: users and the model take turns.
LastWriterWins(t) == TRUE
AutomaticAllowed(t) == assignment[t].source # "user"

Init ==
    /\ connected = TRUE
    /\ definitions = [l \in Label |-> [version |-> 1, enabled |-> TRUE]]
    /\ \E S \in SUBSET Message : inbox \in SUBSET S /\ away = S \ inbox
    /\ cutoff = 1
    /\ threads = [t \in Thread |-> [state |-> "not_requested", version |-> 1,
                                    hash |-> {}, after |-> -1]]
    /\ assignment = [t \in Thread |-> [source |-> "none", label |-> Others, version |-> 0]]
    /\ steps = [k \in {} |-> [status |-> "open", tries |-> 0, result |-> "none"]]
    /\ work = {}
    /\ scan = [at |-> "closed", cursor |-> 0, next |-> 0, reference |-> 0, rescan |-> FALSE]
    /\ offered = TRUE                \* the worker has just booted
    /\ spent = [c \in Counters |-> 0]

-----------------------------------------------------------------------------
(* Reservation.                                                            *)

\* enqueueThreadLabelAnalysisWithExecutor: the conditional update.
MayReserve(t, thread, box, after) ==
    /\ thread.state \in {"pending", "not_requested"}
    /\ Recent(box, t, after)
    /\ AutomaticAllowed(t)
    /\ connected
Reserved(thread, after) ==
    [thread EXCEPT !.state = "running", !.hash = CurrentHash, !.after = after]

\* enqueueWorkflowStepWithExecutor: a step whose key exists is left alone, and
\* only an open one would get its command back.
Admit(keys) ==
    steps' = [k \in DOMAIN steps \union keys |->
                 IF k \in DOMAIN steps THEN steps[k]
                 ELSE [status |-> "open", tries |-> 0, result |-> "none"]]

\* enqueueLiveInboxThreadLabelAnalyses on the threads as the transaction left them.
EnqueueLive(candidates, left, box, after) ==
    LET taken == {t \in candidates : MayReserve(t, left[t], box, after)}
    IN /\ threads' = [t \in Thread |-> IF t \in taken THEN Reserved(left[t], after)
                                       ELSE left[t]]
       /\ Admit({KeyOf(t, Reserved(left[t], after)) : t \in taken})

\* A new analysis version makes every step of an earlier one superseded.
\* Mutant: the thread starts over under the key of the step it has had.
RestartedInPlace(thread) == [thread EXCEPT !.state = "not_requested", !.after = -1]
Restarted(thread) ==
    [thread EXCEPT !.version = thread.version + 1, !.state = "not_requested", !.after = -1]
StartOver(t) == [threads EXCEPT ![t] = Restarted(threads[t])]
VersionLeft(t) == threads[t].version < MaxVersion

\* upsertMailboxMessageWithTransaction on new content, by history or by a
\* run, then the reservation of the thread in the same transaction.
Receive(m) ==
    LET t == ThreadOf[m]
        box == inbox \union {m}
    IN /\ connected /\ m \notin inbox \union away
       /\ VersionLeft(t)
       /\ \/ inbox' = box /\ away' = away
          \/ inbox' = inbox /\ away' = away \union {m}
       /\ EnqueueLive({t}, IF InInbox(inbox', t) /\ AutomaticAllowed(t)
                            THEN StartOver(t) ELSE threads, inbox', cutoff)
       /\ Spend("mail", MaxMail)
       /\ UNCHANGED <<connected, definitions, cutoff, assignment, work, scan, offered>>

\* replaceGmailMessageLabels, applied from history, starts over only a thread
\* that was out of the inbox and has no label; storing the same change again
\* through a run (upsertMailboxMessageWithTransaction) also one labelled by the model.
Relabel(m, resync) ==
    LET t == ThreadOf[m]
        box == IF m \in inbox THEN inbox \ {m} ELSE inbox \union {m}
        enters == ~InInbox(inbox, t) /\ InInbox(box, t)
    IN /\ connected /\ m \in inbox \union away
       /\ inbox' = box
       /\ away' = (inbox \union away) \ box
       /\ VersionLeft(t)
       /\ EnqueueLive({t}, IF enters /\ (\/ assignment[t].source = "none"
                                         \/ resync /\ AutomaticAllowed(t))
                            THEN StartOver(t) ELSE threads, box, cutoff)
       /\ Spend("mail", MaxMail)
       /\ UNCHANGED <<connected, definitions, cutoff, assignment, work, scan, offered>>

\* The clock: what is fourteen days old is no longer recent.
DayPasses ==
    /\ cutoff < MaxCutoff
    /\ cutoff' = cutoff + 1
    /\ UNCHANGED <<connected, definitions, inbox, away, threads, assignment, steps, work,
                   scan, offered, spent>>

-----------------------------------------------------------------------------
(* The user.                                                               *)

\* updateInvookLabel; createInvookLabel and setInvookLabelEnabled.
EditLabel(l) ==
    /\ \/ /\ definitions[l].version < MaxDefinition
          /\ definitions' = [definitions EXCEPT ![l].version = definitions[l].version + 1]
       \/ definitions' = [definitions EXCEPT ![l].enabled = ~definitions[l].enabled]
    /\ Spend("edits", MaxEdits)
    /\ UNCHANGED <<connected, inbox, away, cutoff, threads, assignment, steps, work, scan, offered>>

\* setUserThreadLabel, whether or not the label is enabled or the account connected.
SetUserLabel(t, l) ==
    /\ assignment' = [assignment EXCEPT ![t] =
          [source |-> "user", label |-> l,
           version |-> IF l = Others THEN 1 ELSE definitions[l].version]]
    /\ threads' = [threads EXCEPT ![t].state = "complete"]
    /\ Spend("edits", MaxEdits)
    /\ UNCHANGED <<connected, definitions, inbox, away, cutoff, steps, work, scan, offered>>

RevokeGrant ==
    /\ connected /\ connected' = FALSE
    /\ Spend("revocations", MaxRevocations)
    /\ UNCHANGED <<definitions, inbox, away, cutoff, threads, assignment, steps, work, scan, offered>>

Reconnect ==
    /\ ~connected /\ connected' = TRUE
    /\ UNCHANGED <<definitions, inbox, away, cutoff, threads, assignment, steps, work, scan,
                   offered, spent>>

-----------------------------------------------------------------------------
(* The step: workflowStepWorkflow and runWorkflowStepActivity.             *)

\* Everything but the tables an attempt's transactions write.
AttemptFrame == UNCHANGED <<connected, definitions, inbox, away, cutoff, scan, offered>>
Moves(a, at) == work' = (work \ {a}) \union {[a EXCEPT !.at = at]}
Closes(a, outcome) ==
    work' = (work \ {a}) \union {[a EXCEPT !.at = "close", !.outcome = outcome]}

\* maximumAttempts of the step's policy.
MayRetry(k) == steps[k].tries < MaxAttempts

\* markWorkflowStepRunning.  A retry normally follows an attempt that is over;
\* one that timed out may still be running in the worker.
StartAttempt(k) ==
    /\ steps[k].status = "open" /\ MayRetry(k)
    /\ IF \E a \in work : a.key = k THEN Spend("faults", MaxFaults) ELSE UNCHANGED spent
    /\ steps' = [steps EXCEPT ![k].tries = steps[k].tries + 1]
    /\ work' = work \union {[key |-> k, n |-> steps[k].tries + 1, at |-> "begin",
                             label |-> Others, outcome |-> "none"]}
    /\ UNCHANGED <<threads, assignment>> /\ AttemptFrame

Matches(thread, a) == thread.version = a.key.version
\* Mutant: the definitions the model was asked about are not compared again.
AnyDefinitions(a) == TRUE
SameDefinitions(a) == CurrentHash = a.key.hash

\* The checkpoint of begin and complete that found the definitions changed:
\* a new version, reserved again in the same transaction where it still may be.
Requeue(t) ==
    LET left == [threads EXCEPT ![t].state = "pending", ![t].version = threads[t].version + 1]
    IN VersionLeft(t) /\ EnqueueLive({t}, left, inbox, threads[t].after)

Unrequested(t) ==
    threads' = [threads EXCEPT ![t].state = "not_requested", ![t].after = -1]

\* The part common to beginThreadLabelAnalysis and completeThreadLabelAnalysis:
\* every answer that ends the attempt.  ineligible is what the caller is told
\* when nothing in the inbox is recent enough any more.
EndsEarly(a, ineligible) ==
    LET t == a.key.thread
        thread == threads[t]
        inHand == Matches(thread, a) /\ AutomaticAllowed(t)
                  /\ thread.state = "running" /\ thread.after # -1
    IN \/ /\ ~connected
          /\ Closes(a, "missing") /\ UNCHANGED <<threads, steps>>
       \/ /\ connected /\ ~Matches(thread, a)
          /\ Closes(a, "superseded") /\ UNCHANGED <<threads, steps>>
       \/ /\ connected /\ Matches(thread, a) /\ ~inHand
          /\ Closes(a, "resolved") /\ UNCHANGED <<threads, steps>>
       \/ /\ connected /\ inHand /\ ~SameDefinitions(a)
          /\ Closes(a, "superseded") /\ Requeue(t)
       \/ /\ connected /\ inHand /\ SameDefinitions(a)
          /\ ~Recent(inbox, t, thread.after)
          /\ Closes(a, ineligible) /\ Unrequested(t) /\ UNCHANGED steps

Proceeds(a) ==
    LET thread == threads[a.key.thread]
    IN /\ connected /\ Matches(thread, a) /\ AutomaticAllowed(a.key.thread)
       /\ thread.state = "running" /\ thread.after # -1
       /\ SameDefinitions(a) /\ Recent(inbox, a.key.thread, thread.after)

Begin(a) ==
    /\ a \in work /\ a.at = "begin"
    /\ \/ EndsEarly(a, "ineligible")
       \/ Proceeds(a) /\ Moves(a, "classify") /\ UNCHANGED <<threads, steps>>
    /\ UNCHANGED <<assignment, spent>> /\ AttemptFrame

\* failThreadLabelAnalysis: the thread must still be running for this very step.
FailThread(a) ==
    LET t == a.key.thread
    IN threads' = IF /\ connected /\ Matches(threads[t], a) /\ threads[t].hash = a.key.hash
                     /\ threads[t].state = "running" /\ AutomaticAllowed(t)
                  THEN [threads EXCEPT ![t].state = "failed"] ELSE threads

\* runThreadLabelAnalysis without a configured model fails the thread and
\* completes the step.
NoModel(a) ==
    /\ a \in work /\ a.at = "begin"
    /\ FailThread(a) /\ Closes(a, "failed")
    /\ UNCHANGED <<assignment, steps, spent>> /\ AttemptFrame

\* classifyStoredThreadLabel: one of the definitions it was given, or the fallback.
Classify(a) ==
    /\ a \in work /\ a.at = "classify"
    /\ \E l \in {d[1] : d \in a.key.hash} \union {Others} :
          work' = (work \ {a}) \union {[a EXCEPT !.at = "apply", !.label = l]}
    /\ UNCHANGED <<threads, assignment, steps, spent>> /\ AttemptFrame

\* The model call throws.  Unless the attempt is the last one the step is only
\* queued again (failWorkflowStep).
ModelFails(a) ==
    /\ a \in work /\ a.at = "classify"
    /\ IF a.n = MaxAttempts THEN Moves(a, "fail") ELSE work' = work \ {a}
    /\ UNCHANGED <<threads, assignment, steps, spent>> /\ AttemptFrame

Apply(a) ==
    LET t == a.key.thread
    IN /\ a \in work /\ a.at = "apply"
       /\ \/ EndsEarly(a, "superseded") /\ UNCHANGED assignment
          \/ /\ Proceeds(a) /\ Closes(a, "complete")
             /\ assignment' = [assignment EXCEPT ![t] =
                   [source |-> "ai", label |-> a.label,
                    version |-> IF a.label = Others THEN 1 ELSE definitions[a.label].version]]
             /\ threads' = [threads EXCEPT ![t].state = "complete", ![t].hash = CurrentHash]
             /\ UNCHANGED steps
       /\ UNCHANGED spent /\ AttemptFrame

\* completeWorkflowStep.
CloseStep(a) ==
    /\ a \in work /\ a.at = "close"
    /\ work' = work \ {a}
    /\ steps' = IF steps[a.key].status = "open"
                THEN [steps EXCEPT ![a.key].status = "complete", ![a.key].result = a.outcome]
                ELSE steps
    /\ UNCHANGED <<threads, assignment, spent>> /\ AttemptFrame

\* workflowStepWorkflow: the last attempt has failed.
Exhausted(k) == steps[k].tries = MaxAttempts

\* reconcileWorkflowStepFailureActivity, once Temporal has no attempt left.
Reconcile(k) ==
    /\ steps[k].status = "open" /\ Exhausted(k)
    /\ IF \E a \in work : a.key = k THEN Spend("faults", MaxFaults) ELSE UNCHANGED spent
    /\ work' = work \union {[key |-> k, n |-> MaxAttempts, at |-> "fail",
                             label |-> Others, outcome |-> "none"]}
    /\ UNCHANGED <<threads, assignment, steps>> /\ AttemptFrame

\* failTerminalThreadLabelAnalysis, then failWorkflowStep.
Fail(a) ==
    /\ a \in work /\ a.at = "fail"
    /\ FailThread(a) /\ Moves(a, "failStep")
    /\ UNCHANGED <<assignment, steps, spent>> /\ AttemptFrame

FailStep(a) ==
    /\ a \in work /\ a.at = "failStep"
    /\ work' = work \ {a}
    /\ steps' = IF steps[a.key].status = "open"
                THEN [steps EXCEPT ![a.key].status = "failed"] ELSE steps
    /\ UNCHANGED <<threads, assignment, spent>> /\ AttemptFrame

\* The worker crashes: the attempt ends between two of its transactions.
Lose(a) ==
    /\ a \in work /\ work' = work \ {a}
    /\ Spend("faults", MaxFaults)
    /\ UNCHANGED <<threads, assignment, steps>> /\ AttemptFrame

-----------------------------------------------------------------------------
(* The scan of the account.                                                *)

ScanFrame == UNCHANGED <<connected, definitions, inbox, away, cutoff, assignment, work>>

\* enqueueRecentThreadLabelRecoveries: readmitWorkflowStep clears the marker.
Boot ==
    /\ offered' = (offered \/ connected)
    /\ Spend("boots", MaxBoots)
    /\ UNCHANGED <<threads, steps, scan>> /\ ScanFrame

\* signalWithStart.  The signal a new Execution is started with counts as well.
SignalScan == IF scan.at = "closed"
    THEN [at |-> "page", cursor |-> 0, next |-> 0, reference |-> cutoff, rescan |-> TRUE]
    ELSE [scan EXCEPT !.rescan = TRUE]

DispatchScan ==
    /\ offered /\ offered' = FALSE
    /\ scan' = SignalScan
    /\ UNCHANGED <<threads, steps, spent>> /\ ScanFrame

\* scanRecentThreadLabelPage.  Its result may be lost: the Activity then runs
\* again over the same page.
ScanPage ==
    LET found == {t \in Thread : /\ t > scan.cursor
                                 /\ threads[t].state \in {"pending", "not_requested"}
                                 /\ Recent(inbox, t, scan.reference)}
        page == {t \in found : Cardinality({u \in found : u < t}) < PageSize}
        last == {t \in page : \A u \in page : u <= t}
    IN /\ scan.at = "page"
       /\ EnqueueLive(page, threads, inbox, scan.reference)
       /\ \/ scan' = scan /\ Spend("faults", MaxFaults)
          \/ /\ \E next \in IF found = page THEN {0} ELSE last :
                    scan' = [scan EXCEPT !.at = "decide", !.next = next]
             /\ UNCHANGED spent
       /\ UNCHANGED offered /\ ScanFrame

\* threadLabelScanWorkflow between two pages.  Continue-As-New carries all of it.
ScanDecide ==
    /\ scan.at = "decide"
    /\ \/ /\ scan.next # 0
          /\ scan' = [scan EXCEPT !.at = "page", !.cursor = scan.next]
       \/ /\ scan.next = 0 /\ scan.rescan
          /\ scan' = [scan EXCEPT !.at = "page", !.cursor = 0, !.rescan = FALSE,
                                  !.reference = cutoff]
       \/ /\ scan.next = 0 /\ ~scan.rescan
          /\ scan' = [scan EXCEPT !.at = "closed", !.cursor = 0]
    /\ UNCHANGED <<threads, steps, offered, spent>> /\ ScanFrame

-----------------------------------------------------------------------------
AttemptStep(k) ==
    \/ StartAttempt(k) \/ Reconcile(k)
    \/ \E a \in work : /\ a.key = k
                       /\ \/ Begin(a) \/ Classify(a) \/ ModelFails(a) \/ Apply(a)
                          \/ CloseStep(a) \/ Fail(a) \/ FailStep(a)
ScanStep == DispatchScan \/ ScanPage \/ ScanDecide

Next ==
    \/ \E m \in Message : Receive(m) \/ Relabel(m, TRUE) \/ Relabel(m, FALSE)
    \/ \E l \in Label : EditLabel(l)
    \/ \E t \in Thread, l \in Label \union {Others} : SetUserLabel(t, l)
    \/ DayPasses \/ RevokeGrant \/ Reconnect \/ Boot
    \/ \E k \in DOMAIN steps : AttemptStep(k)
    \/ \E a \in work : NoModel(a) \/ Lose(a)
    \/ ScanStep

Spec == Init /\ [][Next]_vars
\* Temporal runs every step and every scan it was handed to its end.
FairSpec == Spec /\ WF_vars(\E k \in DOMAIN steps : AttemptStep(k)) /\ WF_vars(ScanStep)

-----------------------------------------------------------------------------
Owed(t) == /\ connected /\ threads[t].state \in {"pending", "not_requested"}
           /\ Recent(inbox, t, cutoff) /\ AutomaticAllowed(t)
Admitted(t) == KeyOf(t, threads[t]) \in DOMAIN steps
StepOf(t) == steps[KeyOf(t, threads[t])]

\* A thread marked running has a step of its own that is open, or that has
\* ended without a label because the thread had left the recent inbox; never a
\* step that labelled it, and only if attempts were lost or overlapped (a fault)
\* one that failed or that found the thread out of its hands
\* (beginThreadLabelAnalysis to completeWorkflowStep are four transactions
\* that overlapping attempts, the user and the scan interleave with).  Not
\* claimed once a grant was revoked.
EndedUnlabelled(step) ==
    \/ step.status = "complete" /\ step.result \in {"ineligible", "superseded"}
    \/ /\ spent["faults"] > 0
       /\ \/ step.status = "failed"
          \/ step.status = "complete" /\ step.result \in {"resolved", "failed"}
RunningAccounted ==
    /\ TypeOK
    /\ spent["revocations"] = 0 =>
           \A t \in Thread : threads[t].state = "running" =>
               Admitted(t) /\ (StepOf(t).status = "open" \/ EndedUnlabelled(StepOf(t)))

\* What recent-thread-label-recovery.ts says of the reservation: "a thread
\* cannot be marked running without the durable work that will label it".
RunningHasWork ==
    \A t \in Thread : threads[t].state = "running" =>
        Admitted(t) /\ StepOf(t).status = "open"

\* Whatever attempts were in flight when the user chose a label, the choice is
\* never replaced by the model's (saveAiThreadLabelAssignment).
UserDecisionKept ==
    [][\A t \in Thread : assignment[t].source = "user" =>
          assignment'[t].source = "user"]_vars

\* An answer of the model is applied only by an attempt that asked it for the
\* thread as it stands (its analysis version) under the definitions as they
\* stand, and the label it names is one of those: enabled, at the version the
\* assignment carries (completeThreadLabelAnalysis reads all of it again).
AppliedCurrent ==
    [][\A t \in Thread :
          (assignment'[t] # assignment[t] /\ assignment'[t].source = "ai") =>
             /\ \E a \in work : /\ a.key.thread = t /\ a.key.version = threads[t].version
                               /\ a.key.hash = CurrentHash /\ a.label = assignment'[t].label
             /\ \/ assignment'[t].label = Others
                \/ <<assignment'[t].label, assignment'[t].version>> \in CurrentHash]_vars

\* A thread that is owed a label when the boot sweep offers a scan is reserved
\* by it (or stops being owed one), wherever the walk stands when the signal
\* arrives (threadLabelScanWorkflow).
OwedIsScanned == \A t \in Thread : (Owed(t) /\ offered) ~> ~Owed(t)
=============================================================================
