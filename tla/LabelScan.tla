----------------------------- MODULE LabelScan -----------------------------
(***************************************************************************)
(* One request to label past mail: a Workflow submits batch after batch to *)
(* the provider, waits for each, applies its results and goes on with the  *)
(* scope the application reports (packages/database/src/                   *)
(* historical-thread-label-batches.ts, apps/worker/src/activities/label/   *)
(* batch.ts, packages/workflows/src/workflows/historical-label-scan.ts).   *)
(* An attempt of an Activity may crash between any two of its steps, or    *)
(* outlive its timeout and go on beside its retry.                         *)
(***************************************************************************)
EXTENDS Integers, Sequences, FiniteSets

CONSTANTS Threads,        \* threads of the mailbox when the request was admitted
          PageLimit,      \* REQUEST_LIMIT
          RetryLimit,     \* historicalLabelScanRetryLimit
          MaxSubs,        \* bound: submissions of the scan
          MaxFaults,      \* bound: attempts that crash, and Activities that fail
          MaxTimeouts,    \* bound: attempts that outlive their timeout
          MaxDeaths,      \* bound: failed Executions
          MaxChanges,     \* bound: changes by the mailbox, the user, live analysis
          MaxRevocations, \* bound: revocations of the grant
          MaxBoots,       \* bound: restarts of the worker
          MaxEvents       \* bound: all of these together, a timeout counted twice

Thread == 1 .. Threads

ASSUME ScanAssumption ==
    /\ {Threads, PageLimit, MaxSubs} \subseteq Nat \ {0}
    /\ {RetryLimit, MaxFaults, MaxTimeouts, MaxDeaths, MaxChanges, MaxRevocations, MaxBoots, MaxEvents}
          \subseteq Nat

VARIABLES connected,   \* connectedAccounts.status = 'connected'
          definition,  \* the label is enabled, at the version of the request
          threads,     \* threads and threadLabelAssignments, as the scan reads them
          scan,        \* historicalThreadLabelScans: status and cursor
          subs,        \* threadLabelBatchSubmissions of the scan, in order
          remote,      \* the provider: input files and batch of each submission
          offered,     \* a label.batch.submit command awaits dispatch
          exec,        \* historicalLabelScanWorkflow
          work,        \* attempts of its Activities in progress
          settled,     \* history: threads the scan has dealt with
          spent        \* how much of each bound a behaviour has used

vars == <<connected, definition, threads, scan, subs, remote, offered, exec, work,
          settled, spent>>
mailbox == <<connected, definition, threads>>

\* late: the user chose the label after the request was admitted (assignedAt).
ThreadRecord == [inbox : BOOLEAN, content : Nat, version : Nat,
                 source : {"none", "ai", "user", "scan"}, late : BOOLEAN]
Entry == [thread : Thread, content : Nat, version : Nat]
Continuation == [retry : 0 .. RetryLimit, threads : SUBSET Thread]
\* threads = {}: threadIds is null, the page after the cursor.
Scope == [retry : 0 .. RetryLimit, threads : SUBSET Thread, conts : Seq(Continuation)]
Submission == [status : {"preparing", "submitted", "complete", "failed"},
               retry : 0 .. RetryLimit, manifest : SUBSET Entry,
               conts : Seq(Continuation), file : SUBSET Thread, batch : BOOLEAN]
\* A file is told apart by the threads it asks about.
Remote == [files : SUBSET (SUBSET Thread),
           batch : {"none", "running", "completed", "retryable", "failed"},
           asked : SUBSET Thread, matched : SUBSET Thread, invalid : SUBSET Thread]
SubId == 0 .. MaxSubs
Outcome == [status : {"none", "submitted", "skipped", "exhausted", "superseded",
                      "pending", "finalized", "ended", "recorded"},
            scope : Scope, sub : SubId]
Execution == [at : {"none", "submit", "wait", "finalize", "fail", "closed", "died"},
              scope : Scope, sub : SubId]
Attempt == [kind : {"submit", "finalize", "fail"}, live : BOOLEAN,
            at : {"check", "claim", "file", "prepare", "upload", "record", "batch",
                  "recordBatch", "read", "apply", "fail", "report"},
            scope : Scope, sub : SubId, entries : SUBSET Entry, file : SUBSET Thread,
            outcome : Outcome]
Counters == {"faults", "lost", "skipped", "timeouts", "deaths", "changes", "revocations", "boots"}

TypeOK ==
    /\ connected \in BOOLEAN /\ definition \in BOOLEAN /\ offered \in BOOLEAN
    /\ threads \in [Thread -> ThreadRecord]
    /\ scan \in [status : {"queued", "running", "complete", "failed", "superseded"},
                 cursor : 0 .. Threads]
    /\ subs \in Seq(Submission) /\ Len(subs) <= MaxSubs
    /\ remote \in Seq(Remote) /\ Len(remote) = Len(subs)
    /\ exec \in Execution
    /\ work \subseteq Attempt
    /\ settled \subseteq Thread
    /\ spent \in [Counters -> Nat]

Spend(counter, bound) ==
    /\ spent[counter] < bound
    /\ (IF counter = "timeouts" THEN 1 ELSE 0) + spent["faults"] + spent["lost"] + spent["skipped"]
         + 2 * spent["timeouts"] + spent["deaths"] + spent["changes"] + spent["revocations"]
         + spent["boots"] < MaxEvents
    /\ spent' = [spent EXCEPT ![counter] = @ + 1]

FirstScope == [retry |-> 0, threads |-> {}, conts |-> <<>>]
NextScope(conts) ==
    IF conts = <<>> THEN FirstScope
    ELSE [retry |-> conts[1].retry, threads |-> conts[1].threads, conts |-> Tail(conts)]
Nothing == [status |-> "none", scope |-> FirstScope, sub |-> 0]

Init ==
    /\ connected = TRUE /\ definition = TRUE
    /\ threads \in [Thread -> [inbox : BOOLEAN, content : {0}, version : {0},
                               source : {"none"}, late : {FALSE}]]
    /\ scan = [status |-> "queued", cursor |-> 0]
    /\ subs = <<>> /\ remote = <<>>
    /\ offered = TRUE
    /\ exec = [at |-> "none", scope |-> FirstScope, sub |-> 0]
    /\ work = {} /\ settled = {}
    /\ spent = [c \in Counters |-> 0]

-----------------------------------------------------------------------------
(* What a transaction reads.                                               *)

Active == {i \in 1 .. Len(subs) : subs[i].status \in {"preparing", "submitted"}}
\* getCurrentHistoricalScan returns the scan; where the label has changed it
\* supersedes it instead.
Current == scan.status \in {"queued", "running"} /\ connected /\ definition
Superseded == [scan EXCEPT !.status =
    IF @ \in {"queued", "running"} /\ connected /\ ~definition THEN "superseded" ELSE @]

\* The page's selection: in the inbox, and not decided by the user since.
Eligible(t) == threads[t].inbox /\ ~threads[t].late
\* hydrateCandidates, and the same test when results are applied.  Mutant: the
\* assignment's version is not compared.
UnchangedContent(e) == threads[e.thread].inbox /\ threads[e.thread].content = e.content
Unchanged(e) ==
    /\ threads[e.thread].inbox
    /\ threads[e.thread].content = e.content
    /\ threads[e.thread].version = e.version
Hydrated(manifest) == {e \in manifest : Unchanged(e)}
ThreadsOf(manifest) == {e.thread : e \in manifest}
Last(S) == CHOOSE t \in S : \A u \in S : u <= t

-----------------------------------------------------------------------------
(* Attempts.                                                               *)

Becomes(a, b) == work' = (work \ {a}) \union {b}
Throws(a) == work' = work \ {a}
Reports(a, status, scope, sub) ==
    Becomes(a, [a EXCEPT !.at = "report",
                         !.outcome = [status |-> status, scope |-> scope, sub |-> sub]])

\* submitHistoricalLabelBatchActivity: a batch already at the provider is the answer.
Check(a) ==
    /\ a \in work /\ a.at = "check"
    /\ \/ \E i \in Active : /\ subs[i].status = "submitted" /\ subs[i].batch
                            /\ Reports(a, "submitted", FirstScope, i)
       \/ /\ ~\E i \in Active : subs[i].status = "submitted" /\ subs[i].batch
          /\ Becomes(a, [a EXCEPT !.at = "claim"])
    /\ UNCHANGED <<mailbox, scan, subs, remote, offered, exec, settled, spent>>

\* claimThreadLabelBatchSubmission.
Page(scope) ==
    LET found == {t \in Thread : /\ Eligible(t)
                                 /\ IF scope.threads # {} THEN t \in scope.threads
                                    ELSE t > scan.cursor}
    IN {t \in found : Cardinality({u \in found : u < t}) < PageLimit}
\* What the selection has passed over for good.
Passed(scope, page) ==
    IF scope.threads # {} THEN {t \in scope.threads : ~Eligible(t)}
    ELSE {t \in Thread : t > scan.cursor /\ ~Eligible(t)
                         /\ (page = {} \/ t < Last(page))}

ClaimSuperseded(a) ==
    /\ \/ ~Current /\ scan' = Superseded
       \/ Current /\ (\E i \in Active : subs[i].status = "submitted") /\ UNCHANGED scan
    /\ Reports(a, "superseded", FirstScope, 0)
    /\ UNCHANGED <<subs, remote, settled>>
\* Mutant: the preparing submission of an earlier attempt is not taken up.
NeverResumes == {}
Resumed == {i \in Active : subs[i].status = "preparing"}
ClaimResumed(a) ==
    /\ Current
    /\ \E i \in Resumed :
          Becomes(a, [a EXCEPT !.at = "file", !.sub = i, !.entries = Hydrated(subs[i].manifest)])
    /\ UNCHANGED <<scan, subs, remote, settled>>
Claimable == Current /\ Resumed = {} /\ ~\E i \in Active : subs[i].status = "submitted"
ClaimEmpty(a) ==
    /\ Claimable /\ Page(a.scope) = {}
    /\ settled' = settled \union Passed(a.scope, {})
    /\ IF a.scope.threads # {}
       THEN Reports(a, "skipped", NextScope(a.scope.conts), 0) /\ UNCHANGED scan
       ELSE /\ Reports(a, "exhausted", FirstScope, 0)
            /\ scan' = [scan EXCEPT !.status = "complete"]
    /\ UNCHANGED <<subs, remote>>
ClaimPage(a) ==
    LET page == Page(a.scope)
        manifest == {[thread |-> t, content |-> threads[t].content,
                      version |-> threads[t].version] : t \in page}
    IN /\ Claimable /\ page # {} /\ Len(subs) < MaxSubs
       /\ subs' = Append(subs, [status |-> "preparing", retry |-> a.scope.retry,
                                manifest |-> manifest, conts |-> a.scope.conts,
                                file |-> {}, batch |-> FALSE])
       /\ remote' = Append(remote, [files |-> {}, batch |-> "none", asked |-> {},
                                    matched |-> {}, invalid |-> {}])
       /\ scan' = [scan EXCEPT !.status = "running"]
       /\ settled' = settled \union Passed(a.scope, page)
       /\ Becomes(a, [a EXCEPT !.at = "file", !.sub = Len(subs) + 1, !.entries = manifest])
Claim(a) ==
    /\ a \in work /\ a.at = "claim"
    /\ ClaimSuperseded(a) \/ ClaimResumed(a) \/ ClaimEmpty(a) \/ ClaimPage(a)
    /\ UNCHANGED <<mailbox, offered, exec, spent>>

\* The submission is read again; an upload that was not recorded is looked up
\* by the name of its file.
FileFound(i) == remote[i].files
File(a) ==
    LET s == subs[a.sub]
    IN /\ a \in work /\ a.at = "file"
       /\ \/ /\ s.file # {} \/ s.batch
             /\ Becomes(a, [a EXCEPT !.at = "batch", !.file = s.file])
             /\ UNCHANGED subs
          \/ /\ s.file = {} /\ ~s.batch /\ FileFound(a.sub) # {}
             /\ \E f \in FileFound(a.sub) :
                   IF s.status = "preparing"
                   THEN /\ subs' = [subs EXCEPT ![a.sub].file = f]
                        /\ Becomes(a, [a EXCEPT !.at = "batch", !.file = f])
                   ELSE Throws(a) /\ UNCHANGED subs
          \/ /\ s.file = {} /\ ~s.batch /\ FileFound(a.sub) = {}
             /\ Becomes(a, [a EXCEPT !.at = "prepare", !.file = ThreadsOf(s.manifest)])
             /\ UNCHANGED subs
       /\ UNCHANGED <<mailbox, scan, remote, offered, exec, settled, spent>>

RetryLeft(s) == s.retry < RetryLimit

\* What the scan owes after submission s: a retry of its threads that had no
\* answer, then its continuations.
ScopeAfter(s, again) ==
    IF again = {} THEN NextScope(s.conts)
    ELSE [retry |-> s.retry + 1, threads |-> again, conts |-> s.conts]

\* finalizeThreadLabelBatchSubmission on the batch of submission i: matched are
\* the threads answered with the label, invalid those without a valid answer.
Applies(a, i, state, matched, invalid) ==
    LET s == subs[i]
        same == ThreadsOf(Hydrated(s.manifest))
        again == IF state = "completed" THEN same \intersect invalid ELSE same
        hit == (same \ again) \intersect matched
        mayRetry == RetryLeft(s) /\ state \in {"completed", "retryable"}
    IN \/ /\ s.status \in {"complete", "failed"}
          /\ Reports(a, "ended", FirstScope, 0)
          /\ scan' = Superseded
          /\ UNCHANGED <<threads, subs, settled>>
       \/ /\ s.status \in {"preparing", "submitted"} /\ ~Current
          /\ scan' = Superseded
          /\ subs' = [subs EXCEPT ![i].status = "failed"]
          /\ Reports(a, "ended", FirstScope, 0)
          /\ UNCHANGED <<threads, settled>>
       \/ /\ s.status \in {"preparing", "submitted"} /\ Current
          /\ threads' = [t \in Thread |->
                IF t \in hit THEN [threads[t] EXCEPT !.source = "scan", !.version = @ + 1]
                ELSE threads[t]]
          /\ subs' = [subs EXCEPT ![i].status =
                IF state = "completed" THEN "complete" ELSE "failed"]
          /\ settled' = settled \union (ThreadsOf(s.manifest) \ again)
          /\ scan' = [scan EXCEPT
                !.cursor = IF s.retry = 0 /\ s.manifest # {} THEN Last(ThreadsOf(s.manifest)) ELSE @,
                !.status = IF again # {} /\ ~mayRetry THEN "failed" ELSE @]
          /\ IF again = {} \/ mayRetry
             THEN Reports(a, "finalized", ScopeAfter(s, again), 0)
             ELSE Reports(a, "ended", FirstScope, 0)

\* What the Workflow is told when a submission closed without reaching the provider.
Skips(a, i) ==
    Applies(a, i, "completed", {}, ThreadsOf(subs[i].manifest))

\* finalizeThreadLabelBatchPreparation stores what was taken, and no thread of the
\* manifest may be lost.
Complete(s, entries, excluded) ==
    /\ Cardinality(s.manifest) = Cardinality(entries) + Cardinality(excluded)
    /\ excluded \subseteq ThreadsOf(s.manifest)
\* A retry page carries what did not fit; a first page finds it after its cursor.
\* Mutant: the retry page does not.
KeptNone(s, excluded) == s.conts
Kept(s, excluded) ==
    IF s.retry > 0 /\ excluded # {}
    THEN <<[retry |-> s.retry, threads |-> excluded]>> \o s.conts ELSE s.conts
\* prepareThreadLabelBatch takes candidates in order up to its limits.
Fits(entries, t) == {e \in entries : e.thread <= t}
Prepare(a) ==
    LET s == subs[a.sub]
    IN /\ a \in work /\ a.at = "prepare"
       /\ IF a.entries = {} THEN Skips(a, a.sub)
          ELSE \E t \in ThreadsOf(a.entries) :
             LET taken == Fits(a.entries, t)
                 excluded == a.file \ ThreadsOf(taken)
             IN /\ IF s.file # {} \/ s.batch \/ s.status # "preparing"
                   THEN /\ Becomes(a, [a EXCEPT !.at = IF s.file # {} THEN "batch" ELSE "upload",
                                                !.file = IF s.file # {} THEN s.file
                                                         ELSE ThreadsOf(taken)])
                        /\ UNCHANGED <<subs, settled>>
                   ELSE IF Complete(s, taken, excluded)
                   THEN /\ subs' = [subs EXCEPT ![a.sub].manifest = taken,
                                                ![a.sub].conts = Kept(s, excluded)]
                        /\ settled' = settled \union
                             {u \in ThreadsOf(s.manifest \ a.entries) : u < Last(ThreadsOf(taken))}
                        /\ Becomes(a, [a EXCEPT !.at = "upload", !.file = ThreadsOf(taken)])
                   ELSE Throws(a) /\ UNCHANGED <<subs, settled>>
                /\ UNCHANGED <<threads, scan>>
       /\ UNCHANGED <<connected, definition, remote, offered, exec, spent>>

\* uploadThreadLabelBatchInput and recordThreadLabelBatchInputFile: the first
\* file that is recorded stays.
Upload(a) ==
    /\ a \in work /\ a.at = "upload"
    /\ remote' = [remote EXCEPT ![a.sub].files = @ \union {a.file}]
    /\ Becomes(a, [a EXCEPT !.at = "record"])
    /\ UNCHANGED <<mailbox, scan, subs, offered, exec, settled, spent>>
Record(a) ==
    LET s == subs[a.sub]
        file == IF s.file = {} THEN a.file ELSE s.file
    IN /\ a \in work /\ a.at = "record"
       /\ IF s.status = "preparing"
          THEN /\ subs' = [subs EXCEPT ![a.sub].file = file]
               /\ Becomes(a, [a EXCEPT !.at = "batch", !.file = file])
          ELSE Throws(a) /\ UNCHANGED subs
       /\ UNCHANGED <<mailbox, scan, remote, offered, exec, settled, spent>>

\* findThreadLabelBatchBySubmissionId, or createThreadLabelBatch under the
\* submission's idempotency key.
Batch(a) ==
    /\ a \in work /\ a.at = "batch"
    /\ remote' = IF remote[a.sub].batch # "none" THEN remote
                 ELSE [remote EXCEPT ![a.sub].batch = "running", ![a.sub].asked = a.file]
    /\ Becomes(a, [a EXCEPT !.at = "recordBatch"])
    /\ UNCHANGED <<mailbox, scan, subs, offered, exec, settled, spent>>
\* recordThreadLabelProviderBatch.
RecordBatch(a) ==
    /\ a \in work /\ a.at = "recordBatch"
    /\ IF subs[a.sub].status \in {"preparing", "submitted"}
       THEN /\ subs' = [subs EXCEPT ![a.sub].status = "submitted", ![a.sub].batch = TRUE,
                                    ![a.sub].file = remote[a.sub].asked]
            /\ Reports(a, "submitted", FirstScope, a.sub)
       ELSE Throws(a) /\ UNCHANGED subs
    /\ UNCHANGED <<mailbox, scan, remote, offered, exec, settled, spent>>

\* finalizeHistoricalLabelBatchActivity.  Results are read from a batch that
\* has ended and no longer changes, so that the transaction reads them as they are.
Read(a) ==
    /\ a \in work /\ a.at = "read"
    /\ IF subs[a.sub].status \in {"complete", "failed"} THEN Reports(a, "ended", FirstScope, 0)
       ELSE IF remote[a.sub].batch = "running" THEN Reports(a, "pending", FirstScope, 0)
       ELSE Becomes(a, [a EXCEPT !.at = "apply"])
    /\ UNCHANGED <<mailbox, scan, subs, remote, offered, exec, settled, spent>>
Apply(a) ==
    /\ a \in work /\ a.at = "apply"
    /\ Applies(a, a.sub, remote[a.sub].batch, remote[a.sub].matched, remote[a.sub].invalid)
    /\ UNCHANGED <<connected, definition, remote, offered, exec, spent>>

\* failHistoricalThreadLabelScan.
Fail(a) ==
    /\ a \in work /\ a.at = "fail"
    /\ IF scan.status \in {"queued", "running"}
       THEN /\ scan' = [scan EXCEPT !.status = "failed"]
            /\ subs' = [i \in 1 .. Len(subs) |->
                  IF subs[i].status = "preparing" THEN [subs[i] EXCEPT !.status = "failed"]
                  ELSE subs[i]]
       ELSE UNCHANGED <<scan, subs>>
    /\ Reports(a, "recorded", FirstScope, 0)
    /\ UNCHANGED <<mailbox, remote, offered, exec, settled, spent>>

-----------------------------------------------------------------------------
(* The Workflow.                                                           *)

Dispatch ==
    /\ offered /\ offered' = FALSE
    \* ALLOW_DUPLICATE_FAILED_ONLY: an Execution that closed as completed refuses.
    /\ exec' = IF exec.at \in {"none", "died"}
               THEN [at |-> "submit", scope |-> FirstScope, sub |-> 0] ELSE exec
    /\ UNCHANGED <<mailbox, scan, subs, remote, work, settled, spent>>

FirstStep == [submit |-> "check", finalize |-> "read", fail |-> "fail"]
Start ==
    /\ exec.at \in {"submit", "finalize", "fail"} /\ ~\E a \in work : a.live
    /\ work' = work \union
          {[kind |-> exec.at, live |-> TRUE, at |-> FirstStep[exec.at], scope |-> exec.scope,
            sub |-> exec.sub, entries |-> {}, file |-> {}, outcome |-> Nothing]}
    /\ UNCHANGED <<mailbox, scan, subs, remote, offered, exec, settled, spent>>

\* The completion signal, or the timeout of the wait: either may come at any
\* time, before the provider has finished as well as after.  enqueueBatchEvent
\* stores the signal for the submission that the batch belongs to.
Signalled == exec.at = "wait"
Release ==
    /\ Signalled /\ exec' = [exec EXCEPT !.at = "finalize"]
    /\ UNCHANGED <<mailbox, scan, subs, remote, offered, work, settled, spent>>

\* historicalLabelScanWorkflow on the result of its Activity.  Continue-As-New
\* carries the scope.
\* Mutant: a batch that is still running is abandoned.
GoesOnFinished(outcome) ==
    IF outcome.status = "submitted" THEN [exec EXCEPT !.at = "wait", !.sub = outcome.sub]
    ELSE IF outcome.status \in {"skipped", "finalized"}
    THEN [at |-> "submit", scope |-> outcome.scope, sub |-> 0]
    ELSE [exec EXCEPT !.at = "closed"]
GoesOn(outcome) ==
    IF outcome.status = "submitted" THEN [exec EXCEPT !.at = "wait", !.sub = outcome.sub]
    ELSE IF outcome.status = "pending" THEN [exec EXCEPT !.at = "wait"]
    ELSE IF outcome.status \in {"skipped", "finalized"}
    THEN [at |-> "submit", scope |-> outcome.scope, sub |-> 0]
    ELSE [exec EXCEPT !.at = "closed"]
Report(a) ==
    /\ a \in work /\ a.at = "report"
    /\ work' = work \ {a}
    /\ exec' = IF a.live THEN GoesOn(a.outcome) ELSE exec
    /\ UNCHANGED <<mailbox, scan, subs, remote, offered, settled, spent>>

\* The worker crashes.  What is lost with it may be the report of a batch that was
\* applied, or of one that was closed as empty.
Loses(a) ==
    IF a.at # "report" THEN "faults"
    ELSE IF a.kind = "finalize" THEN "lost"
    ELSE IF a.outcome.status = "finalized" THEN "skipped" ELSE "faults"
Crash(a) ==
    /\ a \in work /\ work' = work \ {a}
    /\ Spend(Loses(a), MaxFaults)
    /\ UNCHANGED <<mailbox, scan, subs, remote, offered, exec, settled>>
\* startToCloseTimeout: the retry starts while the attempt goes on.
Timeout(a) ==
    /\ a \in work /\ a.live
    /\ Becomes(a, [a EXCEPT !.live = FALSE]) /\ Spend("timeouts", MaxTimeouts)
    /\ UNCHANGED <<mailbox, scan, subs, remote, offered, exec, settled>>
\* scheduleToCloseTimeout: the Activity fails, and the Workflow records that;
\* when it cannot even do so the Execution fails.
GiveUp ==
    /\ exec.at \in {"submit", "finalize", "fail"} /\ ~\E a \in work : a.live
    /\ \/ /\ exec.at = "fail" /\ exec' = [exec EXCEPT !.at = "died"]
          /\ Spend("deaths", MaxDeaths)
       \/ /\ exec.at # "fail" /\ exec' = [exec EXCEPT !.at = "fail"]
          /\ Spend("faults", MaxFaults)
    /\ UNCHANGED <<mailbox, scan, subs, remote, offered, work, settled>>
\* enqueueHistoricalThreadLabelBatchRecoveries.
Boot ==
    /\ offered' = (offered \/ scan.status \in {"queued", "running"})
    /\ Spend("boots", MaxBoots)
    /\ UNCHANGED <<mailbox, scan, subs, remote, exec, work, settled>>

-----------------------------------------------------------------------------
(* The provider, the mailbox and the user.                                 *)

States == {"completed", "retryable", "failed"}
Finish(i) ==
    /\ remote[i].batch = "running"
    /\ \E state \in States, matched \in SUBSET remote[i].asked,
          invalid \in SUBSET remote[i].asked :
          /\ matched \intersect invalid = {}
          /\ state # "completed" => matched = {} /\ invalid = remote[i].asked
          /\ remote' = [remote EXCEPT ![i].batch = state, ![i].matched = matched,
                                        ![i].invalid = invalid]
    /\ UNCHANGED <<mailbox, scan, subs, offered, exec, work, settled, spent>>

Change(t) ==
    /\ \/ threads' = [threads EXCEPT ![t].content = @ + 1]
       \/ threads' = [threads EXCEPT ![t].inbox = ~@]
       \/ threads' = [threads EXCEPT ![t].source = "user", ![t].late = TRUE,
                                         ![t].version = @ + 1]
       \/ /\ threads[t].source # "user"
          /\ threads' = [threads EXCEPT ![t].source = "ai", ![t].version = @ + 1]
    /\ Spend("changes", MaxChanges)
    /\ UNCHANGED <<connected, definition, scan, subs, remote, offered, exec, work, settled>>
EditLabel ==
    /\ definition /\ definition' = FALSE
    /\ Spend("changes", MaxChanges)
    /\ UNCHANGED <<connected, threads, scan, subs, remote, offered, exec, work, settled>>
Revoke ==
    /\ connected /\ connected' = FALSE /\ Spend("revocations", MaxRevocations)
    /\ UNCHANGED <<definition, threads, scan, subs, remote, offered, exec, work, settled>>
Reconnect ==
    /\ ~connected /\ connected' = TRUE
    /\ UNCHANGED <<definition, threads, scan, subs, remote, offered, exec, work, settled, spent>>

-----------------------------------------------------------------------------
Step(a) ==
    \/ Check(a) \/ Claim(a) \/ File(a) \/ Prepare(a) \/ Upload(a) \/ Record(a)
    \/ Batch(a) \/ RecordBatch(a) \/ Read(a) \/ Apply(a) \/ Fail(a) \/ Report(a)
Drive == Dispatch \/ Start \/ Release \/ \E a \in work : Step(a)
Answer == \E i \in 1 .. Len(remote) : Finish(i)

Next ==
    \/ Drive \/ Answer
    \/ \E a \in work : Crash(a) \/ Timeout(a)
    \/ GiveUp \/ Boot
    \/ \E t \in Thread : Change(t)
    \/ EditLabel \/ Revoke \/ Reconnect

Spec == Init /\ [][Next]_vars
\* Commands are dispatched, Activities are retried, the wait ends, and the
\* provider finishes its batches within the day.
FairSpec == Spec /\ WF_vars(Drive) /\ WF_vars(Answer)

-----------------------------------------------------------------------------
Open == scan.status \in {"queued", "running"}

\* A label the user chose after making the request is never replaced by the
\* scan, whatever batch was out when it was chosen (claim, finalize).
UserWins ==
    [][\A t \in Thread : threads[t].late /\ threads[t].source = "user"
          => threads'[t].source # "scan"]_vars

\* A thread is in one batch at the provider at a time: "a duplicate upload
\* would bill twice for the same threads".  Not claimed when attempts overlap
\* while their threads change: one may then close a submission as empty that
\* the other is about to send.
BilledOnce ==
    /\ TypeOK
    /\ spent["timeouts"] = 0 \/ spent["changes"] = 0 => \A i, j \in 1 .. Len(remote) :
        i # j /\ remote[i].batch = "running" /\ remote[j].batch = "running"
            => remote[i].asked \intersect remote[j].asked = {}

\* The scan keeps what a request promises (ScanPromise): it is complete only
\* when retries, continuations and the cursor have left no thread out.  A
\* failed Execution forgets the retry it owed, a submit attempt that is still to
\* claim a page when its retry's batch has been applied finds none, and when a
\* batch is closed as empty and nobody hears of it, its retry starts behind the
\* threads that have become eligible again.
Astray == spent["deaths"] + spent["timeouts"] + spent["skipped"] > 0
Promise == INSTANCE ScanPromise WITH
    status <- IF Open THEN "open" ELSE scan.status,
    astray <- Astray
KeepsPromise == Promise!Spec

\* A request ends, although attempts crash and throw, unless the report of an
\* applied batch is lost, attempts overlap, the grant is revoked, or the
\* Execution fails.
SettlesUnlessLost ==
    <>(~Open \/ \E c \in {"lost", "timeouts", "deaths", "revocations"} : spent[c] > 0)

\* "A scan the Workflow cannot advance must say so, rather than sitting in
\* `running` until someone notices" (historicalLabelScanWorkflow).
ScanSettles == <>~Open
=============================================================================
