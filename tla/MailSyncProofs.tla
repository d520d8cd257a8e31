-------------------------- MODULE MailSyncProofs --------------------------
(***************************************************************************)
(* Theorems about MailSync that hold for every number of messages, threads,*)
(* labels and runs, and for every bound.                                   *)
(*                                                                         *)
(* First types, owners, cursors and notifications; then when a             *)
(* finalization runs: PassFits (the finalization that holds the account's  *)
(* lock belongs to an Execution at its end) and Walked (what a walk has    *)
(* listed it has stored, or still owes).                                   *)
(***************************************************************************)
EXTENDS MailSync, TLAPS

-----------------------------------------------------------------------------
(* The operators of the cursors and of the runs.                           *)

\* A cursor that is read is a history id, and never 0.
LEMMA CursorType ==
    ASSUME replica \in Replica
    PROVE  CurrentCursor \in HistoryId \ {0}
BY MailboxAssumption DEF CurrentCursor, Replica, HistoryId, InitialHistoryId

\* The higher of two history ids is a history id and at least both.
LEMMA HigherType ==
    ASSUME NEW a \in HistoryId, NEW b \in HistoryId
    PROVE  /\ Higher(a, b) \in HistoryId
           /\ a <= Higher(a, b) /\ b <= Higher(a, b)
BY MailboxAssumption DEF Higher, HistoryId

\* A pending cursor that an apply up to n does not keep is at most n.
LEMMA PendingAfterType ==
    ASSUME replica \in Replica, NEW n \in HistoryId
    PROVE  /\ PendingAfter(n) \in HistoryId
           /\ replica.pending <= Higher(n, PendingAfter(n))
BY MailboxAssumption DEF PendingAfter, Replica, HistoryId, Higher

\* The repair that planGmailHistoryCatchup finds is a run.
LEMMA RepairRunIsRun ==
    ASSUME RepairRuns # {}
    PROVE  (CHOOSE r \in RepairRuns : TRUE) \in Run
BY DEF RepairRuns, ActiveRuns

\* A replay starts at a history id.
LEMMA ReplayStartType ==
    ASSUME TypeOK, Replayable
    PROVE  ReplayStart \in HistoryId
<1>1. CurrentCursor \in HistoryId  BY CursorType DEF TypeOK
<1>2. CASE replica.state = "repairing"
  <2>1. (CHOOSE r \in RepairRuns : TRUE) \in Run
    BY <1>2, RepairRunIsRun DEF Replayable
  <2>2. runs[CHOOSE r \in RepairRuns : TRUE].start \in HistoryId
    BY <2>1 DEF TypeOK, RunRecord
  <2>. QED  BY <1>1, <1>2, <2>2, HigherType DEF ReplayStart
<1>. QED  BY <1>1, <1>2 DEF ReplayStart

\* Nobody holds the account's control lock.
LEMMA NoPassType == NoPass \in Pass
BY MailboxAssumption, SyncAssumption
   DEF NoPass, NoBatch, Keep, Pass, Change, Op, Content, HistoryId, ReplicaState

\* An Execution may move to any phase.
LEMMA PhaseTyped ==
    ASSUME exec \in [Run -> Execution], NEW r, NEW p \in Phase
    PROVE  [exec EXCEPT ![r].phase = p] \in [Run -> Execution]
BY DEF Execution

\* A page that has returned owes nothing.
LEMMA PageReturnTyped ==
    ASSUME exec \in [Run -> Execution], NEW r, NEW p \in Phase
    PROVE  [exec EXCEPT ![r].owed = {}, ![r].phase = p] \in [Run -> Execution]
BY DEF Execution

\* A run may complete.
LEMMA StatusTyped ==
    ASSUME runs \in [Run -> RunRecord], NEW r
    PROVE  [runs EXCEPT ![r].status = "complete"] \in [Run -> RunRecord]
BY DEF RunRecord

\* The last page of a run may be discovered.
LEMMA DiscoveredTyped ==
    ASSUME runs \in [Run -> RunRecord], NEW r \in Run, NEW d \in BOOLEAN
    PROVE  [runs EXCEPT ![r].discovered = @ \/ d] \in [Run -> RunRecord]
BY DEF RunRecord

-----------------------------------------------------------------------------
(* Type correctness, one lemma per actor.                                  *)

\* The mailbox changes as its type allows.
LEMMA MailboxTyped ==
    ASSUME TypeOK, Mailbox
    PROVE  TypeOK'
<1>1. MailboxTypeOK'
  <2>. USE MailboxAssumption DEF TypeOK, MailboxTypeOK, HistoryId, Content, Records
  <2>1. ASSUME NEW m \in Message, NEW l \in Label, Arrive(m, l)
        PROVE  MailboxTypeOK'
    BY <2>1 DEF Arrive
  <2>2. ASSUME NEW m \in Message, NEW l \in Label, Relabel(m, l)
        PROVE  MailboxTypeOK'
    BY <2>2 DEF Relabel
  <2>3. ASSUME NEW m \in Message, Remove(m)
        PROVE  MailboxTypeOK'
    BY <2>3 DEF Remove
  <2>4. CASE ForgetHistory  BY <2>4 DEF ForgetHistory
  <2>. QED  BY <2>1, <2>2, <2>3, <2>4 DEF Mailbox
<1>. QED  BY <1>1 DEF TypeOK, Mailbox, syncVars

\* A dispatch of the outbox keeps every type.
LEMMA DispatchTyped ==
    ASSUME TypeOK, DispatchCatchup \/ \E r \in Run : DispatchRun(r)
    PROVE  TypeOK'
<1>1. ASSUME NEW r \in Run, DispatchRun(r)
      PROVE  TypeOK'
  <2>1. exec' \in [Run -> Execution]
    BY <1>1, PhaseTyped DEF TypeOK, DispatchRun, Phase
  <2>2. offered' \subseteq Run  BY <1>1 DEF TypeOK, DispatchRun
  <2>. QED  BY <1>1, <2>1, <2>2 DEF TypeOK, MailboxTypeOK, mailboxVars, DispatchRun
<1>2. CASE DispatchCatchup
  BY <1>2 DEF TypeOK, MailboxTypeOK, mailboxVars, DispatchCatchup, Triggered, Job, JobKind
<1>. QED  BY <1>1, <1>2

\* Discovery and ingestion keep every type.
LEMMA WorkflowTyped ==
    ASSUME TypeOK, NEW r \in Run, Workflow(r)
    PROVE  TypeOK'
<1>. USE DEF TypeOK, MailboxTypeOK, mailboxVars
<1>1. CASE PageStart(r)
  <2>1. exec' \in [Run -> Execution]  BY <1>1, PhaseTyped DEF PageStart, Phase
  <2>. QED  BY <1>1, <2>1 DEF PageStart
<1>2. CASE PageState(r)
  <2>1. exec' \in [Run -> Execution]  BY <1>2, PhaseTyped DEF PageState, Phase
  <2>2. replica' \in Replica
    BY <1>2 DEF PageState, SetReplicaState, Replica, ReplicaState
  <2>. QED  BY <1>2, <2>1, <2>2 DEF PageState
<1>3. ASSUME NEW page \in SUBSET Thread, NEW isLast \in BOOLEAN, PageRecord(r, page, isLast)
      PROVE  TypeOK'
  <2>1. items' \in [Run -> [Thread -> ItemStatus]]
    <3>1. [t \in Thread |-> IF t \in page /\ items[r][t] = "none" THEN "open" ELSE items[r][t]]
            \in [Thread -> ItemStatus]
      BY DEF ItemStatus
    <3>. QED  BY <1>3, <3>1 DEF PageRecord
  <2>2. runs' \in [Run -> RunRecord] /\ exec' \in [Run -> Execution]
    <3>1. CASE Active(r)
      <4>1. runs' = [runs EXCEPT ![r].discovered = @ \/ isLast]
        BY ONLY <1>3, <3>1 DEF PageRecord
      <4>2. runs' \in [Run -> RunRecord]  BY <4>1, DiscoveredTyped
      <4>3. exec' = [exec EXCEPT ![r] =
               [phase |-> "ingest", listed |-> @.listed \union page, last |-> isLast,
                owed |-> {t \in page : items'[r][t] = "open"}]]
        BY ONLY <1>3, <3>1 DEF PageRecord
      <4>4. exec[r].listed \union page \in SUBSET Thread  BY DEF Execution
      <4>5. [phase |-> "ingest", listed |-> exec[r].listed \union page, last |-> isLast,
             owed |-> {t \in page : items'[r][t] = "open"}] \in Execution
        BY <4>4 DEF Execution, Phase
      <4>6. exec' \in [Run -> Execution]
        BY ONLY <4>3, <4>5, exec \in [Run -> Execution]
      <4>. QED  BY <4>2, <4>6
    <3>2. CASE ~Active(r)
      <4>1. exec' = [exec EXCEPT ![r].phase = "superseded"] /\ runs' = runs
        BY ONLY <1>3, <3>2 DEF PageRecord
      <4>. QED  BY <4>1, PhaseTyped DEF Phase
    <3>. QED  BY <3>1, <3>2
  <2>. QED  BY <1>3, <2>1, <2>2 DEF PageRecord
<1>4. ASSUME NEW t \in Thread, IngestFetch(r, t)
      PROVE  TypeOK'
  <2>1. [m \in Message |-> IF ThreadOf[m] = t THEN mail[m] ELSE Absent]
          \in [Message -> Content]
    BY DEF Content
  <2>2. fetches' \subseteq Fetch  BY <1>4, <2>1 DEF IngestFetch, Fetch
  <2>. QED  BY <1>4, <2>2 DEF IngestFetch
<1>5. CASE IngestReturn(r)
  <2>. DEFINE p == IF ~Active(r) THEN "superseded"
                   ELSE IF exec[r].last THEN "finalize" ELSE "discover"
  <2>1. p \in Phase  BY DEF Phase
  <2>2. [exec EXCEPT ![r].owed = {}, ![r].phase = p] \in [Run -> Execution]
    BY ONLY <2>1, PageReturnTyped, exec \in [Run -> Execution]
  <2>3. exec' \in [Run -> Execution]  BY <1>5, <2>2 DEF IngestReturn
  <2>. QED  BY <1>5, <2>3 DEF IngestReturn
<1>. QED  BY <1>1, <1>2, <1>3, <1>4, <1>5 DEF Workflow

\* Storing what an attempt fetched keeps every type.
LEMMA StoreTyped ==
    ASSUME TypeOK, Store
    PROVE  TypeOK'
<1>1. PICK f \in fetches : IngestStore(f)  BY DEF Store
<1>2. f \in Fetch  BY DEF TypeOK
<1>3. stored' \in [Message -> Content]
  BY <1>1, <1>2 DEF TypeOK, IngestStore, Fetch
<1>4. items' \in [Run -> [Thread -> ItemStatus]]
  BY <1>1, <1>2 DEF TypeOK, IngestStore, Fetch, ItemStatus
<1>. QED  BY <1>1, <1>3, <1>4 DEF TypeOK, MailboxTypeOK, mailboxVars, IngestStore

\* A pass that is taken up, and the job it is taken up for, are of their types.
LEMMA CatchUpTyped ==
    ASSUME TypeOK, NEW k \in JobKind, CatchUp(k)
    PROVE  TypeOK'
<1>1. CASE CatchUpReplay(k)
  <2>1. job' \in [JobKind -> Job]
    BY <1>1 DEF TypeOK, CatchUpReplay, Due, Taken, Job
  <2>2. CurrentCursor \in HistoryId /\ ReplayStart \in HistoryId
    BY <1>1, CursorType, ReplayStartType DEF TypeOK, CatchUpReplay
  <2>3. k \in {"none", "entity", "renewal", "finalize"} /\ replica.state \in ReplicaState
    BY DEF JobKind, TypeOK, Replica
  <2>4. pass' \in Pass  BY <1>1, <2>2, <2>3, NoPassType DEF CatchUpReplay, Pass
  <2>. QED  BY <1>1, <2>1, <2>4 DEF TypeOK, MailboxTypeOK, mailboxVars, CatchUpReplay
<1>2. CASE CatchUpRepair(k)
  <2>1. job' \in [JobKind -> Job]
    BY <1>2 DEF TypeOK, CatchUpRepair, Due, Taken, Job
  <2>2. k \in {"none", "entity", "renewal", "finalize"} /\ head \in HistoryId
    BY DEF JobKind, TypeOK, MailboxTypeOK
  <2>3. pass' \in Pass  BY <1>2, <2>2, NoPassType DEF CatchUpRepair, Pass
  <2>. QED  BY <1>2, <2>1, <2>3 DEF TypeOK, MailboxTypeOK, mailboxVars, CatchUpRepair
<1>3. CASE CatchUpDefer(k)
  <2>1. job' \in [JobKind -> Job]  BY <1>3 DEF TypeOK, CatchUpDefer, Job
  <2>. QED  BY <1>3, <2>1 DEF TypeOK, MailboxTypeOK, mailboxVars, CatchUpDefer
<1>. QED  BY <1>1, <1>2, <1>3 DEF CatchUp

\* A repair run is created, reused or refused within the types.
LEMMA CreateRepairRunTyped ==
    ASSUME TypeOK, NEW start \in HistoryId, CreateRepairRun(start)
    PROVE  replica' \in Replica /\ runs' \in [Run -> RunRecord] /\ offered' \subseteq Run
<1>. USE DEF TypeOK, Replica, ReplicaState
<1>1. CASE Owned  BY <1>1 DEF CreateRepairRun
<1>2. CASE ~Owned /\ UNCHANGED <<replica, runs, offered>>  BY <1>2
<1>3. CASE ~Owned /\ ~UNCHANGED <<replica, runs, offered>>
  <2>1. PICK r \in Run :
           /\ runs' = [runs EXCEPT ![r] = [type |-> "repair", start |-> start,
                                           status |-> "active", discovered |-> FALSE]]
           /\ Offer(r)
    BY <1>3 DEF CreateRepairRun
  <2>2. replica' = [replica EXCEPT !.state = "repairing"]
    BY <1>3 DEF CreateRepairRun
  <2>. QED  BY <2>1, <2>2 DEF Offer, RunRecord
<1>. QED  BY <1>1, <1>2, <1>3

\* What a step of the holder of the lock leaves of its pass and its job.
LEMMA AbortTyped ==
    ASSUME TypeOK, Abort
    PROVE  pass' \in Pass /\ job' \in [JobKind -> Job]
BY NoPassType DEF TypeOK, Abort, Job

\* What an apply of a change leaves of a stored message is content.
LEMMA AppliedTyped ==
    ASSUME NEW change \in Change, NEW current \in Content
    PROVE  Applied(change, current) \in Content
BY DEF Applied, Change, Content

\* A history range is a change for every message.
LEMMA HistoryBatchTyped ==
    ASSUME TypeOK, NEW start \in HistoryId
    PROVE  HistoryBatch(start) \in [Message -> Change]
BY DEF TypeOK, MailboxTypeOK, HistoryBatch, Change, Keep, Op, Content

\* A catch-up key is a key.
LEMMA KeyTyped ==
    ASSUME NEW source \in {"push", "postReady", "recovery", "ready", "snapshotting", "repairing"},
           NEW r \in 0 .. MaxRuns, NEW n \in HistoryId
    PROVE  <<source, r, n>> \in Key
BY DEF Key

\* Reading history and fetching messages keep every type.
LEMMA ReadTyped ==
    ASSUME TypeOK, PassRead \/ PassReadExpired \/ PassFetch \/ PassRevoked
    PROVE  TypeOK'
<1>1. CASE PassRead
  <2>. DEFINE batch == HistoryBatch(pass.start)
              next == IF AwaitsFetch(batch) THEN "fetch" ELSE "apply"
  <2>1. batch \in [Message -> Change]  BY HistoryBatchTyped DEF TypeOK, Pass
  <2>2. head \in HistoryId  BY DEF TypeOK, MailboxTypeOK
  <2>3. next \in {"fetch", "apply"}  OBVIOUS
  <2>4. pass' = [pass EXCEPT !.batch = batch, !.upto = head, !.step = next]
    BY <1>1 DEF PassRead, HistoryEnd
  <2>. HIDE DEF batch, next
  <2>5. pass' \in Pass  BY <2>1, <2>2, <2>3, <2>4 DEF TypeOK, Pass
  <2>. QED  BY <1>1, <2>5 DEF TypeOK, MailboxTypeOK, mailboxVars, PassRead
<1>2. CASE PassReadExpired
  <2>1. pass' \in Pass /\ job' \in [JobKind -> Job]
    <3>1. CASE pass.after = "ready"
      <4>1. head \in HistoryId  BY DEF TypeOK, MailboxTypeOK
      <4>2. pass' = [pass EXCEPT !.step = "repair", !.upto = head] /\ job' = job
        BY <1>2, <3>1 DEF PassReadExpired
      <4>3. pass' \in Pass  BY <4>1, <4>2 DEF TypeOK, Pass
      <4>. QED  BY ONLY <4>2, <4>3, TypeOK DEF TypeOK
    <3>2. CASE pass.after # "ready"
      BY <1>2, <3>2, AbortTyped DEF PassReadExpired
    <3>. QED  BY <3>1, <3>2
  <2>. QED  BY <1>2, <2>1 DEF TypeOK, MailboxTypeOK, mailboxVars, PassReadExpired
<1>3. CASE PassFetch
  <2>. DEFINE batch ==
          [m \in Message |-> IF pass.batch[m].op = "fetch" THEN FetchedChange(m)
                                                          ELSE pass.batch[m]]
  <2>1. batch \in [Message -> Change]
    BY DEF TypeOK, MailboxTypeOK, Pass, Change, Op, Content, FetchedChange
  <2>2. pass' = [pass EXCEPT !.step = "apply", !.batch = batch]
    BY <1>3 DEF PassFetch
  <2>. HIDE DEF batch
  <2>3. pass' \in Pass  BY <2>1, <2>2 DEF TypeOK, Pass
  <2>. QED  BY <1>3, <2>3 DEF TypeOK, MailboxTypeOK, mailboxVars, PassFetch
<1>4. CASE PassRevoked
  <2>1. job' \in [JobKind -> Job]  BY <1>4 DEF TypeOK, PassRevoked, Job
  <2>. QED  BY <1>4, <2>1, NoPassType DEF TypeOK, MailboxTypeOK, mailboxVars, PassRevoked
<1>. QED  BY <1>1, <1>2, <1>3, <1>4

\* Applying a range keeps every type.
LEMMA ApplyTyped ==
    ASSUME TypeOK, PassApply
    PROVE  TypeOK'
<1>1. CASE Connected /\ CurrentCursor = pass.expected
  <2>1. stored' \in [Message -> Content]
    BY <1>1, AppliedTyped DEF PassApply, TypeOK, Pass
  <2>2. /\ pass.upto \in HistoryId /\ pass.after \in ReplicaState
        /\ PendingAfter(pass.upto) \in HistoryId
    BY PendingAfterType DEF TypeOK, Pass
  <2>3. replica' \in Replica  BY <1>1, <2>2 DEF PassApply, Replica
  <2>4. NoBatch \in [Message -> Change]  BY NoPassType DEF NoPass, Pass
  <2>5. PICK next \in {"read", "ready", "again", "return"} :
           pass' = [pass EXCEPT !.batch = NoBatch, !.expected = pass.upto,
                                !.start = pass.upto, !.step = next]
    BY <1>1 DEF PassApply
  <2>6. pass' \in Pass  BY <2>2, <2>4, <2>5 DEF TypeOK, Pass
  <2>. QED  BY <1>1, <2>1, <2>3, <2>6 DEF TypeOK, MailboxTypeOK, mailboxVars, PassApply
<1>2. CASE ~(Connected /\ CurrentCursor = pass.expected)
  <2>1. NoBatch \in [Message -> Change]  BY NoPassType DEF NoPass, Pass
  <2>2. pass' \in Pass /\ job' \in [JobKind -> Job]
    <3>1. CASE pass.kind = "finalize"  BY <1>2, <3>1, AbortTyped DEF PassApply
    <3>2. CASE pass.kind # "finalize"
      <4>1. pass' = [pass EXCEPT !.batch = NoBatch, !.step = "return"] /\ job' = job
        BY <1>2, <3>2 DEF PassApply
      <4>. QED  BY <2>1, <4>1 DEF TypeOK, Pass
    <3>. QED  BY <3>1, <3>2
  <2>. QED  BY <1>2, <2>2 DEF TypeOK, MailboxTypeOK, mailboxVars, PassApply
<1>. QED  BY <1>1, <1>2

\* A repair that a pass starts, and the return of a pass, keep every type.
LEMMA ReturnTyped ==
    ASSUME TypeOK, StartRepair \/ PassReturn
    PROVE  TypeOK'
<1>1. CASE StartRepair
  <2>1. replica' \in Replica /\ runs' \in [Run -> RunRecord] /\ offered' \subseteq Run
    BY <1>1, CreateRepairRunTyped DEF StartRepair, TypeOK, Pass
  <2>2. pass' \in Pass  BY <1>1 DEF StartRepair, TypeOK, Pass
  <2>. QED  BY <1>1, <2>1, <2>2 DEF TypeOK, MailboxTypeOK, mailboxVars, StartRepair
<1>2. CASE PassReturn
  <2>1. \A k \in JobKind : TodoAfter(k) \in BOOLEAN
    BY DEF TodoAfter, TypeOK, Job
  <2>2. job' \in [JobKind -> Job]  BY <1>2, <2>1 DEF TypeOK, PassReturn, Job
  <2>. QED  BY <1>2, <2>2, NoPassType DEF TypeOK, MailboxTypeOK, mailboxVars, PassReturn
<1>. QED  BY <1>1, <1>2

\* The finalization of a run keeps every type.
LEMMA FinalizeTyped ==
    ASSUME TypeOK,
           \/ \E r \in Run : FinalizeStart(r)
           \/ FinalizeState \/ MarkReady \/ CompleteRun
           \/ \E m \in Message : DropMessage(m)
    PROVE  TypeOK'
<1>1. ASSUME NEW r \in Run, FinalizeStart(r)
      PROVE  TypeOK'
  <2>1. CurrentCursor \in HistoryId /\ runs[r].start \in HistoryId /\ r \in 0 .. MaxRuns
    BY CursorType DEF TypeOK, RunRecord, Run
  <2>2. pass' \in Pass
    <3>. DEFINE next == [NoPass EXCEPT !.kind = "finalize", !.step = "state", !.run = r,
                                       !.expected = CurrentCursor, !.start = runs[r].start]
    <3>1. pass' = pass \/ pass' = next
      BY <1>1 DEF FinalizeStart, FinalReplayStart
    <3>2. next \in Pass  BY <2>1, NoPassType DEF Pass
    <3>. HIDE DEF next
    <3>. QED  BY ONLY <3>1, <3>2, TypeOK DEF TypeOK
  <2>3. exec' \in [Run -> Execution]
    <3>1. exec' = exec \/ exec' = [exec EXCEPT ![r].phase = "superseded"]
      BY <1>1 DEF FinalizeStart
    <3>2. [exec EXCEPT ![r].phase = "superseded"] \in [Run -> Execution]
      BY PhaseTyped DEF TypeOK, Phase
    <3>. QED  BY ONLY <3>1, <3>2, TypeOK DEF TypeOK
  <2>. QED  BY <1>1, <2>2, <2>3 DEF TypeOK, MailboxTypeOK, mailboxVars, FinalizeStart
<1>2. CASE FinalizeState
  <2>1. PICK after \in {"repairing", "replaying"}, drop \in SUBSET Message,
             next \in {"read", "drop"} :
          /\ SetReplicaState(after)
          /\ pass' = [pass EXCEPT !.after = after, !.drop = drop, !.step = next]
    BY <1>2 DEF FinalizeState, Undiscovered
  <2>2. pass' \in Pass  BY <2>1 DEF TypeOK, Pass, ReplicaState
  <2>3. replica' \in Replica
    BY <2>1 DEF TypeOK, SetReplicaState, Replica, ReplicaState
  <2>. QED  BY <1>2, <2>2, <2>3 DEF TypeOK, MailboxTypeOK, mailboxVars, FinalizeState
<1>3. CASE MarkReady
  <2>1. ReadyCursor \in HistoryId /\ PendingAfter(pass.upto) \in HistoryId
    BY PendingAfterType DEF TypeOK, Pass, ReadyCursor
  <2>2. replica' \in Replica
    BY <1>3, <2>1 DEF MarkReady, TypeOK, Replica, ReplicaState
  <2>3. keys' \subseteq Key /\ signalled' \in BOOLEAN
    <3>1. replica'.pending \in HistoryId  BY <2>2 DEF Replica
    <3>2. <<"postReady", 0, replica'.pending>> \in Key
      BY <3>1, KeyTyped, SyncAssumption
    <3>. QED  BY <1>3, <3>2 DEF MarkReady, EnqueueCatchup, TypeOK
  <2>4. pass' \in Pass  BY <1>3 DEF MarkReady, TypeOK, Pass
  <2>. QED  BY <1>3, <2>2, <2>3, <2>4 DEF TypeOK, MailboxTypeOK, mailboxVars, MarkReady
<1>4. CASE CompleteRun
  <2>1. runs' \in [Run -> RunRecord]
    <3>1. runs' = runs \/ runs' = [runs EXCEPT ![pass.run].status = "complete"]
      BY <1>4 DEF CompleteRun
    <3>2. [runs EXCEPT ![pass.run].status = "complete"] \in [Run -> RunRecord]
      BY StatusTyped DEF TypeOK
    <3>. QED  BY ONLY <3>1, <3>2, TypeOK DEF TypeOK
  <2>2. exec' \in [Run -> Execution]
    <3>1. PICK p \in {"done", "superseded"} :
             exec' = exec \/ exec' = [exec EXCEPT ![pass.run].phase = p]
      BY <1>4 DEF CompleteRun
    <3>2. [exec EXCEPT ![pass.run].phase = p] \in [Run -> Execution]
      BY PhaseTyped DEF TypeOK, Phase
    <3>. QED  BY ONLY <3>1, <3>2, TypeOK DEF TypeOK
  <2>. QED  BY <1>4, <2>1, <2>2, NoPassType DEF TypeOK, MailboxTypeOK, mailboxVars, CompleteRun
<1>5. ASSUME NEW m \in Message, DropMessage(m)
      PROVE  TypeOK'
  <2>1. stored' \in [Message -> Content]
    BY <1>5 DEF DropMessage, TypeOK, Content
  <2>2. pass' \in Pass  BY <1>5 DEF DropMessage, TypeOK, Pass
  <2>. QED  BY <1>5, <2>1, <2>2 DEF TypeOK, MailboxTypeOK, mailboxVars, DropMessage
<1>. QED  BY <1>1, <1>2, <1>3, <1>4, <1>5

\* A mishap that is spent is still counted.
LEMMA SpendTyped ==
    ASSUME TypeOK, NEW bound,
           NEW counter \in {"faults", "deaths", "revocations", "triggers", "boots"},
           Spend(bound, counter)
    PROVE  spent' \in [faults : Nat, deaths : Nat, revocations : Nat,
                       triggers : Nat, boots : Nat]
BY DEF TypeOK, Spend

\* Failures keep every type.
LEMMA FaultTyped ==
    ASSUME TypeOK, Fault
    PROVE  TypeOK'
<1>1. ASSUME NEW r \in Run, PageFails(r)
      PROVE  TypeOK'
  <2>1. exec' \in [Run -> Execution]
    BY <1>1, PhaseTyped DEF PageFails, TypeOK, Phase
  <2>. QED  BY <1>1, <2>1, SpendTyped DEF TypeOK, MailboxTypeOK, mailboxVars, PageFails
<1>2. ASSUME NEW r \in Run, RunExecutionFails(r)
      PROVE  TypeOK'
  <2>1. exec' \in [Run -> Execution]
    BY <1>2 DEF RunExecutionFails, TypeOK, Execution, Phase
  <2>. QED  BY <1>2, <2>1, SpendTyped DEF TypeOK, MailboxTypeOK, mailboxVars, RunExecutionFails
<1>3. ASSUME NEW f \in fetches, IngestFails(f)
      PROVE  TypeOK'
  BY <1>3, SpendTyped DEF TypeOK, MailboxTypeOK, mailboxVars, IngestFails
<1>4. CASE PassFails
  BY <1>4, AbortTyped, SpendTyped DEF TypeOK, MailboxTypeOK, mailboxVars, PassFails
<1>5. CASE RenewalFails
  <2>1. job' \in [JobKind -> Job]
    BY <1>5 DEF RenewalFails, TypeOK, Job, JobKind
  <2>2. replica' \in Replica
    BY <1>5 DEF RenewalFails, TypeOK, Replica, ReplicaState
  <2>. QED  BY <1>5, <2>1, <2>2, SpendTyped DEF TypeOK, MailboxTypeOK, mailboxVars, RenewalFails
<1>6. CASE EntityFails
  <2>1. job' \in [JobKind -> Job]  BY <1>6 DEF EntityFails, TypeOK, Job, JobKind
  <2>. QED  BY <1>6, <2>1, SpendTyped DEF TypeOK, MailboxTypeOK, mailboxVars, EntityFails
<1>. QED  BY <1>1, <1>2, <1>3, <1>4, <1>5, <1>6 DEF Fault

\* What reaches the account from outside keeps every type.
LEMMA OutsideTyped ==
    ASSUME TypeOK, Outside
    PROVE  TypeOK'
<1>1. ASSUME NEW n \in 2 .. head, Push(n)
      PROVE  TypeOK'
  <2>1. n \in HistoryId
    BY MailboxAssumption DEF TypeOK, MailboxTypeOK, HistoryId
  <2>2. replica' \in Replica
    BY <1>1, <2>1, HigherType DEF Push, TypeOK, Replica
  <2>3. <<"push", 0, replica'.pending>> \in Key
    BY <2>2, KeyTyped, SyncAssumption DEF Replica
  <2>4. keys' \subseteq Key /\ signalled' \in BOOLEAN
    BY <1>1, <2>3 DEF Push, EnqueueCatchup, TypeOK
  <2>. QED  BY <1>1, <2>2, <2>4 DEF TypeOK, MailboxTypeOK, mailboxVars, Push
<1>2. CASE RequestCatchup
  BY <1>2, SpendTyped DEF TypeOK, MailboxTypeOK, mailboxVars, RequestCatchup
<1>3. CASE RenewalDue
  <2>1. job' \in [JobKind -> Job]  BY <1>3 DEF RenewalDue, TypeOK, Job
  <2>. QED  BY <1>3, <2>1, SpendTyped DEF TypeOK, MailboxTypeOK, mailboxVars, RenewalDue
<1>4. CASE Revoke
  <2>1. runs' \in [Run -> RunRecord]
    <3>1. \A q \in Run : [runs[q] EXCEPT !.status = "failed"] \in RunRecord
      BY DEF TypeOK, RunRecord
    <3>. QED  BY <1>4, <3>1 DEF Revoke, TypeOK
  <2>2. items' \in [Run -> [Thread -> ItemStatus]]
    BY <1>4 DEF Revoke, TypeOK, ItemStatus
  <2>3. replica' \in Replica  BY <1>4 DEF Revoke, TypeOK, Replica, ReplicaState
  <2>4. job' \in [JobKind -> Job]  BY <1>4 DEF Revoke, TypeOK, Job, JobKind
  <2>. QED
    BY <1>4, <2>1, <2>2, <2>3, <2>4, SpendTyped DEF TypeOK, MailboxTypeOK, mailboxVars, Revoke
<1>5. CASE ReconnectProfile
  BY <1>5 DEF TypeOK, MailboxTypeOK, mailboxVars, ReconnectProfile
<1>6. CASE Reconnect
  <2>1. replica' \in Replica /\ runs' \in [Run -> RunRecord] /\ offered' \subseteq Run
    BY <1>6, CreateRepairRunTyped DEF Reconnect, TypeOK
  <2>2. oauth' \in HistoryId
    BY <1>6, MailboxAssumption DEF Reconnect, HistoryId
  <2>. QED  BY <1>6, <2>1, <2>2 DEF TypeOK, MailboxTypeOK, mailboxVars, Reconnect
<1>7. CASE Boot
  <2>1. RecoveryKeys \subseteq Key
    BY KeyTyped, MailboxAssumption DEF RecoveryKeys, Run, HistoryId
  <2>2. PendingKeys \subseteq Key
    <3>1. CASE Replayable
      <4>1. replica.pending \in HistoryId  BY DEF TypeOK, Replica
      <4>2. (IF replica.state = "repairing" THEN CHOOSE r \in RepairRuns : TRUE ELSE 0)
              \in 0 .. MaxRuns
        BY <3>1, RepairRunIsRun, SyncAssumption DEF Replayable, Run
      <4>3. replica.state \in {"ready", "snapshotting", "repairing"}
        BY <3>1 DEF Replayable
      <4>. QED  BY <4>1, <4>2, <4>3, KeyTyped DEF PendingKeys
    <3>2. CASE ~Replayable  BY <3>2 DEF PendingKeys
    <3>. QED  BY <3>1, <3>2
  <2>3. job' \in [JobKind -> Job]  BY <1>7 DEF Boot, TypeOK, Job
  <2>4. offered' \subseteq Run  BY <1>7 DEF Boot, TypeOK, Readmitted, ActiveRuns
  <2>5. keys' \subseteq Key  BY <1>7, <2>1, <2>2 DEF Boot, TypeOK
  <2>. QED  BY <1>7, <2>3, <2>4, <2>5, SpendTyped DEF TypeOK, MailboxTypeOK, mailboxVars, Boot
<1>. QED  BY <1>1, <1>2, <1>3, <1>4, <1>5, <1>6, <1>7 DEF Outside

\* Every step of the specification keeps every type.
LEMMA TypeStep ==
    ASSUME TypeOK, [Next]_vars
    PROVE  TypeOK'
<1>1. CASE UNCHANGED vars
  BY <1>1 DEF TypeOK, MailboxTypeOK, vars, mailboxVars, syncVars
<1>2. ASSUME NEW r \in Run, DispatchRun(r) \/ Workflow(r) \/ FinalizeStart(r)
      PROVE  TypeOK'
  BY <1>2, DispatchTyped, WorkflowTyped, FinalizeTyped
<1>3. CASE PassStep
  BY <1>3, ReadTyped, ApplyTyped, ReturnTyped, FinalizeTyped DEF PassStep
<1>4. CASE Mailbox \/ DispatchCatchup \/ Store \/ Fault \/ Outside
  BY <1>4, MailboxTyped, DispatchTyped, StoreTyped, FaultTyped, OutsideTyped
<1>. QED  BY <1>1, <1>2, <1>3, <1>4, CatchUpTyped DEF Next

\* A connection starts well typed.
LEMMA TypeInit == Init => TypeOK
<1>. SUFFICES ASSUME Init PROVE TypeOK
  OBVIOUS
<1>1. MailboxTypeOK
  BY MailboxAssumption
     DEF Init, MailboxInit, MailboxTypeOK, Content, HistoryId, Records, NoRecords
<1>2. replica \in Replica /\ stored \in [Message -> Content] /\ oauth \in HistoryId
  BY MailboxAssumption DEF Init, Replica, ReplicaState, Content, HistoryId
<1>3. runs \in [Run -> RunRecord]
  BY MailboxAssumption DEF Init, Run, RunRecord, HistoryId, InitialHistoryId
<1>4. items \in [Run -> [Thread -> ItemStatus]] /\ offered \subseteq Run
  BY SyncAssumption DEF Init, Run, ItemStatus
<1>5. exec \in [Run -> Execution]  BY DEF Init, Execution, Phase
<1>6. job \in [JobKind -> Job]  BY DEF Init, Job
<1>. QED  BY <1>1, <1>2, <1>3, <1>4, <1>5, <1>6, NoPassType DEF Init, TypeOK

\* Every variable keeps its type, whatever the size of the mailbox and the
\* number of runs, faults, revocations and restarts.
THEOREM TypeCorrect == Spec => []TypeOK
BY TypeInit, TypeStep, PTL DEF Spec

-----------------------------------------------------------------------------
(* One run owns the account.                                               *)

\* A repair run becomes active only when none is.
LEMMA CreateRepairRunOwns ==
    ASSUME TypeOK, NEW start, CreateRepairRun(start)
    PROVE  \/ ActiveRuns' = ActiveRuns
           \/ ActiveRuns = {} /\ \E r \in Run : ActiveRuns' = {r}
<1>1. CASE UNCHANGED runs  BY <1>1 DEF ActiveRuns, Active
<1>2. CASE ~UNCHANGED runs
  <2>1. ~Owned  BY <1>2 DEF CreateRepairRun
  <2>2. PICK r \in Run :
           runs' = [runs EXCEPT ![r] = [type |-> "repair", start |-> start,
                                        status |-> "active", discovered |-> FALSE]]
    BY <1>2 DEF CreateRepairRun
  <2>3. ActiveRuns' = {r}  BY <2>1, <2>2 DEF TypeOK, Owned, ActiveRuns, Active
  <2>. QED  BY <2>1, <2>3 DEF Owned
<1>. QED  BY <1>1, <1>2

\* No step makes a second run active, and none revives a run that has ended.
LEMMA OwnerStep ==
    ASSUME TypeOK, [Next]_vars
    PROVE  \/ ActiveRuns' \subseteq ActiveRuns
           \/ ActiveRuns = {} /\ \E r \in Run : ActiveRuns' = {r}
<1>1. CASE UNCHANGED runs  BY <1>1 DEF ActiveRuns, Active
<1>2. ASSUME NEW r \in Run, NEW page \in SUBSET Thread, NEW isLast \in BOOLEAN,
             PageRecord(r, page, isLast)
      PROVE  ActiveRuns' \subseteq ActiveRuns
  <2>. DEFINE next == [runs EXCEPT ![r].discovered = @ \/ isLast]
  <2>1. runs' = runs \/ runs' = next  BY <1>2 DEF PageRecord
  <2>2. \A q \in Run : next[q].status = runs[q].status  BY DEF TypeOK, RunRecord
  <2>. HIDE DEF next
  <2>. QED  BY ONLY <2>1, <2>2 DEF ActiveRuns, Active
<1>3. CASE StartRepair \/ Reconnect
  BY <1>3, CreateRepairRunOwns DEF StartRepair, Reconnect
<1>4. CASE CompleteRun
  <2>. DEFINE next == [runs EXCEPT ![pass.run].status = "complete"]
  <2>1. runs' = runs \/ runs' = next  BY <1>4 DEF CompleteRun
  <2>2. \A q \in Run : next[q].status \in {runs[q].status, "complete"}
    BY DEF TypeOK, RunRecord
  <2>. HIDE DEF next
  <2>. QED  BY ONLY <2>1, <2>2 DEF ActiveRuns, Active
<1>5. CASE Revoke  BY <1>5 DEF Revoke, TypeOK, RunRecord, ActiveRuns, Active
<1>6. ASSUME Next, ~UNCHANGED runs
      PROVE  \/ StartRepair \/ Reconnect \/ CompleteRun \/ Revoke
             \/ \E r \in Run, page \in SUBSET Thread, isLast \in BOOLEAN :
                   PageRecord(r, page, isLast)
  <2>1. CASE Mailbox \/ DispatchCatchup \/ Store \/ Fault
    BY <1>6, <2>1 DEF Mailbox, syncVars, DispatchCatchup, Store, IngestStore, Fault, PageFails,
       RunExecutionFails, IngestFails, PassFails, RenewalFails, EntityFails
  <2>2. ASSUME NEW r \in Run, DispatchRun(r) \/ Workflow(r) \/ FinalizeStart(r)
        PROVE  \E page \in SUBSET Thread, isLast \in BOOLEAN : PageRecord(r, page, isLast)
    BY <1>6, <2>2 DEF DispatchRun, Workflow, PageStart, PageState, IngestFetch, IngestReturn,
       FinalizeStart
  <2>3. ASSUME NEW k \in JobKind, CatchUp(k)
        PROVE  FALSE
    BY <1>6, <2>3 DEF CatchUp, CatchUpReplay, CatchUpRepair, CatchUpDefer
  <2>4. CASE PassStep
    BY <1>6, <2>4 DEF PassStep, PassRead, PassReadExpired, PassFetch, PassRevoked, PassApply,
       PassReturn, FinalizeState, MarkReady, DropMessage
  <2>5. CASE Outside
    BY <1>6, <2>5 DEF Outside, Push, RequestCatchup, RenewalDue, ReconnectProfile, Boot
  <2>. QED  BY <1>6, <2>1, <2>2, <2>3, <2>4, <2>5 DEF Next
<1>. QED  BY <1>1, <1>2, <1>3, <1>4, <1>5, <1>6 DEF vars, syncVars

\* createMailSyncRun leaves one owner, whichever of a reconnection, an expired
\* history and a renewal asks for the repair, and however often.
THEOREM OneOwner == Spec => []OneActiveRun
<1>1. Init => OneActiveRun
  <2>. SUFFICES ASSUME Init PROVE \A r \in Run : Active(r) => r = 1
    BY DEF OneActiveRun, ActiveRuns
  <2>. QED  BY DEF Init, Active
<1>2. TypeOK /\ OneActiveRun /\ [Next]_vars => OneActiveRun'
  <2>. SUFFICES ASSUME TypeOK, OneActiveRun, [Next]_vars PROVE OneActiveRun'
    OBVIOUS
  <2>1. CASE ActiveRuns' \subseteq ActiveRuns  BY <2>1 DEF OneActiveRun
  <2>2. CASE \E r \in Run : ActiveRuns' = {r}  BY <2>2 DEF OneActiveRun
  <2>. QED  BY <2>1, <2>2, OwnerStep
<1>. QED  BY <1>1, <1>2, TypeCorrect, PTL DEF Spec

-----------------------------------------------------------------------------
(* The cursor and the notifications.                                       *)

\* The strengthening that the promises about the cursor need: the replica is
\* never ahead of the mailbox, and what a pass has read ends at or after the
\* cursor it will replace.
CursorBehind ==
    /\ CurrentCursor <= head
    /\ pass.step \in {"fetch", "apply", "ready"} =>
          CurrentCursor <= pass.upto /\ pass.upto <= head

\* What a step may do to the cursors and to a pass that has read a range.
CursorFrame ==
    /\ replica'.cursor = replica.cursor
    /\ replica'.pending = replica.pending \/ \E n \in 2 .. head : Push(n)
    /\ head' >= head
    /\ pass'.step \in {"fetch", "apply", "ready"} => pass.step \in {"fetch", "apply", "ready"}
                                                    /\ pass'.upto = pass.upto

\* A step within the frame keeps the cursor behind.
LEMMA FrameKeeps ==
    ASSUME TypeOK, TypeOK', CursorBehind, CursorFrame
    PROVE  CursorBehind' /\ CurrentCursor' = CurrentCursor
<1>1. CurrentCursor' = CurrentCursor  BY DEF CursorFrame, CurrentCursor
<1>2. CurrentCursor \in Nat /\ head \in Nat /\ head' \in Nat
  BY CursorType DEF TypeOK, MailboxTypeOK, HistoryId
<1>3. pass.upto \in Nat  BY DEF TypeOK, Pass, HistoryId
<1>. QED  BY <1>1, <1>2, <1>3 DEF CursorBehind, CursorFrame

\* A repair run leaves the cursor and the pending cursor alone.
LEMMA CreateRepairRunFrame ==
    ASSUME TypeOK, NEW start, CreateRepairRun(start)
    PROVE  replica'.cursor = replica.cursor /\ replica'.pending = replica.pending
BY DEF CreateRepairRun, TypeOK, Replica

\* All steps but the reading and the applying of a range are within the frame.
LEMMA OthersInFrame ==
    ASSUME TypeOK, [Next]_vars, ~PassRead, ~PassApply, ~MarkReady
    PROVE  CursorFrame
<1>. USE DEF CursorFrame, mailboxVars
<1>1. head \in Nat /\ replica \in Replica /\ pass \in Pass
  BY DEF TypeOK, MailboxTypeOK, HistoryId
<1>2. CASE UNCHANGED vars  BY <1>1, <1>2 DEF vars, syncVars
<1>3. CASE Mailbox
  BY <1>1, <1>3 DEF Mailbox, syncVars, Arrive, Relabel, Remove, ForgetHistory
<1>4. CASE DispatchCatchup \/ Store
  <2>1. head' = head /\ replica' = replica /\ pass' = pass
    BY <1>4 DEF DispatchCatchup, Store, IngestStore
  <2>. QED  BY <1>1, <2>1
<1>5. ASSUME NEW r \in Run, DispatchRun(r) \/ Workflow(r)
      PROVE  CursorFrame
  BY <1>1, <1>5 DEF DispatchRun, Workflow, PageStart, PageState, SetReplicaState, PageRecord,
     IngestFetch, IngestReturn, Replica
<1>6. ASSUME NEW r \in Run, FinalizeStart(r)
      PROVE  CursorFrame
  <2>1. pass' = pass \/ pass'.step = "state"
    BY <1>6, NoPassType DEF FinalizeStart, Pass
  <2>. QED  BY <1>1, <1>6, <2>1 DEF FinalizeStart
<1>7. ASSUME NEW k \in JobKind, CatchUp(k)
      PROVE  CursorFrame
  <2>1. pass' = pass \/ pass'.step \in {"read", "repair"}
    BY <1>7, NoPassType DEF CatchUp, CatchUpReplay, CatchUpRepair, CatchUpDefer, Pass
  <2>2. head' = head /\ replica' = replica
    BY <1>7 DEF CatchUp, CatchUpReplay, CatchUpRepair, CatchUpDefer
  <2>. QED  BY <1>1, <2>1, <2>2
<1>8. CASE StartRepair
  BY <1>1, <1>8, CreateRepairRunFrame DEF StartRepair, Pass
<1>9. CASE PassReadExpired \/ PassFetch \/ PassRevoked \/ PassReturn
  <2>1. \/ pass' = NoPass
        \/ pass'.step = "repair"
        \/ pass'.step = "apply" /\ pass'.upto = pass.upto /\ pass.step = "fetch"
    BY <1>1, <1>9 DEF PassReadExpired, PassFetch, PassRevoked, PassReturn, Abort, Pass
  <2>2. head' = head /\ replica' = replica
    BY <1>9 DEF PassReadExpired, PassFetch, PassRevoked, PassReturn
  <2>. QED  BY <1>1, <2>1, <2>2 DEF NoPass
<1>10. ASSUME FinalizeState \/ CompleteRun \/ \E m \in Message : DropMessage(m)
       PROVE  CursorFrame
  <2>1. CASE FinalizeState
    <3>1. pass'.step \in {"read", "drop"}  BY <1>1, <2>1 DEF FinalizeState, Pass
    <3>. QED  BY <1>1, <2>1, <3>1 DEF FinalizeState, SetReplicaState, Replica
  <2>2. CASE CompleteRun  BY <1>1, <2>2 DEF CompleteRun, NoPass
  <2>3. ASSUME NEW m \in Message, DropMessage(m)
        PROVE  CursorFrame
    <3>1. pass'.step \in {"read", "drop"}  BY <1>1, <2>3 DEF DropMessage, Pass
    <3>. QED  BY <1>1, <2>3, <3>1 DEF DropMessage
  <2>. QED  BY <1>10, <2>1, <2>2, <2>3
<1>11. CASE Fault
  BY <1>1, <1>11 DEF Fault, PageFails, RunExecutionFails, IngestFails, PassFails, Abort,
     RenewalFails, EntityFails, NoPass, Replica
<1>12. CASE Reconnect  BY <1>1, <1>12, CreateRepairRunFrame DEF Reconnect
<1>13. ASSUME (\E n \in 2 .. head : Push(n)) \/ RequestCatchup \/ RenewalDue \/ Revoke
              \/ ReconnectProfile \/ Boot
       PROVE  CursorFrame
  BY <1>1, <1>13 DEF Push, RequestCatchup, RenewalDue, Revoke, ReconnectProfile, Boot, Replica
<1>. QED
  BY <1>2, <1>3, <1>4, <1>5, <1>6, <1>7, <1>8, <1>9, <1>10, <1>11, <1>12, <1>13
     DEF Next, PassStep, Outside

\* A range that is read ends at the head of the mailbox.
LEMMA ReadKeeps ==
    ASSUME TypeOK, CursorBehind, PassRead
    PROVE  CursorBehind' /\ CurrentCursor' = CurrentCursor
<1>1. pass'.upto = head /\ head' = head /\ replica' = replica
  BY DEF PassRead, HistoryEnd, mailboxVars, TypeOK, Pass
<1>2. head \in Nat  BY DEF TypeOK, MailboxTypeOK, HistoryId
<1>. QED  BY <1>1, <1>2 DEF CursorBehind, CurrentCursor

\* A cursor that moves to the end of a range advances, and a notification that
\* was pending stays pending unless the cursor has reached it.
LEMMA CursorWritten ==
    ASSUME TypeOK, CursorBehind, pass.step \in {"apply", "ready"}, head' = head,
           replica'.cursor = pass.upto, replica'.pending = PendingAfter(pass.upto),
           pass'.upto = pass.upto
    PROVE  /\ CursorBehind' /\ CurrentCursor' >= CurrentCursor
           /\ Higher(CurrentCursor, replica.pending) <= Higher(CurrentCursor', replica'.pending)
<1>1. /\ CurrentCursor \in Nat \ {0} /\ head \in Nat
      /\ pass.upto \in Nat /\ replica.pending \in Nat
  BY CursorType DEF TypeOK, MailboxTypeOK, Pass, Replica, HistoryId
<1>2. CurrentCursor <= pass.upto /\ pass.upto <= head  BY DEF CursorBehind
<1>3. CurrentCursor' = pass.upto  BY <1>1, <1>2 DEF CurrentCursor
<1>. QED  BY <1>1, <1>2, <1>3 DEF CursorBehind, Higher, PendingAfter

\* Both writers of the cursor, applyGmailHistoryBatch and markGmailReplicaReady,
\* store the end of the range that was read, or nothing.
LEMMA WriteKeeps ==
    ASSUME TypeOK, CursorBehind, PassApply \/ MarkReady
    PROVE  /\ CursorBehind' /\ CurrentCursor' >= CurrentCursor
           /\ Higher(CurrentCursor, replica.pending) <= Higher(CurrentCursor', replica'.pending)
<1>1. head' = head /\ pass.step \in {"apply", "ready"}
  BY DEF PassApply, MarkReady, mailboxVars
<1>2. CASE PassApply /\ Connected /\ CurrentCursor = pass.expected
  <2>1. pass'.upto = pass.upto  BY <1>2 DEF PassApply, TypeOK, Pass
  <2>2. replica'.cursor = pass.upto /\ replica'.pending = PendingAfter(pass.upto)
    BY <1>2 DEF PassApply
  <2>. QED  BY <1>1, <2>1, <2>2, CursorWritten
<1>3. CASE MarkReady /\ Connected
  <2>1. pass'.upto = pass.upto  BY <1>3 DEF MarkReady, TypeOK, Pass
  <2>2. replica'.cursor = pass.upto /\ replica'.pending = PendingAfter(pass.upto)
    BY <1>3 DEF MarkReady, ReadyCursor
  <2>. QED  BY <1>1, <2>1, <2>2, CursorWritten
<1>4. CASE replica' = replica /\ pass'.step \notin {"fetch", "apply", "ready"}
  <2>1. CurrentCursor' = CurrentCursor  BY <1>4 DEF CurrentCursor
  <2>2. CurrentCursor \in Nat /\ replica.pending \in Nat
    BY CursorType DEF TypeOK, Replica, HistoryId
  <2>. QED  BY <1>1, <1>4, <2>1, <2>2 DEF CursorBehind, Higher
<1>5. CASE PassApply /\ ~(Connected /\ CurrentCursor = pass.expected)
  <2>1. pass' = NoPass \/ pass'.step = "return"
    BY <1>5 DEF PassApply, Abort, TypeOK, Pass
  <2>2. replica' = replica  BY <1>5 DEF PassApply
  <2>. QED  BY <1>4, <2>1, <2>2 DEF NoPass
<1>6. CASE MarkReady /\ ~Connected
  <2>1. pass'.step = "complete" /\ replica' = replica
    BY <1>6 DEF MarkReady, TypeOK, Pass
  <2>. QED  BY <1>4, <2>1
<1>. QED  BY <1>2, <1>3, <1>5, <1>6

\* The cursor never moves backwards and never passes the mailbox.
LEMMA CursorStep ==
    ASSUME TypeOK, CursorBehind, [Next]_vars
    PROVE  CursorBehind' /\ CurrentCursor' >= CurrentCursor
<1>1. TypeOK'  BY TypeStep
<1>2. CurrentCursor \in Nat  BY CursorType DEF TypeOK, HistoryId
<1>. QED  BY <1>1, <1>2, OthersInFrame, FrameKeeps, ReadKeeps, WriteKeeps

\* A connection starts with its cursor at the head of the mailbox.
LEMMA CursorInit == Init => CursorBehind
BY DEF Init, MailboxInit, CursorBehind, CurrentCursor, InitialHistoryId, NoPass

\* The replica is never ahead of Gmail.
THEOREM NeverAhead == Spec => []CursorBehind
<1>1. TypeOK /\ CursorBehind /\ [Next]_vars => CursorBehind'  BY CursorStep
<1>. QED  BY <1>1, CursorInit, TypeCorrect, PTL DEF Spec

\* A replay, a repair and a retry only ever move the history cursor forward, so
\* that no history is applied twice to a replica that has gone past it.
THEOREM CursorOnlyAdvances == Spec => CursorAdvances
<1>1. TypeOK /\ CursorBehind /\ [Next]_vars => [CurrentCursor' >= CurrentCursor]_vars
  BY CursorStep
<1>. QED  BY <1>1, NeverAhead, TypeCorrect, PTL DEF Spec, CursorAdvances

\* A step that neither accepts a notification nor writes the cursor leaves what
\* is pending alone and makes no key of a notification.
LEMMA OthersKeepPending ==
    ASSUME TypeOK, [Next]_vars, ~PassApply, ~MarkReady, \A n \in 2 .. head : ~Push(n)
    PROVE  /\ replica'.pending = replica.pending
           /\ \A n \in HistoryId : <<"push", 0, n>> \in keys' => <<"push", 0, n>> \in keys
<1>1. replica'.pending = replica.pending
  <2>1. CASE PassRead  BY <2>1 DEF PassRead
  <2>. QED  BY <2>1, OthersInFrame DEF CursorFrame
<1>2. CASE Boot
  <2>1. \A n \in HistoryId : <<"push", 0, n>> \notin RecoveryKeys
    BY DEF RecoveryKeys
  <2>2. \A n \in HistoryId : <<"push", 0, n>> \notin PendingKeys
    BY DEF PendingKeys, Replayable
  <2>. QED  BY <1>2, <2>1, <2>2 DEF Boot
<1>3. CASE ~Boot
  <2>1. keys' = keys
    <3>1. CASE UNCHANGED vars  BY <3>1 DEF vars, syncVars
    <3>2. CASE Mailbox \/ DispatchCatchup \/ Store \/ Fault
      BY <3>2 DEF Mailbox, syncVars, DispatchCatchup, Store, IngestStore, Fault, PageFails,
         RunExecutionFails, IngestFails, PassFails, RenewalFails, EntityFails
    <3>3. ASSUME NEW r \in Run, DispatchRun(r) \/ Workflow(r) \/ FinalizeStart(r)
          PROVE  keys' = keys
      BY <3>3 DEF DispatchRun, Workflow, PageStart, PageState, PageRecord, IngestFetch,
         IngestReturn, FinalizeStart
    <3>4. ASSUME NEW k \in JobKind, CatchUp(k)
          PROVE  keys' = keys
      BY <3>4 DEF CatchUp, CatchUpReplay, CatchUpRepair, CatchUpDefer
    <3>5. CASE PassStep
      BY <3>5 DEF PassStep, PassRead, PassReadExpired, PassFetch, PassRevoked, StartRepair,
         PassReturn, FinalizeState, CompleteRun, DropMessage
    <3>6. CASE Outside
      BY <1>3, <3>6 DEF Outside, RequestCatchup, RenewalDue, Revoke, ReconnectProfile, Reconnect
    <3>. QED  BY <3>1, <3>2, <3>3, <3>4, <3>5, <3>6 DEF Next
  <2>. QED  BY <1>1, <2>1
<1>. QED  BY <1>1, <1>2, <1>3

\* A notification that is accepted is pending from then on.
LEMMA PushPends ==
    ASSUME TypeOK, PushKept, NEW n \in 2 .. head, Push(n)
    PROVE  PushKept'
<1>1. n \in HistoryId /\ CurrentCursor \in HistoryId /\ replica.pending \in HistoryId
  BY MailboxAssumption, CursorType DEF TypeOK, MailboxTypeOK, Replica, HistoryId
<1>2. /\ replica' = [replica EXCEPT !.pending = Higher(replica.pending, n)]
      /\ keys' = keys \union {<<"push", 0, replica'.pending>>}
  BY DEF Push, EnqueueCatchup
<1>3. CurrentCursor' = CurrentCursor /\ replica'.pending = Higher(replica.pending, n)
  BY <1>2 DEF CurrentCursor, TypeOK, Replica
<1>. SUFFICES ASSUME NEW i \in HistoryId, <<"push", 0, i>> \in keys'
              PROVE  i <= Higher(CurrentCursor, Higher(replica.pending, n))
  BY <1>3 DEF PushKept
<1>4. CASE <<"push", 0, i>> \in keys
  <2>1. i <= Higher(CurrentCursor, replica.pending)  BY <1>4 DEF PushKept
  <2>. QED  BY <1>1, <2>1 DEF Higher, HistoryId
<1>5. CASE i = Higher(replica.pending, n)  BY <1>1, <1>5 DEF Higher, HistoryId
<1>. QED  BY <1>2, <1>3, <1>4, <1>5

\* No accepted notification is ever forgotten: not by an apply that races it,
\* not by the end of a finalization, not by a revocation, a repair or a restart.
THEOREM NoPushForgotten == Spec => []PushKept
<1>1. Init => PushKept  BY DEF Init, PushKept
<1>2. TypeOK /\ CursorBehind /\ PushKept /\ [Next]_vars => PushKept'
  <2>. SUFFICES ASSUME TypeOK, CursorBehind, PushKept, [Next]_vars PROVE PushKept'
    OBVIOUS
  <2>1. CASE \E n \in 2 .. head : Push(n)  BY <2>1, PushPends
  <2>2. CASE PassApply \/ MarkReady
    <3>1. \A n \in HistoryId : <<"push", 0, n>> \in keys' => <<"push", 0, n>> \in keys
      BY <2>2 DEF PassApply, MarkReady, EnqueueCatchup
    <3>2. Higher(CurrentCursor, replica.pending) <= Higher(CurrentCursor', replica'.pending)
      BY <2>2, WriteKeeps
    <3>3. TypeOK'  BY TypeStep
    <3>4. /\ CurrentCursor \in Nat /\ CurrentCursor' \in Nat
          /\ replica.pending \in Nat /\ replica'.pending \in Nat
      BY <3>3, MailboxAssumption DEF TypeOK, CurrentCursor, InitialHistoryId, Replica, HistoryId
    <3>. QED  BY <3>1, <3>2, <3>4 DEF PushKept, Higher, HistoryId
  <2>3. CASE ~PassApply /\ ~MarkReady /\ \A n \in 2 .. head : ~Push(n)
    <3>1. CurrentCursor' >= CurrentCursor /\ replica'.pending = replica.pending
      BY <2>3, CursorStep, OthersKeepPending
    <3>2. \A n \in HistoryId : <<"push", 0, n>> \in keys' => <<"push", 0, n>> \in keys
      BY <2>3, OthersKeepPending
    <3>3. TypeOK'  BY TypeStep
    <3>4. /\ CurrentCursor \in Nat /\ CurrentCursor' \in Nat
          /\ replica.pending \in Nat
      BY <3>3, MailboxAssumption DEF TypeOK, CurrentCursor, InitialHistoryId, Replica, HistoryId
    <3>. QED  BY <3>1, <3>2, <3>4 DEF PushKept, Higher, HistoryId
  <2>. QED  BY <2>1, <2>2, <2>3
<1>. QED  BY <1>1, <1>2, NeverAhead, TypeCorrect, PTL DEF Spec
-----------------------------------------------------------------------------
(* What each step of the lock holder does to its pass.                     *)

\* A step that leaves the pass alone, or ends it.
KeepsPass == pass' = pass \/ pass' = NoPass

\* The holder of the lock is the only one that changes what it has read.
LEMMA OthersKeepPass ==
    ASSUME TypeOK, [Next]_vars,
           \A k \in JobKind : ~CatchUpReplay(k) /\ ~CatchUpRepair(k),
           \A r \in Run : ~FinalizeStart(r),
           ~PassRead, ~PassReadExpired, ~PassFetch, ~PassApply, ~StartRepair,
           ~FinalizeState, ~MarkReady, \A m \in Message : ~DropMessage(m)
    PROVE  KeepsPass
<1>. USE DEF KeepsPass
<1>1. CASE UNCHANGED vars  BY <1>1 DEF vars, syncVars
<1>2. CASE Mailbox \/ DispatchCatchup \/ Store
  BY <1>2 DEF Mailbox, syncVars, DispatchCatchup, Store, IngestStore
<1>3. CASE Fault
  BY <1>3 DEF Fault, PageFails, RunExecutionFails, IngestFails, PassFails, Abort, RenewalFails,
     EntityFails
<1>4. ASSUME NEW r \in Run, DispatchRun(r) \/ Workflow(r)
      PROVE  KeepsPass
  BY <1>4 DEF DispatchRun, Workflow, PageStart, PageState, PageRecord, IngestFetch, IngestReturn
<1>5. ASSUME NEW k \in JobKind, CatchUpDefer(k)
      PROVE  KeepsPass
  BY <1>5 DEF CatchUpDefer
<1>6. CASE PassRevoked \/ PassReturn \/ CompleteRun
  BY <1>6 DEF PassRevoked, PassReturn, CompleteRun
<1>7. CASE Outside
  BY <1>7 DEF Outside, Push, RequestCatchup, RenewalDue, Revoke, ReconnectProfile, Reconnect, Boot
<1>. QED  BY <1>1, <1>2, <1>3, <1>4, <1>5, <1>6, <1>7 DEF Next, CatchUp, PassStep

\* finalizeGmailSyncActivity begins.
LEMMA FinalizeStarts ==
    ASSUME TypeOK, NEW r \in Run, FinalizeStart(r)
    PROVE  /\ exec[r].phase = "finalize" /\ LockFree
           /\ UNCHANGED <<mail, log, head, account, replica, stored, runs, items, offered,
                          fetches, oauth, spent>>
           /\ \/ /\ Active(r) /\ UNCHANGED exec
                 /\ pass'.kind = "finalize" /\ pass'.step = "state" /\ pass'.run = r
                 /\ pass'.start = runs[r].start /\ pass'.upto = 0 /\ pass'.after = "failed"
              \/ /\ ~Active(r) /\ UNCHANGED pass
                 /\ exec' = [exec EXCEPT ![r].phase = "superseded"]
<1>. DEFINE next == [NoPass EXCEPT !.kind = "finalize", !.step = "state", !.run = r,
                                   !.expected = CurrentCursor, !.start = runs[r].start]
<1>1. Active(r) => pass' = next  BY DEF FinalizeStart, FinalReplayStart
<1>2. /\ next.kind = "finalize" /\ next.step = "state" /\ next.run = r
      /\ next.start = runs[r].start /\ next.upto = 0 /\ next.after = "failed"
  BY DEF NoPass
<1>. HIDE DEF next
<1>. QED  BY <1>1, <1>2 DEF FinalizeStart, mailboxVars
-----------------------------------------------------------------------------
(* The finalization that holds the lock belongs to an Execution at its end. *)

\* A finalization is the last phase of the Execution that it belongs to.
PassFits ==
    /\ pass.step \in {"state", "drop", "ready", "complete"} => pass.kind = "finalize"
    /\ pass.kind = "finalize" => pass.run \in Run /\ exec[pass.run].phase = "finalize"

\* What recordMailSyncPage does to the run, its items and its Execution.
LEMMA PageRecorded ==
    ASSUME TypeOK, NEW r \in Run, NEW page \in SUBSET Thread, NEW isLast \in BOOLEAN,
           PageRecord(r, page, isLast)
    PROVE  /\ exec[r].phase = "list" /\ Connected
           /\ UNCHANGED <<mail, log, head, account, replica, stored, offered, fetches, pass, oauth,
                          spent>>
           /\ \A q \in Run : /\ q # r => exec'[q] = exec[q] /\ items'[q] = items[q] /\ runs'[q] = runs[q]
                             /\ runs'[q].status = runs[q].status
                             /\ runs'[q].type = runs[q].type /\ runs'[q].start = runs[q].start
           /\ \/ /\ ~Active(r) /\ UNCHANGED <<runs, items>>
                 /\ exec'[r].phase = "superseded" /\ exec'[r].listed = exec[r].listed
              \/ /\ Active(r) /\ exec'[r].phase = "ingest"
                 /\ exec'[r].listed = exec[r].listed \union page /\ exec'[r].last = isLast
                 /\ exec'[r].owed = {t \in page : items'[r][t] = "open"}
                 /\ \A t \in Thread :
                       items'[r][t] = IF t \in page /\ items[r][t] = "none" THEN "open"
                                                                         ELSE items[r][t]
                 /\ runs'[r].discovered = (runs[r].discovered \/ isLast)
<1>1. /\ exec[r].phase = "list" /\ Connected
      /\ UNCHANGED <<mail, log, head, account, replica, stored, offered, fetches, pass, oauth, spent>>
  BY DEF PageRecord, mailboxVars
<1>2. exec \in [Run -> Execution] /\ items \in [Run -> [Thread -> ItemStatus]]
      /\ runs \in [Run -> RunRecord]
  BY DEF TypeOK
<1>3. CASE ~Active(r)
  <2>1. UNCHANGED <<runs, items>> /\ exec' = [exec EXCEPT ![r].phase = "superseded"]
    BY <1>3 DEF PageRecord
  <2>2. /\ \A q \in Run : q # r => exec'[q] = exec[q]
        /\ exec'[r].phase = "superseded" /\ exec'[r].listed = exec[r].listed
    BY <1>2, <2>1 DEF Execution
  <2>. QED  BY <1>1, <1>3, <2>1, <2>2
<1>4. CASE Active(r)
  <2>. DEFINE recorded == [t \in Thread |-> IF t \in page /\ items[r][t] = "none" THEN "open"
                                                                              ELSE items[r][t]]
              found == [runs EXCEPT ![r].discovered = @ \/ isLast]
              walking == [phase |-> "ingest", listed |-> exec[r].listed \union page, last |-> isLast,
                          owed |-> {t \in page : items'[r][t] = "open"}]
  <2>1. items' = [items EXCEPT ![r] = recorded]  BY <1>4 DEF PageRecord
  <2>2. runs' = found  BY <1>4 DEF PageRecord
  <2>3. exec' = [exec EXCEPT ![r] = walking]  BY <1>4 DEF PageRecord
  <2>4. /\ \A q \in Run : /\ q # r => found[q] = runs[q]
                          /\ found[q].status = runs[q].status
                          /\ found[q].type = runs[q].type /\ found[q].start = runs[q].start
        /\ found[r].discovered = (runs[r].discovered \/ isLast)
    BY <1>2 DEF RunRecord
  <2>5. /\ \A t \in Thread : recorded[t] = IF t \in page /\ items[r][t] = "none" THEN "open"
                                                                            ELSE items[r][t]
        /\ walking.phase = "ingest" /\ walking.listed = exec[r].listed \union page
        /\ walking.last = isLast /\ walking.owed = {t \in page : items'[r][t] = "open"}
    OBVIOUS
  <2>. HIDE DEF recorded, found, walking
  <2>6. /\ \A q \in Run : q # r => exec'[q] = exec[q] /\ items'[q] = items[q]
        /\ exec'[r] = walking /\ items'[r] = recorded
    BY ONLY <1>2, <2>1, <2>3, r \in Run
  <2>. QED  BY ONLY <1>1, <1>4, <2>2, <2>4, <2>5, <2>6
<1>. QED  BY <1>3, <1>4

\* What the holder of the lock does next is still of the same kind, for the same run.
LEMMA PassGoesOn ==
    ASSUME TypeOK, PassFits,
           \/ PassRead \/ PassReadExpired \/ PassFetch \/ PassApply \/ StartRepair
           \/ FinalizeState \/ MarkReady \/ \E m \in Message : DropMessage(m)
    PROVE  /\ exec' = exec
           /\ \/ pass' = NoPass
              \/ /\ pass'.kind = pass.kind /\ pass'.run = pass.run
                 /\ pass'.step \in {"state", "drop", "ready", "complete"} => pass.kind = "finalize"
<1>1. pass \in Pass  BY DEF TypeOK
<1>2. CASE PassRead \/ PassFetch \/ StartRepair
  <2>1. pass'.step \in {"fetch", "apply", "close"} /\ pass'.kind = pass.kind /\ pass'.run = pass.run
    BY <1>1, <1>2 DEF PassRead, PassFetch, StartRepair, Pass
  <2>. QED  BY <1>2, <2>1 DEF PassRead, PassFetch, StartRepair
<1>3. CASE PassReadExpired
  BY <1>1, <1>3 DEF PassReadExpired, Abort, Pass
<1>4. CASE PassApply
  <2>1. CASE Connected /\ CurrentCursor = pass.expected
    <3>1. /\ pass'.kind = pass.kind /\ pass'.run = pass.run
          /\ pass'.step = "ready" => pass.kind = "finalize"
          /\ pass'.step \in {"read", "again", "return", "ready"}
      BY <1>1, <1>4, <2>1 DEF PassApply, Pass
    <3>. QED  BY <1>4, <3>1 DEF PassApply
  <2>2. CASE ~(Connected /\ CurrentCursor = pass.expected)
    BY <1>1, <1>4, <2>2 DEF PassApply, Abort, Pass
  <2>. QED  BY <2>1, <2>2
<1>5. ASSUME FinalizeState \/ MarkReady \/ \E m \in Message : DropMessage(m)
      PROVE  /\ exec' = exec /\ pass'.kind = pass.kind /\ pass'.run = pass.run
             /\ pass.kind = "finalize"
  BY <1>1, <1>5 DEF FinalizeState, MarkReady, DropMessage, Pass, PassFits
<1>. QED  BY <1>2, <1>3, <1>4, <1>5

\* Nothing but its own finalization moves an Execution that is being finalized.
LEMMA FinalizingStays ==
    ASSUME TypeOK, [Next]_vars, ~CompleteRun, NEW q \in Run, q = pass.run,
           pass.kind = "finalize", exec[q].phase = "finalize"
    PROVE  exec'[q].phase = "finalize"
<1>1. exec \in [Run -> Execution]  BY DEF TypeOK
<1>2. CASE UNCHANGED vars \/ Mailbox \/ DispatchCatchup \/ Store
  BY <1>2 DEF vars, syncVars, Mailbox, DispatchCatchup, Store, IngestStore
<1>3. ASSUME NEW r \in Run, DispatchRun(r)
      PROVE  exec'[q].phase = "finalize"
  BY <1>1, <1>3 DEF DispatchRun, Execution
<1>4. ASSUME NEW r \in Run, Workflow(r) \/ PageFails(r) \/ RunExecutionFails(r)
      PROVE  exec'[q] = exec[q]
  <2>1. ASSUME NEW page \in SUBSET Thread, NEW isLast \in BOOLEAN, PageRecord(r, page, isLast)
        PROVE  exec'[q] = exec[q]
    BY <1>1, <2>1, PageRecorded
  <2>. QED
    BY <1>1, <1>4, <2>1 DEF Workflow, PageStart, PageState, IngestFetch, IngestReturn, PageFails,
       RunExecutionFails
<1>5. ASSUME NEW r \in Run, FinalizeStart(r)
      PROVE  FALSE
  BY <1>5 DEF FinalizeStart, LockFree
<1>6. ASSUME NEW k \in JobKind, CatchUp(k)
      PROVE  exec' = exec
  BY <1>6 DEF CatchUp, CatchUpReplay, CatchUpRepair, CatchUpDefer
<1>7. CASE PassStep
  BY <1>7 DEF PassStep, PassRead, PassReadExpired, PassFetch, PassRevoked, PassApply, StartRepair,
     PassReturn, FinalizeState, MarkReady, DropMessage
<1>8. CASE Fault
  BY <1>4, <1>8 DEF Fault, IngestFails, PassFails, RenewalFails, EntityFails
<1>9. CASE Outside
  BY <1>9 DEF Outside, Push, RequestCatchup, RenewalDue, Revoke, ReconnectProfile, Reconnect, Boot
<1>. QED  BY <1>2, <1>3, <1>4, <1>5, <1>6, <1>7, <1>8, <1>9 DEF Next

\* Nobody holds the lock at first.
LEMMA PassFitsInit == Init => PassFits
BY DEF Init, PassFits, NoPass

\* The lock passes from one to another without mistaking a finalization.
LEMMA PassFitsStep ==
    ASSUME TypeOK, PassFits, [Next]_vars
    PROVE  PassFits'
<1>1. CASE pass' = NoPass  BY <1>1 DEF PassFits, NoPass
<1>2. ASSUME NEW r \in Run, FinalizeStart(r)
      PROVE  PassFits'
  <2>1. CASE Active(r)
    BY <1>2, <2>1, FinalizeStarts DEF PassFits
  <2>2. CASE ~Active(r)
    <3>1. pass' = pass /\ pass.kind = "none"  BY <1>2, <2>2, FinalizeStarts DEF LockFree
    <3>. QED  BY <3>1 DEF PassFits
  <2>. QED  BY <2>1, <2>2
<1>3. ASSUME NEW k \in JobKind, CatchUpReplay(k) \/ CatchUpRepair(k)
      PROVE  PassFits'
  <2>1. pass'.kind = k /\ pass'.step \in {"read", "repair"}
    BY <1>3 DEF CatchUpReplay, CatchUpRepair, NoPass
  <2>. QED  BY <2>1 DEF PassFits, JobKind
<1>4. CASE \/ PassRead \/ PassReadExpired \/ PassFetch \/ PassApply \/ StartRepair
           \/ FinalizeState \/ MarkReady \/ \E m \in Message : DropMessage(m)
  BY <1>1, <1>4, PassGoesOn DEF PassFits
<1>5. CASE pass' = pass /\ ~CompleteRun
  <2>1. ASSUME pass.kind = "finalize"
        PROVE  exec'[pass.run].phase = "finalize"
    <3>1. PICK q \in Run : q = pass.run /\ exec[q].phase = "finalize"
      BY <2>1 DEF PassFits
    <3>. QED  BY <1>5, <2>1, <3>1, FinalizingStays
  <2>. QED  BY <1>5, <2>1 DEF PassFits
<1>6. CASE CompleteRun  BY <1>1, <1>6 DEF CompleteRun
<1>. QED  BY <1>1, <1>2, <1>3, <1>4, <1>5, <1>6, OthersKeepPass DEF KeepsPass
-----------------------------------------------------------------------------
(* A walk knows every thread it still owes.                                *)

\* An Execution was given up and a worker was restarted, which may start a walk again
\* over what an earlier Execution has left open.
Restarted == spent.deaths > 0 /\ spent.boots > 0

\* A thread that a run owns and has not stored is one that its walk is at.
Awaited(r, t) == \/ exec[r].phase = "failed"
                 \/ exec[r].phase = "ingest" /\ t \in exec[r].owed

\* A thread that an Execution has listed is stored, or on the page that it is at.
Listed(r, t) == \/ items[r][t] = "complete"
                \/ items[r][t] = "open" /\ exec[r].phase = "ingest" /\ t \in exec[r].owed

\* A run that is offered and has failed could walk again: that takes a death and a
\* restart.  A run that nobody has created has done nothing.
WalkedBy(r) ==
    /\ exec[r].phase = "failed" => spent.deaths # 0
    /\ r \in offered => runs[r].status # "none" /\ (exec[r].phase = "none" \/ spent.boots # 0)
    /\ runs[r].status = "none" => /\ exec[r].phase = "none" /\ exec[r].listed = {}
                                  /\ \A t \in Thread : items[r][t] = "none"
    /\ Active(r) => \A t \in Thread : items[r][t] # "failed"
    /\ ~Restarted /\ Active(r) => \A t \in Thread : items[r][t] = "open" => Awaited(r, t)
    /\ Active(r) => \A t \in exec[r].listed : Listed(r, t)

Walked == \A r \in Run : WalkedBy(r)

\* Faults are only counted up.
SpentGrows == /\ spent'.deaths \in Nat /\ spent'.boots \in Nat
              /\ spent'.deaths >= spent.deaths /\ spent'.boots >= spent.boots

\* A fault that is counted.
LEMMA SpendGrows ==
    ASSUME TypeOK, NEW bound,
           NEW counter \in {"faults", "deaths", "revocations", "triggers", "boots"},
           Spend(bound, counter)
    PROVE  /\ SpentGrows
           /\ counter = "deaths" => spent'.deaths # 0
           /\ counter = "boots" => spent'.boots # 0
BY DEF TypeOK, Spend, SpentGrows

\* What has been spent is not forgotten.
LEMMA RestartedStays ==
    ASSUME TypeOK, SpentGrows
    PROVE  /\ spent.deaths # 0 => spent'.deaths # 0
           /\ spent.boots # 0 => spent'.boots # 0
           /\ ~Restarted' => ~Restarted
BY DEF TypeOK, SpentGrows, Restarted

\* No fault is counted.
LEMMA NothingSpent == TypeOK /\ spent' = spent => SpentGrows
BY DEF TypeOK, SpentGrows

\* A run keeps its account, or loses it; its threads are stored, or left as they are;
\* and its walk moves on from a page only when nothing of the page is open.
LEMMA WalkedKept ==
    ASSUME TypeOK, SpentGrows, NEW r \in Run, WalkedBy(r),
           Active(r)' => Active(r), runs'[r].status = "none" => runs[r].status = "none",
           r \in offered' => r \in offered \/ (Active(r) /\ spent'.boots # 0),
           \A t \in Thread : \/ items'[r][t] = items[r][t]
                             \/ Active(r) /\ items'[r][t] = "complete"
                             \/ Active(r) /\ ~Active(r)',
           \/ exec'[r] = exec[r]
           \/ /\ exec[r].phase # "none"
              /\ exec'[r].phase = "failed" => spent'.deaths # 0
              /\ exec[r].phase = "failed" => exec'[r].phase = "failed"
              /\ exec'[r].listed \subseteq exec[r].listed
              /\ \/ exec[r].phase # "ingest"
                 \/ exec'[r].phase = "failed" /\ exec'[r].listed = {}
                 \/ Active(r) => \A t \in exec[r].owed : items[r][t] # "open"
    PROVE  WalkedBy(r)'
<1>0. /\ spent.deaths # 0 => spent'.deaths # 0
      /\ spent.boots # 0 => spent'.boots # 0
      /\ ~Restarted' => ~Restarted
  BY RestartedStays
<1>1. exec'[r].phase = "failed" => spent'.deaths # 0  BY <1>0 DEF WalkedBy
<1>2. r \in offered' => runs'[r].status # "none" /\ (exec'[r].phase = "none" \/ spent'.boots # 0)
  BY <1>0 DEF WalkedBy, Active
<1>3. runs'[r].status = "none" =>
         exec'[r].phase = "none" /\ exec'[r].listed = {} /\ \A t \in Thread : items'[r][t] = "none"
  BY DEF WalkedBy, Active
<1>4. Active(r)' => \A t \in Thread : items'[r][t] # "failed"  BY DEF WalkedBy
<1>5. ~Restarted' /\ Active(r)' => \A t \in Thread : items'[r][t] = "open" => Awaited(r, t)'
  BY <1>0 DEF WalkedBy, Awaited
<1>6. Active(r)' => \A t \in exec'[r].listed : Listed(r, t)'
  <2>. SUFFICES ASSUME Active(r)', NEW t \in exec'[r].listed
                PROVE  Listed(r, t)'
    OBVIOUS
  <2>1. exec[r] \in Execution /\ exec'[r].listed \subseteq exec[r].listed  BY DEF TypeOK
  <2>2. t \in Thread /\ Active(r) /\ Listed(r, t)  BY <2>1 DEF WalkedBy, Execution
  <2>3. items'[r][t] = items[r][t] \/ items'[r][t] = "complete"  BY <2>2
  <2>. QED  BY <2>2, <2>3 DEF Listed
<1>. QED  BY <1>1, <1>2, <1>3, <1>4, <1>5, <1>6 DEF WalkedBy

\* The initial walk has not begun.
LEMMA WalkedInit == Init => Walked
<1>. SUFFICES ASSUME Init, NEW r \in Run
              PROVE  WalkedBy(r)
  BY DEF Walked
<1>1. /\ exec[r].phase = "none" /\ exec[r].listed = {} /\ \A t \in Thread : items[r][t] = "none"
      /\ r \in offered => runs[r].status # "none"
  BY DEF Init
<1>. QED  BY <1>1 DEF WalkedBy

\* A walk that is offered begins only if it has not walked before.
LEMMA DispatchWalked ==
    ASSUME TypeOK, Walked, NEW r \in Run, DispatchRun(r)
    PROVE  Walked'
<1>1. /\ runs' = runs /\ items' = items /\ spent' = spent /\ offered' = offered \ {r}
      /\ r \in offered
      /\ exec' = exec \/ exec' = [exec EXCEPT ![r].phase = "discover"]
  BY DEF DispatchRun
<1>2. \A q \in Run : q # r => exec'[q] = exec[q]  BY <1>1 DEF TypeOK
<1>3. \A q \in Run : Active(q)' = Active(q)  BY <1>1 DEF Active
<1>4. ASSUME NEW q \in Run, exec'[q] = exec[q]
      PROVE  WalkedBy(q)'
  BY <1>1, <1>3, <1>4, WalkedKept, NothingSpent DEF Walked
<1>5. ASSUME exec'[r] # exec[r]
      PROVE  WalkedBy(r)'
  <2>1. /\ exec[r].phase \in {"none", "failed"} /\ exec'[r].phase = "discover"
        /\ exec'[r].listed = exec[r].listed
    BY <1>5 DEF DispatchRun, TypeOK, Execution
  <2>2. WalkedBy(r) /\ Restarted' = Restarted  BY <1>1 DEF Walked, Restarted
  <2>3. runs[r].status # "none"  BY <1>1, <2>2 DEF WalkedBy
  <2>4. ~Restarted /\ Active(r) => \A t \in Thread : items[r][t] # "open"
    <3>1. CASE exec[r].phase = "none"  BY <2>2, <3>1 DEF WalkedBy, Awaited
    <3>2. CASE exec[r].phase = "failed"
      BY <1>1, <2>2, <3>2 DEF WalkedBy, Restarted, TypeOK
    <3>. QED  BY <2>1, <3>1, <3>2
  <2>5. Active(r) => \A t \in exec'[r].listed : Listed(r, t)'
    BY <1>1, <2>1, <2>2 DEF WalkedBy, Listed
  <2>. QED  BY <1>1, <1>3, <2>1, <2>2, <2>3, <2>4, <2>5 DEF WalkedBy
<1>. QED  BY <1>2, <1>4, <1>5 DEF Walked

\* A walk moves on, fails, or is superseded.
LEMMA WalkWalked ==
    ASSUME TypeOK, Walked, NEW r \in Run,
           \/ PageStart(r) \/ PageState(r) \/ IngestReturn(r) \/ FinalizeStart(r)
           \/ PageFails(r) \/ RunExecutionFails(r) \/ \E t \in Thread : IngestFetch(r, t)
    PROVE  Walked'
<1>1. /\ runs' = runs /\ items' = items /\ offered' = offered
      /\ \A q \in Run : q # r => exec'[q] = exec[q]
  BY DEF PageStart, PageState, IngestReturn, FinalizeStart, PageFails, RunExecutionFails,
     IngestFetch, TypeOK
<1>2. \A q \in Run : Active(q)' = Active(q)  BY <1>1 DEF Active
<1>3. SpentGrows
  BY NothingSpent, SpendGrows DEF PageStart, PageState, IngestReturn, FinalizeStart, PageFails,
     RunExecutionFails, IngestFetch
<1>4. \/ exec'[r] = exec[r]
      \/ /\ exec[r].phase # "none"
         /\ exec'[r].phase = "failed" => spent'.deaths # 0
         /\ exec[r].phase = "failed" => exec'[r].phase = "failed"
         /\ exec'[r].listed \subseteq exec[r].listed
         /\ \/ exec[r].phase # "ingest"
            \/ exec'[r].phase = "failed" /\ exec'[r].listed = {}
            \/ Active(r) => \A t \in exec[r].owed : items[r][t] # "open"
  <2>1. CASE PageStart(r)
    <3>1. /\ exec'[r].phase \in {"superseded", "state", "list"} /\ exec[r].phase = "discover"
          /\ exec'[r].listed = exec[r].listed
      BY <2>1 DEF PageStart, TypeOK, Execution
    <3>. QED  BY <3>1
  <2>2. CASE PageState(r)
    <3>1. /\ exec'[r].phase = "list" /\ exec[r].phase = "state"
          /\ exec'[r].listed = exec[r].listed
      BY <2>2 DEF PageState, TypeOK, Execution
    <3>. QED  BY <3>1
  <2>3. CASE IngestReturn(r)
    <3>1. /\ exec'[r].phase \in {"superseded", "finalize", "discover"} /\ exec[r].phase = "ingest"
          /\ exec'[r].listed = exec[r].listed
          /\ Active(r) => \A t \in exec[r].owed : items[r][t] # "open"
      BY <2>3 DEF IngestReturn, PageStored, TypeOK, Execution
    <3>. QED  BY <3>1
  <2>4. CASE FinalizeStart(r)
    <3>1. \/ exec' = exec
          \/ /\ exec'[r].phase = "superseded" /\ exec[r].phase = "finalize"
             /\ exec'[r].listed = exec[r].listed
      BY <2>4, FinalizeStarts DEF TypeOK, Execution
    <3>. QED  BY <3>1
  <2>5. CASE PageFails(r)
    <3>1. /\ exec'[r].phase = "discover" /\ exec[r].phase \in {"state", "list"}
          /\ exec'[r].listed = exec[r].listed
      BY <2>5 DEF PageFails, TypeOK, Execution
    <3>. QED  BY <3>1
  <2>6. CASE RunExecutionFails(r)
    <3>1. /\ exec[r].phase \in {"discover", "state", "list", "ingest", "finalize"}
          /\ spent'.deaths # 0
      BY <2>6, SpendGrows DEF RunExecutionFails
    <3>2. exec'[r].phase = "failed" /\ exec'[r].listed = {}
      BY <2>6 DEF RunExecutionFails, TypeOK
    <3>. QED  BY <3>1, <3>2
  <2>7. CASE \E t \in Thread : IngestFetch(r, t)  BY <2>7 DEF IngestFetch
  <2>. QED  BY <2>1, <2>2, <2>3, <2>4, <2>5, <2>6, <2>7
<1>. QED
  <2>. SUFFICES ASSUME NEW q \in Run
                PROVE  WalkedBy(q)'
    BY DEF Walked
  <2>1. WalkedBy(q)  BY DEF Walked
  <2>2. CASE q # r  BY <1>1, <1>2, <1>3, <2>1, <2>2, WalkedKept
  <2>3. CASE q = r  BY <1>1, <1>2, <1>3, <1>4, <2>1, <2>3, WalkedKept
  <2>. QED  BY <2>2, <2>3

\* recordMailSyncPage: what a page leaves open it owes.
LEMMA PageWalked ==
    ASSUME TypeOK, Walked, NEW r \in Run, NEW page \in SUBSET Thread, NEW isLast \in BOOLEAN,
           PageRecord(r, page, isLast)
    PROVE  Walked'
<1>1. /\ exec[r].phase = "list" /\ spent' = spent /\ offered' = offered
      /\ \A q \in Run : /\ q # r => exec'[q] = exec[q] /\ items'[q] = items[q]
                        /\ Active(q)' = Active(q) /\ runs'[q].status = runs[q].status
  BY PageRecorded DEF Active
<1>2. ASSUME NEW q \in Run, q # r
      PROVE  WalkedBy(q)'
  BY <1>1, <1>2, WalkedKept, NothingSpent DEF Walked
<1>3. CASE ~Active(r)
  <2>1. items' = items /\ exec'[r].phase = "superseded" /\ exec'[r].listed = exec[r].listed
    BY <1>3, PageRecorded
  <2>2. WalkedBy(r)'  BY <1>1, <2>1, WalkedKept, NothingSpent DEF Walked
  <2>. QED  BY <1>2, <2>2 DEF Walked
<1>4. CASE Active(r)
  <2>1. /\ exec'[r].phase = "ingest" /\ exec'[r].owed = {t \in page : items'[r][t] = "open"}
        /\ exec'[r].listed = exec[r].listed \union page
        /\ \A t \in Thread : items'[r][t] = IF t \in page /\ items[r][t] = "none" THEN "open"
                                                                             ELSE items[r][t]
    BY <1>4, PageRecorded
  <2>2. /\ r \in offered => spent.boots # 0
        /\ ~Restarted => \A t \in Thread : items[r][t] # "open"
        /\ \A t \in Thread : items[r][t] # "failed"
        /\ \A t \in exec[r].listed : items[r][t] = "complete"
    BY <1>1, <1>4 DEF Walked, WalkedBy, Awaited, Listed
  <2>3. ~Restarted' => ~Restarted  BY <1>1 DEF Restarted
  <2>4. runs'[r].status = "active"  BY <1>1, <1>4 DEF Active
  <2>5. ~Restarted' => \A t \in Thread : items'[r][t] = "open" => Awaited(r, t)'
    BY <2>1, <2>2, <2>3 DEF Awaited
  <2>6. \A t \in exec'[r].listed : Listed(r, t)'
    <3>1. exec[r].listed \subseteq Thread /\ \A t \in Thread : items[r][t] \in ItemStatus
      BY DEF TypeOK, Execution
    <3>. QED  BY <2>1, <2>2, <3>1 DEF Listed, ItemStatus
  <2>7. WalkedBy(r)'  BY <1>1, <2>1, <2>2, <2>4, <2>5, <2>6 DEF WalkedBy
  <2>. QED  BY <1>2, <2>7 DEF Walked
<1>. QED  BY <1>3, <1>4

\* What an ingestion attempt that stores its thread does.
LEMMA ThreadStored ==
    ASSUME TypeOK, NEW f \in fetches, IngestStore(f)
    PROVE  /\ f \in Fetch /\ fetches' = fetches \ {f}
           /\ UNCHANGED <<mail, log, head, account, replica, runs, offered, exec, pass, oauth, spent>>
           /\ \/ UNCHANGED <<stored, items>>
              \/ /\ Settles(f)
                 /\ \A m \in Message :
                       stored'[m] = IF f.content[m] # Absent THEN f.content[m] ELSE stored[m]
                 /\ \A r \in Run, t \in Thread :
                       items'[r][t] = IF r = f.run /\ t = f.thread THEN "complete" ELSE items[r][t]
<1>1. f \in Fetch /\ f.run \in Run /\ f.thread \in Thread  BY DEF TypeOK, Fetch
<1>2. /\ fetches' = fetches \ {f}
      /\ UNCHANGED <<mail, log, head, account, replica, runs, offered, exec, pass, oauth, spent>>
  BY DEF IngestStore, mailboxVars
<1>3. CASE Settles(f)
  <2>1. /\ stored' = [m \in Message |-> IF m \in Found(f) THEN f.content[m] ELSE stored[m]]
        /\ items' = [items EXCEPT ![f.run][f.thread] = "complete"]
    BY <1>3 DEF IngestStore
  <2>2. \A r \in Run, t \in Thread :
           items'[r][t] = IF r = f.run /\ t = f.thread THEN "complete" ELSE items[r][t]
    BY <1>1, <2>1 DEF TypeOK
  <2>3. \A m \in Message :
           stored'[m] = IF f.content[m] # Absent THEN f.content[m] ELSE stored[m]
    BY <2>1 DEF Found
  <2>. QED  BY <1>1, <1>2, <1>3, <2>2, <2>3
<1>4. CASE ~Settles(f)  BY <1>1, <1>2, <1>4 DEF IngestStore
<1>. QED  BY <1>3, <1>4

\* What a repair that needs a run of its own creates.
LEMMA RepairCreated ==
    ASSUME TypeOK, NEW start \in HistoryId, CreateRepairRun(start)
    PROVE  \/ UNCHANGED <<runs, offered>>
           \/ /\ ActiveRuns = {}
              /\ \E r \in Run :
                   /\ runs[r].status = "none"
                   /\ runs'[r] = [type |-> "repair", start |-> start,
                                  status |-> "active", discovered |-> FALSE]
                   /\ \A q \in Run : q # r => runs'[q] = runs[q]
                   /\ offered' = offered \union {r}
                   /\ replica' = [replica EXCEPT !.state = "repairing"]
<1>1. CASE UNCHANGED <<runs, offered>>  BY <1>1
<1>2. CASE ~UNCHANGED <<runs, offered>>
  <2>1. ~Owned /\ replica' = [replica EXCEPT !.state = "repairing"]
    BY <1>2 DEF CreateRepairRun
  <2>2. PICK r \in {p \in Run : runs[p].status = "none"} :
           /\ runs' = [runs EXCEPT ![r] = [type |-> "repair", start |-> start,
                                           status |-> "active", discovered |-> FALSE]]
           /\ Offer(r)
    BY <1>2 DEF CreateRepairRun
  <2>3. /\ runs[r].status = "none"
        /\ runs'[r] = [type |-> "repair", start |-> start,
                       status |-> "active", discovered |-> FALSE]
        /\ \A q \in Run : q # r => runs'[q] = runs[q]
        /\ offered' = offered \union {r}
    BY <2>2 DEF TypeOK, Offer
  <2>. QED  BY <2>1, <2>3 DEF Owned
<1>. QED  BY <1>1, <1>2

\* An item is settled.
LEMMA StoreWalked ==
    ASSUME TypeOK, Walked, Store
    PROVE  Walked'
<1>1. PICK f \in fetches : IngestStore(f)  BY DEF Store
<1>2. /\ UNCHANGED <<runs, offered, exec, spent>>
      /\ \A r \in Run, t \in Thread : \/ items'[r][t] = items[r][t]
                                      \/ Active(r) /\ items'[r][t] = "complete"
  BY <1>1, ThreadStored DEF Settles
<1>3. \A r \in Run : Active(r)' = Active(r)  BY <1>2 DEF Active
<1>. QED  BY <1>2, <1>3, WalkedKept, NothingSpent DEF Walked

\* A run is created by a repair and offered.
LEMMA CreateWalked ==
    ASSUME TypeOK, Walked, UNCHANGED <<items, exec, spent>>,
           NEW start \in HistoryId, CreateRepairRun(start)
    PROVE  Walked'
<1>1. CASE UNCHANGED <<runs, offered>>
  <2>1. \A r \in Run : Active(r)' = Active(r)  BY <1>1 DEF Active
  <2>. QED  BY <1>1, <2>1, WalkedKept, NothingSpent DEF Walked
<1>2. CASE ~UNCHANGED <<runs, offered>>
  <2>1. PICK r \in Run :
           /\ runs[r].status = "none"
           /\ runs'[r] = [type |-> "repair", start |-> start,
                          status |-> "active", discovered |-> FALSE]
           /\ \A q \in Run : q # r => runs'[q] = runs[q]
           /\ offered' = offered \union {r}
    BY <1>2, RepairCreated
  <2>2. ASSUME NEW q \in Run, q # r
        PROVE  WalkedBy(q)'
    <3>1. Active(q)' = Active(q) /\ runs'[q].status = runs[q].status /\ (q \in offered' => q \in offered)
      BY <2>1, <2>2 DEF Active
    <3>. QED  BY <3>1, WalkedKept, NothingSpent DEF Walked
  <2>3. exec[r].phase = "none" /\ exec[r].listed = {} /\ \A t \in Thread : items[r][t] = "none"
    BY <2>1 DEF Walked, WalkedBy
  <2>4. WalkedBy(r)'  BY <2>1, <2>3 DEF WalkedBy
  <2>. QED  BY <2>2, <2>4 DEF Walked
<1>. QED  BY <1>1, <1>2

\* The same, from where the pass or the sign-in says.
LEMMA RepairWalked ==
    ASSUME TypeOK, Walked, StartRepair \/ Reconnect
    PROVE  Walked'
<1>1. UNCHANGED <<items, exec, spent>>  BY DEF StartRepair, Reconnect
<1>2. CASE StartRepair
  <2>1. PICK start \in HistoryId : start = pass.upto  BY DEF TypeOK, Pass
  <2>2. CreateRepairRun(start)  BY ONLY <2>1, <1>2 DEF StartRepair
  <2>. QED  BY <1>1, <2>2, CreateWalked
<1>3. CASE Reconnect
  <2>1. PICK start \in HistoryId : start = oauth  BY DEF TypeOK
  <2>2. CreateRepairRun(start)  BY ONLY <2>1, <1>3 DEF Reconnect
  <2>. QED  BY <1>1, <2>2, CreateWalked
<1>. QED  BY <1>2, <1>3

\* What a revocation takes from the runs.
LEMMA RunsRevoked ==
    ASSUME TypeOK, Revoke
    PROVE  /\ Connected /\ ~Connected' /\ ActiveRuns' = {} /\ replica'.state = "failed"
           /\ UNCHANGED <<mail, log, head, stored, offered, exec, fetches, pass, oauth>>
           /\ \A r \in Run :
                /\ ~Active(r)'
                /\ runs'[r].status = IF Active(r) THEN "failed" ELSE runs[r].status
                /\ runs'[r].type = runs[r].type /\ runs'[r].start = runs[r].start
                /\ runs'[r].discovered = runs[r].discovered
                /\ \A t \in Thread :
                     items'[r][t] = IF Active(r) /\ items[r][t] = "open" THEN "failed"
                                                                        ELSE items[r][t]
<1>1. /\ runs' = [r \in Run |-> IF Active(r) THEN [runs[r] EXCEPT !.status = "failed"] ELSE runs[r]]
      /\ items' = [r \in Run |-> [t \in Thread |->
                    IF Active(r) /\ items[r][t] = "open" THEN "failed" ELSE items[r][t]]]
      /\ Connected /\ account' = "reconnect_required"
      /\ replica' = [replica EXCEPT !.state = "failed"]
      /\ UNCHANGED <<mail, log, head, stored, offered, exec, fetches, pass, oauth>>
  BY DEF Revoke, mailboxVars
<1>2. \A r \in Run :
         /\ runs'[r].status = IF Active(r) THEN "failed" ELSE runs[r].status
         /\ runs'[r].type = runs[r].type /\ runs'[r].start = runs[r].start
         /\ runs'[r].discovered = runs[r].discovered
  BY <1>1 DEF TypeOK, RunRecord
<1>3. \A r \in Run : ~Active(r)'  BY <1>2 DEF Active
<1>4. ActiveRuns' = {}  BY <1>3 DEF ActiveRuns
<1>. QED  BY <1>1, <1>2, <1>3, <1>4 DEF TypeOK, Replica, Connected

\* A revoked grant takes the account from every run.
LEMMA RevokeWalked ==
    ASSUME TypeOK, Walked, Revoke
    PROVE  Walked'
<1>1. SpentGrows  BY SpendGrows DEF Revoke
<1>2. /\ UNCHANGED <<offered, exec>>
      /\ \A r \in Run :
           /\ ~Active(r)'
           /\ runs'[r].status = IF Active(r) THEN "failed" ELSE runs[r].status
           /\ \A t \in Thread : items'[r][t] = items[r][t] \/ Active(r)
  BY RunsRevoked
<1>. QED  BY <1>1, <1>2, WalkedKept DEF Walked

\* A starting worker offers runs again.
LEMMA BootWalked ==
    ASSUME TypeOK, Walked, Boot
    PROVE  Walked'
<1>1. /\ UNCHANGED <<runs, items, exec>> /\ SpentGrows /\ spent'.boots # 0
      /\ offered' = offered \union Readmitted
  BY SpendGrows DEF Boot
<1>2. \A r \in Readmitted : Active(r)  BY DEF Readmitted, ActiveRuns
<1>3. \A r \in Run : Active(r)' = Active(r)  BY <1>1 DEF Active
<1>. QED  BY <1>1, <1>2, <1>3, WalkedKept DEF Walked

\* What completeMailSyncRun decides.
LEMMA RunCompleted ==
    ASSUME TypeOK, PassFits, CompleteRun
    PROVE  /\ pass.step = "complete" /\ pass' = NoPass
           /\ UNCHANGED <<mail, log, head, account, replica, stored, items, offered, fetches, oauth,
                          spent>>
           /\ \E r \in Run :
                /\ r = pass.run /\ pass.kind = "finalize" /\ exec[r].phase = "finalize"
                /\ \A q \in Run : q # r => exec'[q] = exec[q] /\ runs'[q] = runs[q]
                /\ exec'[r].listed = exec[r].listed
                /\ \/ /\ runs' = runs
                      /\ exec' = exec \/ exec'[r].phase = "superseded"
                   \/ /\ Active(r) /\ Connected /\ Completable(r) /\ exec'[r].phase = "done"
                      /\ runs'[r].status = "complete" /\ runs'[r].type = runs[r].type
                      /\ runs'[r].start = runs[r].start
                      /\ runs'[r].discovered = runs[r].discovered
<1>1. /\ pass.step = "complete" /\ pass' = NoPass
      /\ UNCHANGED <<mail, log, head, account, replica, stored, items, offered, fetches, oauth, spent>>
  BY DEF CompleteRun, mailboxVars
<1>2. PICK r \in Run : r = pass.run  BY <1>1 DEF PassFits
<1>3. pass.kind = "finalize" /\ exec[r].phase = "finalize"
  BY <1>1, <1>2 DEF PassFits
<1>4. \/ /\ Active(r) /\ Connected /\ Completable(r)
         /\ runs' = [runs EXCEPT ![r].status = "complete"]
         /\ exec' = [exec EXCEPT ![r].phase = "done"]
      \/ runs' = runs /\ exec' = exec
      \/ runs' = runs /\ exec' = [exec EXCEPT ![r].phase = "superseded"]
  BY <1>2 DEF CompleteRun
<1>5. exec \in [Run -> Execution] /\ runs \in [Run -> RunRecord]  BY DEF TypeOK
<1>6. CASE runs' = runs /\ exec' = exec  BY <1>1, <1>2, <1>3, <1>6
<1>7. CASE runs' = runs /\ exec' = [exec EXCEPT ![r].phase = "superseded"]
  <2>1. /\ \A q \in Run : q # r => exec'[q] = exec[q]
        /\ exec'[r].listed = exec[r].listed /\ exec'[r].phase = "superseded"
    BY <1>5, <1>7 DEF Execution
  <2>. QED  BY <1>1, <1>2, <1>3, <1>7, <2>1
<1>8. CASE /\ Active(r) /\ Connected /\ Completable(r)
           /\ runs' = [runs EXCEPT ![r].status = "complete"]
           /\ exec' = [exec EXCEPT ![r].phase = "done"]
  <2>1. /\ \A q \in Run : q # r => exec'[q] = exec[q]
        /\ exec'[r].listed = exec[r].listed /\ exec'[r].phase = "done"
    BY <1>5, <1>8 DEF Execution
  <2>2. /\ \A q \in Run : q # r => runs'[q] = runs[q]
        /\ runs'[r].status = "complete" /\ runs'[r].type = runs[r].type
        /\ runs'[r].start = runs[r].start /\ runs'[r].discovered = runs[r].discovered
    BY <1>5, <1>8 DEF RunRecord
  <2>. QED  BY <1>1, <1>2, <1>3, <1>8, <2>1, <2>2
<1>. QED  BY <1>4, <1>6, <1>7, <1>8

\* A run completes.
LEMMA CompleteWalked ==
    ASSUME TypeOK, PassFits, Walked, CompleteRun
    PROVE  Walked'
<1>1. UNCHANGED <<items, offered, spent>>  BY RunCompleted
<1>2. PICK r \in Run :
         /\ exec[r].phase = "finalize"
         /\ \A q \in Run : q # r => exec'[q] = exec[q] /\ runs'[q] = runs[q]
         /\ exec'[r].listed = exec[r].listed
         /\ \/ /\ runs' = runs
               /\ exec' = exec \/ exec'[r].phase = "superseded"
            \/ /\ exec'[r].phase = "done" /\ Active(r) /\ runs'[r].status = "complete"
  BY RunCompleted
<1>3. \A q \in Run : /\ Active(q)' => Active(q)
                     /\ runs'[q].status = "none" => runs[q].status = "none"
  BY <1>2 DEF Active
<1>. QED  BY <1>1, <1>2, <1>3, WalkedKept, NothingSpent DEF Walked

\* Everything else leaves the walks alone.
LEMMA OthersWalked ==
    ASSUME TypeOK, Walked,
           \/ UNCHANGED vars \/ Mailbox \/ DispatchCatchup
           \/ (\E k \in JobKind : CatchUp(k)) \/ PassRead \/ PassReadExpired \/ PassFetch
           \/ PassRevoked \/ PassApply \/ PassReturn \/ FinalizeState \/ MarkReady
           \/ (\E m \in Message : DropMessage(m))
           \/ (\E f \in fetches : IngestFails(f)) \/ PassFails \/ RenewalFails \/ EntityFails
           \/ (\E n \in 2 .. head : Push(n)) \/ RequestCatchup \/ RenewalDue \/ ReconnectProfile
    PROVE  Walked'
<1>1. UNCHANGED <<runs, items, offered, exec>>
  BY DEF vars, syncVars, Mailbox, DispatchCatchup, CatchUp, CatchUpReplay, CatchUpRepair,
     CatchUpDefer, PassRead, PassReadExpired, PassFetch, PassRevoked, PassApply, PassReturn,
     FinalizeState, MarkReady, DropMessage, IngestFails, PassFails, RenewalFails, EntityFails,
     Push, RequestCatchup, RenewalDue, ReconnectProfile
<1>2. SpentGrows
  <2>1. CASE UNCHANGED spent  BY <2>1, NothingSpent
  <2>2. CASE ~UNCHANGED spent
    BY <2>2, SpendGrows DEF vars, syncVars, Mailbox, DispatchCatchup, CatchUp, CatchUpReplay,
       CatchUpRepair, CatchUpDefer, PassRead, PassReadExpired, PassFetch, PassRevoked, PassApply,
       PassReturn, FinalizeState, MarkReady, DropMessage, IngestFails, PassFails, RenewalFails,
       EntityFails, Push, RequestCatchup, RenewalDue, ReconnectProfile
  <2>. QED  BY <2>1, <2>2
<1>3. \A r \in Run : Active(r)' = Active(r)  BY <1>1 DEF Active
<1>. QED  BY <1>1, <1>2, <1>3, WalkedKept DEF Walked

\* A walk goes on knowing what it owes.
LEMMA WalkedStep ==
    ASSUME TypeOK, PassFits, Walked, [Next]_vars
    PROVE  Walked'
<1>1. CASE UNCHANGED vars \/ Mailbox \/ DispatchCatchup  BY <1>1, OthersWalked
<1>2. ASSUME NEW r \in Run, DispatchRun(r) \/ Workflow(r) \/ FinalizeStart(r)
      PROVE  Walked'
  BY <1>2, DispatchWalked, WalkWalked, PageWalked DEF Workflow
<1>3. CASE Store  BY <1>3, StoreWalked
<1>4. ASSUME NEW k \in JobKind, CatchUp(k)
      PROVE  Walked'
  BY <1>4, OthersWalked
<1>5. CASE PassStep
  BY <1>5, OthersWalked, RepairWalked, CompleteWalked DEF PassStep
<1>6. CASE Fault  BY <1>6, OthersWalked, WalkWalked DEF Fault
<1>7. CASE Outside
  BY <1>7, OthersWalked, RepairWalked, RevokeWalked, BootWalked DEF Outside
<1>. QED  BY <1>1, <1>2, <1>3, <1>4, <1>5, <1>6, <1>7 DEF Next

\* What stays true of the lock's holder and of the walks, whatever fails, restarts or
\* is reconnected.
LEMMA WalksHold == Spec => [](PassFits /\ Walked)
<1>1. TypeOK /\ PassFits /\ [Next]_vars => PassFits'  BY PassFitsStep
<1>2. TypeOK /\ PassFits /\ Walked /\ [Next]_vars => Walked'  BY WalkedStep
<1>. QED  BY <1>1, <1>2, PassFitsInit, WalkedInit, TypeCorrect, PTL DEF Spec

\* A run that owns the account is finalized when every thread it discovered is stored.
LEMMA WalkedFinalizes ==
    ASSUME TypeOK, PassFits, Walked
    PROVE  FinalizesWhatItListed /\ (~Restarted => FinalizesWhenStored)
<1>. SUFFICES ASSUME pass.kind = "finalize", Active(pass.run), NEW t \in Thread
              PROVE  /\ t \in exec[pass.run].listed => items[pass.run][t] = "complete"
                     /\ ~Restarted => items[pass.run][t] \in {"none", "complete"}
  <2>1. \A r \in Run : exec[r].listed \subseteq Thread  BY DEF TypeOK, Execution
  <2>. QED  BY <2>1 DEF FinalizesWhatItListed, FinalizesWhenStored, PassFits
<1>1. PICK r \in Run : r = pass.run /\ exec[r].phase = "finalize"
  BY DEF PassFits
<1>2. items[r][t] # "failed" /\ (~Restarted => items[r][t] # "open")
  BY <1>1 DEF Walked, WalkedBy, Awaited
<1>3. t \in exec[r].listed => items[r][t] = "complete"
  BY <1>1 DEF Walked, WalkedBy, Listed
<1>. QED  BY <1>1, <1>2, <1>3 DEF TypeOK, ItemStatus

\* Finalization runs only once every thread that its own Execution has listed is stored:
\* whatever was retried, given up, restarted, revoked or reconnected in the meantime.
THEOREM ListedThenFinalized == Spec => []FinalizesWhatItListed
<1>1. TypeOK /\ PassFits /\ Walked => FinalizesWhatItListed  BY WalkedFinalizes
<1>. QED  BY <1>1, WalksHold, TypeCorrect, PTL

\* It runs only once every thread that the run has ever discovered is stored, whoever
\* reconnects and when, unless a worker was restarted after Temporal had given an
\* Execution up: what that Execution left open the next walk may not find in Gmail.
THEOREM StoredThenFinalized == Spec => [](~Restarted => FinalizesWhenStored)
<1>1. TypeOK /\ PassFits /\ Walked => (~Restarted => FinalizesWhenStored)
  BY WalkedFinalizes
<1>. QED  BY <1>1, WalksHold, TypeCorrect, PTL
=============================================================================
