--------------------------- MODULE DraftResources ---------------------------
(***************************************************************************)
(* The drafts a thread shows: rows of `drafts` that follow Gmail's drafts.  *)
(* applyHistoryRange commits the messages of a range with the new cursor,   *)
(* and only then asks Gmail for the drafts those messages touch and writes  *)
(* their rows one by one; a finalization replaces all of them, and so does  *)
(* the repair that a 404 starts (apps/worker/src/activities/gmail/drafts.ts, *)
(* history.ts, history-recovery.ts, sync.ts, packages/database/src/          *)
(* replica.ts, workflows.ts, packages/gmail/src/client.ts).                 *)
(*                                                                         *)
(* The rest of the runs and the notifications are MailSync's: here the      *)
(* mailbox starts empty, a catch-up of a ready replica may begin whenever   *)
(* Gmail has news, each draft has a thread of its own, and one holder has   *)
(* the account's control lock.                                             *)
(***************************************************************************)
EXTENDS Integers, FiniteSets, SequencesExt

CONSTANTS Draft,          \* Gmail's draft ids
          MaxMessages,    \* bound: messages that drafts ever hold or are sent as
          MaxMishaps       \* bound: attempts that die, and lost grants

ASSUME DraftResourcesAssumption == {MaxMessages, MaxMishaps} \subseteq Nat

VARIABLES mail,        \* Gmail: its messages, in the order they were written
          history,     \* Gmail: one record for each change of a message
          connected,   \* connectedAccounts.status is `connected`
          replica,     \* gmailReplicaStates: ready, and the history cursor; of the
                       \* last run its startingHistoryCursor, and the drafts whose
                       \* threads it has still to ingest
          stored,      \* messages: what is stored of each
          rows,        \* drafts: the message each row names, and whether its
                       \* messageId is set
          pass,        \* the attempt that holds the control lock
          retry,       \* an attempt has failed, and is owed again
          missed,      \* messages whose refresh was cut off
          mishaps

draftsVars == <<mail, history, connected, replica, stored, rows, pass, retry, missed, mishaps>>
gmailVars == <<mail, history>>

Message == 1 .. MaxMessages
Label == {"draft", "sent", "gone"}
\* isDraftRelated: the record carries the DRAFT label, or says that it changed.
Record == [message : Message, op : {"upsert", "labels", "delete"}, label : Label,
           related : BOOLEAN]
Keep == [op |-> "keep", label |-> "gone"]
Change == [op : {"keep", "upsert", "labels", "delete"}, label : Label]
NoRow == [message |-> 0, linked |-> FALSE]
Row == [message : 0 .. MaxMessages, linked : BOOLEAN]
Reference == [message : Message, draft : Draft]
\* todo: messages still to be refreshed, in order.  references: what drafts.list answered.
\* got: the draft in hand.  found: the drafts a finalization has collected.
Pass == [kind : {"none", "catchup", "final"},
         at : {"idle", "read", "fetch", "apply", "list", "refresh", "store", "save",
               "replace", "ready", "repair"},
         start : Nat, upto : Nat, batch : [Message -> Change], todo : Seq(Message),
         references : SUBSET Reference, got : SUBSET Reference, syncing : BOOLEAN,
         found : SUBSET Reference]
NoBatch == [m \in Message |-> Keep]
Idle == [kind |-> "none", at |-> "idle", start |-> 0, upto |-> 0,
         batch |-> NoBatch, todo |-> <<>>, references |-> {}, got |-> {}, syncing |-> FALSE,
         found |-> {}]

DraftsTypeOK ==
    /\ mail \in Seq([draft : Draft, label : Label]) /\ Len(mail) <= MaxMessages
    /\ history \in Seq(Record)
    /\ connected \in BOOLEAN
    /\ replica \in [ready : BOOLEAN, cursor : 0 .. Len(history), base : 0 .. Len(history),
                    owed : SUBSET Draft]
    /\ stored \in [Message -> Label]
    /\ rows \in [Draft -> Row]
    /\ pass \in Pass
    /\ retry \in BOOLEAN /\ missed \subseteq Message
    /\ mishaps \in 0 .. MaxMishaps

DraftsInit ==
    /\ mail = <<>> /\ history = <<>>
    /\ connected = TRUE
    /\ replica = [ready |-> FALSE, cursor |-> 0, base |-> 0, owed |-> {}]
    /\ stored = [m \in Message |-> "gone"]
    /\ rows = [d \in Draft |-> NoRow]
    /\ pass = Idle /\ retry = FALSE /\ missed = {} /\ mishaps = 0

-----------------------------------------------------------------------------
(* Gmail.  Writing over a draft gives it another message; sending one may   *)
(* keep the message or replace it.  Whether the record of a deletion still  *)
(* carries the labels of the message is left open, as labelIds is in the    *)
(* client's type.                                                           *)

Exists(m) == m \in DOMAIN mail /\ mail[m].label # "gone"
LabelOf(m) == IF Exists(m) THEN mail[m].label ELSE "gone"
\* The message in draft d, 0 if there is none.
MessagesOf(d) == {m \in DOMAIN mail : mail[m] = [draft |-> d, label |-> "draft"]}
Current(d) == IF MessagesOf(d) = {} THEN 0 ELSE CHOOSE m \in MessagesOf(d) : TRUE
NextMessage == Len(mail) + 1
Written(d, label) == Append(mail, [draft |-> d, label |-> label])

Added(m, label) ==
    [message |-> m, op |-> "upsert", label |-> label, related |-> label = "draft"]
Gone(m, labelled) ==
    [message |-> m, op |-> "delete", label |-> "gone", related |-> labelled]
\* gmailHistoryChanges of a record whose labels changed: DRAFT is not among the
\* labels that are left, and was among those removed.  Mutant: only the labels
\* that are left are looked at.
UnrelatedOnceSent(m) ==
    [message |-> m, op |-> "labels", label |-> "sent", related |-> FALSE]
Relabelled(m) == [message |-> m, op |-> "labels", label |-> "sent", related |-> TRUE]

ComposeDraft(d) ==
    /\ Len(mail) < MaxMessages /\ \A m \in DOMAIN mail : mail[m].draft # d
    /\ mail' = Written(d, "draft")
    /\ history' = Append(history, Added(NextMessage, "draft"))
    /\ UNCHANGED <<connected, replica, stored, rows, pass, retry, missed, mishaps>>

RewriteDraft(d) ==
    /\ Len(mail) < MaxMessages /\ Current(d) # 0
    /\ mail' = [Written(d, "draft") EXCEPT ![Current(d)].label = "gone"]
    /\ \E labelled \in BOOLEAN :
          history' = history \o <<Added(NextMessage, "draft"), Gone(Current(d), labelled)>>
    /\ UNCHANGED <<connected, replica, stored, rows, pass, retry, missed, mishaps>>

SendDraft(d) ==
    /\ Current(d) # 0
    /\ \/ /\ mail' = [mail EXCEPT ![Current(d)].label = "sent"]
          /\ history' = Append(history, Relabelled(Current(d)))
       \/ /\ Len(mail) < MaxMessages
          /\ mail' = [Written(d, "sent") EXCEPT ![Current(d)].label = "gone"]
          /\ \E labelled \in BOOLEAN :
                history' = history \o <<Added(NextMessage, "sent"), Gone(Current(d), labelled)>>
    /\ UNCHANGED <<connected, replica, stored, rows, pass, retry, missed, mishaps>>

DiscardDraft(d) ==
    /\ Current(d) # 0
    /\ mail' = [mail EXCEPT ![Current(d)].label = "gone"]
    /\ \E labelled \in BOOLEAN : history' = Append(history, Gone(Current(d), labelled))
    /\ UNCHANGED <<connected, replica, stored, rows, pass, retry, missed, mishaps>>

\* markGmailAccountReconnectRequired; MailSync follows the repair of a
\* reconnection, which ends in the finalization below.
LoseGrant ==
    /\ connected /\ mishaps < MaxMishaps
    /\ connected' = FALSE /\ mishaps' = mishaps + 1
    /\ UNCHANGED <<gmailVars, replica, stored, rows, pass, retry, missed>>

-----------------------------------------------------------------------------
(* Attempts.                                                               *)

\* The rest of a catch-up's refresh is not owed to anybody: its retry starts
\* at the cursor that it has moved.  A finalization starts again.
CutOff == IF pass.kind = "catchup" /\ pass.at \in {"list", "refresh", "store", "save", "repair"}
          THEN Range(pass.todo) ELSE {}
Aborts ==
    /\ pass' = Idle /\ retry' = TRUE
    /\ missed' = missed \union CutOff
Ends ==
    /\ pass' = Idle /\ retry' = FALSE

AttemptFails ==
    /\ pass # Idle /\ mishaps < MaxMishaps
    /\ Aborts /\ mishaps' = mishaps + 1
    /\ UNCHANGED <<gmailVars, connected, replica, stored, rows>>

\* catchUpGmailHistory of a replica that is ready.
BeginCatchup ==
    /\ pass = Idle /\ connected /\ replica.ready
    /\ retry \/ replica.cursor < Len(history)
    /\ pass' = [Idle EXCEPT !.kind = "catchup", !.at = "read", !.start = replica.cursor]
    /\ UNCHANGED <<gmailVars, connected, replica, stored, rows, retry, missed, mishaps>>

\* A thread that a repair ingests: its messages are stored as Gmail has them.
\* A thread with none is removed by the finalization, unless the walk had listed it.
WalkThread(d) ==
    /\ pass = Idle /\ connected /\ ~replica.ready /\ d \in replica.owed
    /\ LET old == {m \in DOMAIN mail : mail[m].draft = d}
           here == {m \in old : Exists(m)}
       IN \E drop \in IF here = {} THEN {{}, old} ELSE {{}} :
             /\ stored' = [m \in Message |-> IF m \in here \union drop THEN LabelOf(m)
                                             ELSE stored[m]]
             /\ rows' = [e \in Draft |-> IF rows[e].message \in drop
                                         THEN [rows[e] EXCEPT !.linked = FALSE] ELSE rows[e]]
    /\ replica' = [replica EXCEPT !.owed = @ \ {d}]
    /\ UNCHANGED <<gmailVars, connected, pass, retry, missed, mishaps>>

\* finalizeGmailSyncActivity: the replay starts where the walk began.
BeginFinal ==
    /\ pass = Idle /\ connected /\ ~replica.ready /\ replica.owed = {}
    /\ pass' = [Idle EXCEPT !.kind = "final", !.at = "read", !.start = replica.base]
    /\ UNCHANGED <<gmailVars, connected, replica, stored, rows, retry, missed, mishaps>>

\* The records of a range about one message become one change: the highest
\* action, the labels of the last record.  A change of labels of a message that
\* is not stored has the message fetched.
About(m) == {i \in pass.start + 1 .. Len(history) : history[i].message = m}
Rank == [labels |-> 1, upsert |-> 2, delete |-> 3]
Merged(m) ==
    LET ops == {history[i].op : i \in About(m)}
        highest == CHOOSE o \in ops : \A p \in ops : Rank[o] >= Rank[p]
        last == CHOOSE i \in About(m) : \A j \in About(m) : i >= j
    IN [op |-> highest, label |-> history[last].label]
ChangeOf(m) ==
    CASE About(m) = {}                                    -> Keep
      [] About(m) # {} /\ Merged(m).op = "labels" /\ stored[m] = "gone" ->
           [Merged(m) EXCEPT !.op = "upsert"]
      [] OTHER                                            -> Merged(m)
Related(m) == \E i \in About(m) : history[i].related
\* The messages in the order in which the range first speaks of them.
First(m) == CHOOSE i \in About(m) : \A j \in About(m) : i <= j
InOrder(messages, place) ==
    CHOOSE s \in SetToSeqs(messages) : \A i, j \in DOMAIN s : i < j => place[s[i]] < place[s[j]]
Affected ==
    LET messages == {m \in Message : Related(m)}
    IN InOrder(messages, [m \in messages |-> First(m)])

ReadHistory ==
    /\ pass.at = "read"
    /\ pass' = [pass EXCEPT !.at = "fetch", !.upto = Len(history),
                            !.batch = [m \in Message |-> ChangeOf(m)], !.todo = Affected]
    /\ UNCHANGED <<gmailVars, connected, replica, stored, rows, retry, missed, mishaps>>

\* A message that is gone by now (404) is deleted.
Fetched(m) ==
    IF pass.batch[m].op # "upsert" THEN pass.batch[m]
    ELSE [op |-> IF Exists(m) THEN "upsert" ELSE "delete", label |-> LabelOf(m)]
FetchMessages ==
    /\ pass.at = "fetch"
    /\ pass' = [pass EXCEPT !.at = "apply", !.batch = [m \in Message |-> Fetched(m)]]
    /\ UNCHANGED <<gmailVars, connected, replica, stored, rows, retry, missed, mishaps>>

\* After the refresh a finalization replays once more if a notification came,
\* and then lists all drafts.
GoesOn(p) ==
    IF p.kind = "catchup" THEN Ends
    ELSE /\ \/ pass' = [p EXCEPT !.at = "list", !.syncing = TRUE]
            \/ /\ p.upto < Len(history)
               /\ pass' = [Idle EXCEPT !.kind = "final", !.at = "read", !.start = p.upto]
         /\ UNCHANGED retry

\* applyGmailHistoryBatch: messages, labels, deletions and cursor in one
\* transaction.  Deleting a message clears the messageId of the row that names it.
AppliedTo(m) ==
    CASE pass.batch[m].op = "keep"   -> stored[m]
      [] pass.batch[m].op = "delete" -> "gone"
      [] OTHER                       -> pass.batch[m].label
Unlinked(d) == rows[d].message # 0 /\ pass.batch[rows[d].message].op = "delete"
NextCursor == pass.upto
ApplyBatch ==
    /\ pass.at = "apply"
    /\ IF connected
       THEN /\ stored' = [m \in Message |-> AppliedTo(m)]
            /\ rows' = [d \in Draft |-> IF Unlinked(d) THEN [rows[d] EXCEPT !.linked = FALSE]
                                                       ELSE rows[d]]
            /\ replica' = [replica EXCEPT !.cursor = NextCursor]
            /\ LET next == [pass EXCEPT !.at = "list", !.batch = NoBatch, !.start = 0]
               IN IF pass.todo = <<>> THEN GoesOn(next)
                  ELSE pass' = next /\ UNCHANGED retry
       ELSE /\ Ends                              \* superseded
            /\ UNCHANGED <<stored, rows, replica>>
    /\ UNCHANGED <<gmailVars, connected, missed, mishaps>>

-----------------------------------------------------------------------------
(* The rows.                                                               *)

\* listGmailDrafts, for the affected messages or for all.
Listed == {[message |-> Current(d), draft |-> d] : d \in {e \in Draft : Current(e) # 0}}
ListDrafts ==
    /\ pass.at = "list"
    /\ LET messages == {r.message : r \in Listed}
           all == InOrder(messages, [m \in messages |-> m])
           todo == IF pass.syncing THEN all ELSE pass.todo
           next == [pass EXCEPT !.at = "refresh", !.todo = todo,
                                !.references = {r \in Listed : r.message \in Range(todo)}]
       IN pass' = IF todo = <<>> THEN [next EXCEPT !.at = "replace"] ELSE next
    /\ UNCHANGED <<gmailVars, connected, replica, stored, rows, retry, missed, mishaps>>

\* The first message has been seen to.
Done(found) ==
    LET left == [pass EXCEPT !.at = "refresh", !.todo = Tail(@), !.got = {},
                             !.references = {r \in @ : r.message # Head(pass.todo)},
                             !.found = found]
    IN CASE left.todo # <<>> -> pass' = left /\ UNCHANGED retry
         [] left.todo = <<>> /\ left.syncing ->
                pass' = [left EXCEPT !.at = "replace"] /\ UNCHANGED retry
         [] OTHER -> GoesOn(left)

ReferenceOf(m) == {r \in pass.references : r.message = m}
\* deleteGmailDraftResourceByMessageId: no draft of Gmail has the message.
RemoveRow ==
    /\ pass.at = "refresh" /\ ReferenceOf(Head(pass.todo)) = {}
    /\ rows' = [d \in Draft |-> IF rows[d].message = Head(pass.todo) THEN NoRow ELSE rows[d]]
    /\ missed' = missed \ {Head(pass.todo)}
    /\ Done(pass.found)
    /\ UNCHANGED <<gmailVars, connected, replica, stored, mishaps>>

\* getGmailDraft names the draft, which may hold another message by now.  A draft
\* that is gone (404) fails a finalization; of a catch-up it passes for an expired
\* cursor.
GetDraft ==
    /\ pass.at = "refresh"
    /\ \E r \in ReferenceOf(Head(pass.todo)) :
          CASE Current(r.draft) # 0 ->
                 /\ pass' = [pass EXCEPT !.at = "store",
                                !.got = {[r EXCEPT !.message = Current(r.draft)]}]
                 /\ UNCHANGED <<retry, missed>>
            [] Current(r.draft) = 0 /\ pass.kind = "catchup" ->
                 pass' = [pass EXCEPT !.at = "repair"] /\ UNCHANGED <<retry, missed>>
            [] OTHER -> Aborts
    /\ UNCHANGED <<gmailVars, connected, replica, stored, rows, mishaps>>

\* repairExpiredHistory: a run that walks all threads and starts where the mailbox
\* is now.  Without the grant the watch cannot be renewed, and the attempt gives up.
StartRepair ==
    /\ pass.at = "repair"
    /\ replica' = IF connected
                  THEN [replica EXCEPT !.ready = FALSE, !.base = Len(history), !.owed = Draft]
                  ELSE replica
    /\ missed' = missed \union CutOff
    /\ Ends
    /\ UNCHANGED <<gmailVars, connected, stored, rows, mishaps>>

\* storeMessage, a transaction of its own.
StoreDraft ==
    /\ pass.at = "store"
    /\ stored' = [m \in Message |-> IF \E r \in pass.got : r.message = m THEN "draft"
                                    ELSE stored[m]]
    /\ pass' = [pass EXCEPT !.at = "save"]
    /\ UNCHANGED <<gmailVars, connected, replica, rows, retry, missed, mishaps>>

RowFor(m) == [message |-> m, linked |-> stored[m] # "gone"]
\* saveGmailDraftResource: one row for each draft id.
SaveRow ==
    /\ pass.at = "save" /\ ~pass.syncing
    /\ \E r \in pass.got : rows' = [rows EXCEPT ![r.draft] = RowFor(r.message)]
    /\ missed' = missed \ {Head(pass.todo)}
    /\ Done(pass.found)
    /\ UNCHANGED <<gmailVars, connected, replica, stored, mishaps>>

CollectDraft ==
    /\ pass.at = "save" /\ pass.syncing
    /\ Done(pass.found \union pass.got)
    /\ UNCHANGED <<gmailVars, connected, replica, stored, rows, missed, mishaps>>

\* replaceGmailDraftResources: nothing if the grant is lost.
FoundOf(d) == {r \in pass.found : r.draft = d}
Replaced(d) ==
    IF FoundOf(d) = {} THEN NoRow ELSE RowFor((CHOOSE r \in FoundOf(d) : TRUE).message)
ReplaceRows ==
    /\ pass.at = "replace"
    /\ rows' = IF connected THEN [d \in Draft |-> Replaced(d)] ELSE rows
    /\ missed' = IF connected THEN {} ELSE missed
    /\ pass' = [pass EXCEPT !.at = "ready"]
    /\ UNCHANGED <<gmailVars, connected, replica, stored, retry, mishaps>>

\* markGmailReplicaReady, and the end of the run.
MarkReady ==
    /\ pass.at = "ready"
    /\ replica' = IF connected THEN [replica EXCEPT !.ready = TRUE, !.cursor = pass.upto]
                              ELSE replica
    /\ Ends
    /\ UNCHANGED <<gmailVars, connected, stored, rows, missed, mishaps>>

-----------------------------------------------------------------------------
Gmail ==
    \E d \in Draft : ComposeDraft(d) \/ RewriteDraft(d) \/ SendDraft(d) \/ DiscardDraft(d)
AttemptSteps ==
    \/ BeginCatchup \/ BeginFinal \/ ReadHistory \/ FetchMessages \/ ApplyBatch
    \/ ListDrafts \/ StoreDraft \/ SaveRow \/ CollectDraft \/ ReplaceRows \/ MarkReady
    \/ RemoveRow \/ GetDraft \/ StartRepair \/ \E d \in Draft : WalkThread(d)
DraftsNext == Gmail \/ AttemptSteps \/ LoseGrant \/ AttemptFails
DraftsSpec == DraftsInit /\ [][DraftsNext]_draftsVars

-----------------------------------------------------------------------------
\* The message a thread shows of draft d (getMailboxThreadDetail): rows that reach a message.
ShownOf(d) == IF rows[d].linked THEN rows[d].message ELSE 0

\* The replica has everything, and nobody owes it anything.
Quiet == /\ pass = Idle /\ ~retry /\ connected /\ replica.ready
         /\ replica.cursor = Len(history)

\* Deleted before the last repair began: RepairReconcilesDeletions of MailSync.
Forgotten(m) == \E i \in 1 .. replica.base : history[i].message = m /\ history[i].op = "delete"

\* drafts.ts:1-4: rows stay aligned with Gmail.  However drafts are edited, sent
\* and discarded between the list, the read and the write of a refresh, and through
\* the repair that this may start, a replica that has caught up holds Gmail's
\* messages, apart from those deleted before its repair, and shows each draft with
\* the message Gmail has in it, unless the refresh owed to the draft died with its
\* attempt, and nothing has been repaired since.
DraftsAligned ==
    /\ DraftsTypeOK
    /\ Quiet =>
          /\ \A m \in Message : stored[m] = LabelOf(m) \/ Forgotten(m)
          /\ \A d \in Draft : {rows[d].message, Current(d)} \intersect missed = {} =>
                 ShownOf(d) = Current(d)

\* The promise of drafts.ts:1-4 without its exception.  It fails: an attempt that dies
\* after its cursor has moved is retried behind the changes whose drafts it had not
\* yet refreshed, and their rows stay as they were.
AlwaysAligned == Quiet => \A d \in Draft : ShownOf(d) = Current(d)
=============================================================================
