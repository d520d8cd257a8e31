---------------------------- MODULE DraftWrites ----------------------------
(***************************************************************************)
(* Saving and sending a composed email (apps/api/src/services/             *)
(* compose-drafts.ts and compose-send.ts, packages/database/src/           *)
(* gmail-draft-writes.ts).  An intent is one email that a composer or the  *)
(* agent wants sent: it is saved as a Gmail draft under one idempotency    *)
(* key and sent under another, and whoever wants it repeats both until     *)
(* they are answered.  A request is one attempt of one of the two in the   *)
(* API process; a step of it is one statement in PostgreSQL, one read of   *)
(* Gmail, or one call that changes Gmail.                                  *)
(***************************************************************************)
EXTENDS Naturals, Sequences, FiniteSets

CONSTANTS Intent,
          Request,
          NoRequest,
          PoolSize,         \* connections of the query pool
          MaxClaims,        \* bound: times a key is claimed before its owner gives up
          MaxEdits,         \* bound: changes of drafts made in Gmail itself
          MaxFaults         \* bound: crashed requests, lost answers, lost locks, rejections

ASSUME DraftAssumption ==
    /\ NoRequest \notin Request
    /\ IsFiniteSet(Request)
    /\ {PoolSize, MaxClaims, MaxEdits, MaxFaults} \subseteq Nat

VARIABLES messages,     \* messages that are or were in drafts, by message id
          rows,         \* gmailDraftWriteOperations, by idempotency key
          claims,       \* rows inserted for a key so far; the last one's id
          req,          \* requests at work in the API
          lock,         \* withGmailDraftSendLock: who holds it, by intent
          open,         \* requests that hold a connection for its transaction
          late,         \* calls whose request no longer waits for the answer
          client,       \* what the composer or the agent wants and has been answered
          spent

vars == <<messages, rows, claims, req, lock, open, late, client, spent>>

Key == {"save", "send"} \X Intent
ExistingDraft == 1      \* a draft that was in Gmail before
Outside == <<>>         \* writer of a message that no row wrote

\* op: the row that wrote the message (its Message-ID header names it);
\* content: the message it was written as, which a send may give a new id;
\* overtook: written into its draft between a send's check of the draft and the send.
Message == [draft : Nat, op : (Intent \X Nat) \union {Outside}, content : Nat,
            overtook : BOOLEAN, state : {"draft", "sent", "trash", "gone"}]
\* The table's result check: a complete row has a result.
Row == {row \in [status : {"none", "pending", "complete"}, target : Nat] :
           row.status = "complete" => row.target # 0}
NoRow == [status |-> "none", target |-> 0]
Step == {"begin", "current", "call", "await", "list", "complete", "abandon", "respond",
         "connect", "lock", "read", "reread", "prepare", "unprepare", "confirm"}
Idle == [kind |-> "none", intent |-> "none", step |-> "none", id |-> 0, target |-> 0]
RequestRecord == [kind : {"save", "send"}, intent : Intent, step : Step, id : Nat, target : Nat]
                   \union {Idle}
Call == [kind : {"save", "send"}, intent : Intent, id : Nat, target : Nat]

\* creates: saved as a new draft, or as an update of ExistingDraft; approves: the send
\* is bound to the message that was approved, which is the agent's way.
Client == [creates : BOOLEAN, approves : BOOLEAN, draft : Nat, expected : Nat, sent : BOOLEAN]

KeyOf(r) == <<req[r].kind, req[r].intent>>
Busy == {r \in Request : req[r] # Idle}
InDraft(d) == {m \in DOMAIN messages : messages[m].draft = d /\ messages[m].state = "draft"}

TypeOK ==
    /\ messages \in Seq(Message)
    /\ rows \in [Key -> Row]
    /\ claims \in [Key -> Nat]
    /\ req \in [Request -> RequestRecord]
    /\ lock \in [Intent -> Request \union {NoRequest}]
    /\ open \subseteq Request
    /\ late \subseteq Call
    /\ client \in [Intent -> Client]
    /\ spent \in [{"edits", "faults"} -> Nat]

Init ==
    /\ messages = <<[draft |-> ExistingDraft, op |-> Outside, content |-> 1,
                     overtook |-> FALSE, state |-> "draft"]>>
    /\ rows = [k \in Key |-> NoRow]
    /\ claims = [k \in Key |-> 0]
    /\ req = [r \in Request |-> Idle]
    /\ lock = [i \in Intent |-> NoRequest]
    /\ open = {}
    /\ late = {}
    /\ client \in [Intent -> [creates : BOOLEAN, approves : BOOLEAN,
                             draft : {0}, expected : {0}, sent : {FALSE}]]
    /\ spent = [c \in {"edits", "faults"} |-> 0]

Spend(bound, counter) ==
    /\ spent[counter] < bound
    /\ spent' = [spent EXCEPT ![counter] = @ + 1]

Goto(r, step) == req' = [req EXCEPT ![r].step = step]
GotoWith(r, step, target) == req' = [req EXCEPT ![r].step = step, ![r].target = target]

\* The request ends; its transaction, if it has one, gives lock and connection back.
Unlocked(r) == [i \in Intent |-> IF lock[i] = r THEN NoRequest ELSE lock[i]]
End(r) ==
    /\ req' = [req EXCEPT ![r] = Idle]
    /\ lock' = Unlocked(r)
    /\ open' = open \ {r}

\* A statement needs a connection of the pool for as long as it runs.
CanQuery == Cardinality(open) < PoolSize

At(r, kind, step) == req[r].kind = kind /\ req[r].step = step
QueriesAt(r, kind, step) == At(r, kind, step) /\ CanQuery

-----------------------------------------------------------------------------
(* What composers and the agent ask for: sendGmailComposeAttempt, and the  *)
(* saveDraft and sendEmail capabilities.                                   *)

AskSave(r, i) ==
    /\ req[r] = Idle
    /\ client[i].draft = 0
    /\ req' = [req EXCEPT ![r] = [kind |-> "save", intent |-> i, step |-> "begin",
                                   id |-> 0, target |-> 0]]
    /\ UNCHANGED <<messages, rows, claims, lock, open, late, client, spent>>

AskSend(r, i) ==
    /\ req[r] = Idle
    /\ client[i].draft # 0 /\ ~client[i].sent
    /\ req' = [req EXCEPT ![r] = [kind |-> "send", intent |-> i, step |-> "connect",
                                   id |-> 0, target |-> 0]]
    /\ UNCHANGED <<messages, rows, claims, lock, open, late, client, spent>>

-----------------------------------------------------------------------------
(* saveComposeDraft.                                                       *)

\* beginGmailDraftWrite: the insert claims the key, or the row that has it is read.
Claim(k) ==
    /\ rows' = [rows EXCEPT ![k] = [status |-> "pending", target |-> 0]]
    /\ claims' = [claims EXCEPT ![k] = @ + 1]

MayClaim(k) == rows[k].status = "none" => claims[k] < MaxClaims

GiveUp(r) ==
    /\ req[r].step = "begin"
    /\ ~MayClaim(KeyOf(r))
    /\ End(r)
    /\ UNCHANGED <<messages, rows, claims, late, client, spent>>

BeginSave(r) ==
    /\ QueriesAt(r, "save", "begin")
    /\ MayClaim(KeyOf(r))
    /\ LET k == KeyOf(r)
           row == rows[k]
           next == CASE row.status = "none" /\ client[req[r].intent].creates -> "call"
                     [] row.status = "none" /\ ~client[req[r].intent].creates -> "current"
                     [] row.status = "pending"  -> "list"
                     [] row.status = "complete" -> "respond"
       IN /\ IF row.status = "none" THEN Claim(k) ELSE UNCHANGED <<rows, claims>>
          /\ req' = [req EXCEPT ![r].step = next, ![r].id = claims'[k], ![r].target = row.target]
    /\ UNCHANGED <<messages, lock, open, late, client, spent>>

\* The draft that is to be updated is read first.
ReadCurrent(r) ==
    /\ At(r, "save", "current")
    /\ Goto(r, IF InDraft(ExistingDraft) # {} THEN "call" ELSE "abandon")
    /\ UNCHANGED <<messages, rows, claims, lock, open, late, client, spent>>

\* Whatever fails before the call has started: a message that cannot be composed,
\* a draft of another thread, a read of Gmail.
SaveFailsEarly(r) ==
    /\ req[r].kind = "save" /\ req[r].step \in {"current", "call"}
    /\ Spend(MaxFaults, "faults")
    /\ Goto(r, "abandon")
    /\ UNCHANGED <<messages, rows, claims, lock, open, late, client>>

Issue(r) ==
    /\ req[r].step = "call"
    /\ Goto(r, "await")
    /\ UNCHANGED <<messages, rows, claims, lock, open, late, client, spent>>

\* From the check of a draft until nobody is about to send it any more.
SendUnderWay(d) ==
    \/ \E r \in Request : /\ req[r].kind = "send"
                          /\ req[r].step \in {"prepare", "call", "await"}
                          /\ messages[req[r].target].draft = d
    \/ \E call \in late : call.kind = "send" /\ messages[call.target].draft = d

\* What drafts.create and drafts.update do.
SaveAccepted(i) == client[i].creates \/ InDraft(ExistingDraft) # {}
NextMessage == Len(messages) + 1
Saved(i, id) ==
    LET draft == IF client[i].creates THEN NextMessage ELSE ExistingDraft
        kept == [m \in DOMAIN messages |->
                   IF m \in InDraft(draft) THEN [messages[m] EXCEPT !.state = "gone"]
                                           ELSE messages[m]]
    IN Append(kept, [draft |-> draft, op |-> <<i, id>>, content |-> NextMessage,
                     overtook |-> SendUnderWay(draft), state |-> "draft"])

SaveAnswered(r) ==
    /\ At(r, "save", "await")
    /\ IF SaveAccepted(req[r].intent)
       THEN /\ messages' = Saved(req[r].intent, req[r].id)
            /\ GotoWith(r, "complete", NextMessage)
       ELSE /\ Goto(r, "abandon")
            /\ UNCHANGED messages
    /\ UNCHANGED <<rows, claims, lock, open, late, client, spent>>

\* isKnownProviderRejection: an answer with a status means that nothing was written.
SaveRejected(r) ==
    /\ At(r, "save", "await")
    /\ Spend(MaxFaults, "faults")
    /\ Goto(r, "abandon")
    /\ UNCHANGED <<messages, rows, claims, lock, open, late, client>>

\* abandonPendingGmailDraftWrite; the request then ends with its error.
IsPendingAs(k, id) == rows[k].status = "pending" /\ claims[k] = id

AbandonSave(r) ==
    /\ QueriesAt(r, "save", "abandon")
    /\ rows' = IF IsPendingAs(KeyOf(r), req[r].id) THEN [rows EXCEPT ![KeyOf(r)] = NoRow] ELSE rows
    /\ End(r)
    /\ UNCHANGED <<messages, claims, late, client, spent>>

\* recoverPendingWrite looks for the draft by the Message-ID header of its row.
WrittenBy(i, id) == {m \in DOMAIN messages :
                        messages[m].op = <<i, id>> /\ messages[m].state = "draft"}
\* draftPageResult: exactly one draft resolves the write.  Mutant: any page does.
ResolvesAnyway(found) == TRUE
Resolves(found) == Cardinality(found) = 1
OnlyOne(found) == CHOOSE m \in found \union {0} : m # 0 \/ found = {}

ListDrafts(r) ==
    /\ At(r, "save", "list")
    /\ LET found == WrittenBy(req[r].intent, req[r].id)
       IN IF Resolves(found)
          THEN /\ GotoWith(r, "complete", OnlyOne(found))
               /\ UNCHANGED <<lock, open>>
          ELSE End(r)
    /\ UNCHANGED <<messages, rows, claims, late, client, spent>>

\* completeGmailDraftWrite, for saves and sends.
Complete(r) ==
    /\ req[r].step = "complete" /\ CanQuery
    /\ LET k == KeyOf(r)
           done == [status |-> "complete", target |-> req[r].target]
       IN IF IsPendingAs(k, req[r].id) \/ (claims[k] = req[r].id /\ rows[k] = done)
          THEN /\ rows' = [rows EXCEPT ![k] = done]
               /\ Goto(r, "respond")
               /\ UNCHANGED <<lock, open>>
          ELSE /\ End(r)
               /\ UNCHANGED rows
    /\ UNCHANGED <<messages, claims, late, client, spent>>

\* completedResponse enqueues a catch-up, and the answer reaches who asked; but a
\* send whose transaction has lost its connection cannot commit, and ends with an error.
Respond(r) ==
    /\ req[r].step = "respond" /\ CanQuery
    /\ LET i == req[r].intent
       IN client' = CASE req[r].kind = "save" ->
                           [client EXCEPT ![i].draft = messages[req[r].target].draft,
                                          ![i].expected = req[r].target]
                      [] req[r].kind = "send" /\ r \in open ->
                           [client EXCEPT ![i].sent = TRUE]
                      [] OTHER -> client
    /\ End(r)
    /\ UNCHANGED <<messages, rows, claims, late, spent>>

-----------------------------------------------------------------------------
(* sendComposeDraft.                                                       *)

\* withGmailDraftSendLock: the transaction takes a connection and keeps it
\* while it waits for the advisory lock and while the send is at work.
Connect(r) ==
    /\ QueriesAt(r, "send", "connect")
    /\ open' = open \union {r}
    /\ Goto(r, "lock")
    /\ UNCHANGED <<messages, rows, claims, lock, late, client, spent>>

Lock(r) ==
    /\ At(r, "send", "lock")
    /\ lock[req[r].intent] = NoRequest
    /\ lock' = [lock EXCEPT ![req[r].intent] = r]
    /\ Goto(r, "begin")
    /\ UNCHANGED <<messages, rows, claims, open, late, client, spent>>

BeginSend(r) ==
    /\ QueriesAt(r, "send", "begin")
    /\ MayClaim(KeyOf(r))
    /\ LET k == KeyOf(r)
           row == rows[k]
           next == CASE row.status = "complete"                    -> "respond"
                     [] row.status = "pending" /\ row.target # 0   -> "reread"
                     [] OTHER                                      -> "read"
       IN /\ IF row.status = "none" THEN Claim(k) ELSE UNCHANGED <<rows, claims>>
          /\ req' = [req EXCEPT ![r].step = next, ![r].id = claims'[k], ![r].target = row.target]
    /\ UNCHANGED <<messages, lock, open, late, client, spent>>

\* prepareAndSend: the draft must be there, and be what was approved.
\* Mutant: the draft's message is not compared.
AsAnything(i, m) == TRUE
AsApproved(i, m) == client[i].approves => m = client[i].expected

ReadDraft(r) ==
    /\ At(r, "send", "read")
    /\ LET i == req[r].intent
           found == InDraft(client[i].draft)
       IN IF \E m \in found : AsApproved(i, m)
          THEN GotoWith(r, "prepare", CHOOSE m \in found : AsApproved(i, m))
          ELSE Goto(r, "unprepare")
    /\ UNCHANGED <<messages, rows, claims, lock, open, late, client, spent>>

\* abandonUnpreparedGmailDraftSend; an error either way.  Mutant: it is
\* abandonPendingGmailDraftWrite, which does not ask whether the send was prepared.
PreparedOrNot(k) == TRUE
Unprepared(k) == rows[k].target = 0
Unprepare(r) ==
    /\ QueriesAt(r, "send", "unprepare")
    /\ rows' = IF IsPendingAs(KeyOf(r), req[r].id) /\ Unprepared(KeyOf(r))
               THEN [rows EXCEPT ![KeyOf(r)] = NoRow] ELSE rows
    /\ End(r)
    /\ UNCHANGED <<messages, claims, late, client, spent>>

\* prepareGmailDraftSend records what is about to be sent.
Prepare(r) ==
    /\ QueriesAt(r, "send", "prepare")
    /\ LET k == KeyOf(r)
       IN IF IsPendingAs(k, req[r].id) /\ rows[k].target \in {0, req[r].target}
          THEN /\ rows' = [rows EXCEPT ![k].target = req[r].target]
               /\ Goto(r, "call")
               /\ UNCHANGED <<lock, open>>
          ELSE /\ End(r)
               /\ UNCHANGED rows
    /\ UNCHANGED <<messages, claims, late, client, spent>>

\* recoverPreparedSend: send again only what was prepared.
RereadDraft(r) ==
    /\ At(r, "send", "reread")
    /\ LET found == InDraft(messages[req[r].target].draft)
       IN CASE found = {}                -> Goto(r, "confirm") /\ UNCHANGED <<lock, open>>
            [] found = {req[r].target}   -> Goto(r, "call") /\ UNCHANGED <<lock, open>>
            [] OTHER                     -> End(r)
    /\ UNCHANGED <<messages, rows, claims, late, client, spent>>

\* What drafts.send does to the message that is in the draft by then.
SendTargets(m) == InDraft(messages[m].draft)
SentAs(m, id) ==
    IF id = m THEN [messages EXCEPT ![m].state = "sent"]
    ELSE Append([messages EXCEPT ![m].state = "gone"], [messages[m] EXCEPT !.state = "sent"])
\* The sent message may keep the id of the draft's message, or get another.
SentIds(m) == {m, NextMessage}

SendAnswered(r) ==
    /\ At(r, "send", "await")
    /\ LET found == SendTargets(req[r].target)
       IN \/ /\ found = {}
             /\ Goto(r, "confirm")
             /\ UNCHANGED messages
          \/ \E m \in found : \E id \in SentIds(m) :
               /\ messages' = SentAs(m, id)
               /\ GotoWith(r, "complete", id)
    /\ UNCHANGED <<rows, claims, lock, open, late, client, spent>>

\* recoverSentMessage believes only a message that carries the label SENT.
\* Mutants: it believes any message; it believes a message that is still a draft.
ConfirmsAny(m) == TRUE
ConfirmsDraft(m) == messages[m].state = "draft"
Confirms(m) == messages[m].state = "sent"
ConfirmSent(r) ==
    /\ At(r, "send", "confirm")
    /\ IF Confirms(req[r].target)
       THEN Goto(r, "complete") /\ UNCHANGED <<lock, open>>
       ELSE End(r)
    /\ UNCHANGED <<messages, rows, claims, late, client, spent>>

-----------------------------------------------------------------------------
(* Failures, and what happens in Gmail meanwhile.                          *)

\* Only a rejection abandons a save: the row of a call that was lost is kept.
\* Mutant: every failure abandons it.
RowsForgotten(r) == IF At(r, "save", "await") THEN [rows EXCEPT ![KeyOf(r)] = NoRow] ELSE rows
RowsKept(r) == rows

\* A request dies: its process crashes, a statement or a read of Gmail fails,
\* the answer of a call or of the request is lost.  A call that is out may arrive.
Dies(r) ==
    /\ req[r] # Idle
    /\ Spend(MaxFaults, "faults")
    /\ \/ UNCHANGED late
       \/ /\ req[r].step = "await"
          /\ late' = late \union {[kind |-> req[r].kind, intent |-> req[r].intent,
                                   id |-> req[r].id, target |-> req[r].target]}
    /\ rows' = RowsKept(r)
    /\ End(r)
    /\ UNCHANGED <<messages, claims, client>>

\* The connection of the transaction drops: the lock is free while the send goes on.
LoseLock(r) ==
    /\ r \in open
    /\ \E i \in Intent : lock[i] = r
    /\ Spend(MaxFaults, "faults")
    /\ lock' = Unlocked(r)
    /\ open' = open \ {r}
    /\ UNCHANGED <<messages, rows, claims, req, late, client>>

Arrives(call) ==
    /\ call \in late
    /\ late' = late \ {call}
    /\ \/ /\ call.kind = "save" /\ SaveAccepted(call.intent)
          /\ messages' = Saved(call.intent, call.id)
       \/ /\ call.kind = "send"
          /\ \E m \in SendTargets(call.target) : \E id \in SentIds(m) :
               messages' = SentAs(m, id)
       \/ /\ IF call.kind = "save" THEN ~SaveAccepted(call.intent)
                                    ELSE SendTargets(call.target) = {}
          /\ UNCHANGED messages
    /\ UNCHANGED <<rows, claims, req, lock, open, client, spent>>

EditOutside(m) ==
    /\ messages[m].state = "draft"
    /\ Spend(MaxEdits, "edits")
    /\ messages' = Append([messages EXCEPT ![m].state = "gone"],
                          [draft |-> messages[m].draft, op |-> Outside, content |-> NextMessage,
                           overtook |-> SendUnderWay(messages[m].draft), state |-> "draft"])
    /\ UNCHANGED <<rows, claims, req, lock, open, late, client>>

\* The draft is discarded, put into the trash, or sent, in Gmail.
LeaveOutside(m, state) ==
    /\ messages[m].state = "draft"
    /\ Spend(MaxEdits, "edits")
    /\ messages' = [messages EXCEPT ![m].state = state]
    /\ UNCHANGED <<rows, claims, req, lock, open, late, client>>

-----------------------------------------------------------------------------
SaveStep(r) ==
    \/ BeginSave(r) \/ ReadCurrent(r) \/ SaveAnswered(r)
    \/ AbandonSave(r) \/ ListDrafts(r)

SendStep(r) ==
    \/ Connect(r) \/ Lock(r) \/ BeginSend(r) \/ ReadDraft(r) \/ Unprepare(r)
    \/ Prepare(r) \/ RereadDraft(r) \/ SendAnswered(r) \/ ConfirmSent(r)

RequestStep(r) == GiveUp(r) \/ SaveStep(r) \/ SendStep(r) \/ Issue(r) \/ Complete(r) \/ Respond(r)

Ask(r, i) == AskSave(r, i) \/ AskSend(r, i)

Fault(r) == SaveFailsEarly(r) \/ SaveRejected(r) \/ Dies(r) \/ LoseLock(r)

InGmail ==
    \E m \in DOMAIN messages :
        EditOutside(m) \/ \E state \in {"gone", "trash", "sent"} : LeaveOutside(m, state)

Next ==
    \/ \E r \in Request : RequestStep(r) \/ Fault(r)
    \/ \E r \in Request, i \in Intent : Ask(r, i)
    \/ \E call \in late : Arrives(call)
    \/ InGmail

Spec == Init /\ [][Next]_vars

-----------------------------------------------------------------------------
(* What saving and sending promise.                                        *)

\* The row of an intent's save writes to Gmail at most once, whatever is retried,
\* lost or late: no second draft, and no update that comes again over later edits.
Writes(i) == {m \in DOMAIN messages : /\ messages[m].content = m
                                      /\ \E id \in 1 .. claims[<<"save", i>>] :
                                            messages[m].op = <<i, id>>}
WrittenOnce == \A i \in Intent : Cardinality(Writes(i)) <= 1

\* A send that may have reached Gmail is on record with what it sends, so that
\* no later request takes it for a new one.
MaySend(i) ==
    \/ \E r \in Request : /\ req[r].kind = "send" /\ req[r].intent = i
                          /\ req[r].step \in {"call", "await"}
    \/ \E call \in late : call.kind = "send" /\ call.intent = i
SendRemembered ==
    \A i \in Intent : MaySend(i) => /\ rows[<<"send", i>>].status # "none"
                                    /\ rows[<<"send", i>>].target # 0

\* What is answered as sent has been sent, from the draft of its intent.
SentTruly ==
    \A i \in Intent : rows[<<"send", i>>].status = "complete" =>
        LET m == rows[<<"send", i>>].target
        IN messages[m].state = "sent" /\ messages[m].draft = client[i].draft

\* SendComposeDraftInput, compose-send.ts:44-47: a draft edited after approval is
\* refused instead of sent.
SentContent(i) == messages[rows[<<"send", i>>].target].content
SentAsApproved ==
    \A i \in Intent : client[i].approves /\ rows[<<"send", i>>].status = "complete" =>
        SentContent(i) = client[i].expected

\* What the code does keep of it: the only content that leaves in place of the approved
\* one was written into the draft after prepareAndSend or recoverPreparedSend had compared
\* its message; an edit before that refuses the send, on a retry and after a lost answer too.
SentAsChecked ==
    \A i \in Intent : client[i].approves /\ rows[<<"send", i>>].status = "complete" =>
        SentContent(i) = client[i].expected \/ messages[SentContent(i)].overtook

-----------------------------------------------------------------------------
(* Progress.  The API runs every request, Gmail answers, the pool and the  *)
(* advisory lock serve their waiters in turn, and whoever wants an email   *)
(* sent repeats the send until it is answered.                             *)
Fairness ==
    /\ \A r \in Request : SF_vars(RequestStep(r))
    /\ \A i \in Intent : WF_vars(\E r \in Request : AskSend(r, i))
    /\ WF_vars(\E call \in late : Arrives(call))

FairSpec == Spec /\ Fairness

\* withGmailAccountControlLock, client.ts:92-94: lock acquisition must use a pool that the
\* locked operation never queries.  Every request ends, however many hold or wait for the lock.
RequestsReturn == \A r \in Request : req[r] # Idle ~> req[r] = Idle

\* A draft that its recorded send has sent is reported as sent in the end.
SentIsReported ==
    \A i \in Intent :
        /\ client[i].draft # 0
        /\ rows[<<"send", i>>].target # 0
        /\ messages[rows[<<"send", i>>].target].state = "sent"
        ~> client[i].sent

=============================================================================
