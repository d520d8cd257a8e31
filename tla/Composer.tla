------------------------------ MODULE Composer ------------------------------
(***************************************************************************)
(* Writing an email in a browser tab: the page for a new message (apps/web *)
(* components/mail/compose-surface.tsx) or the reply under a thread        *)
(* (hooks/use-thread-composer.ts), of which the tab shows one at a time,   *)
(* the two calls by which either sends (lib/api/gmail-compose-send.ts),    *)
(* and what the API answers them (apps/api routes/compose-drafts.ts).  A   *)
(* text is a number: a later edit has a higher one, and 0 is a message     *)
(* that does not validate.  An attempt is known by its number, which       *)
(* stands for its two idempotency keys.  What happens inside a save or a   *)
(* send is the matter of DraftWrites; here each is one step with the       *)
(* outcomes it may leave.                                                  *)
(***************************************************************************)
EXTENDS Naturals, Sequences

CONSTANTS Account,
          ReplyAccount,     \* the account of the thread that is read
          All, None,
          MaxAttempts,      \* bound: attempts that are begun
          MaxText,          \* bound: edits of one message
          MaxSessions,      \* bound: messages begun
          MaxMoves,         \* bound: changes of scope or sender, closed composers
          MaxFaults         \* bound: failed and lost calls, changes of accounts

ASSUME ComposerAssumption ==
    /\ ReplyAccount \in Account /\ All \notin Account /\ None \notin Account
    /\ {MaxAttempts, MaxText, MaxSessions, MaxMoves, MaxFaults} \subseteq Nat

VARIABLES composer,     \* the composer that is shown
          sender,       \* ComposeSenderAccountState of the page
          scope,        \* the account parameter of the address
          known,        \* the accounts as the tab has read them
          status,       \* connectedAccounts.status
          attempts,     \* GmailComposeSendAttempt: what was asked, by whom
          calls,        \* requests that the API has not answered
          saved, sent,  \* the rows under the attempts' keys
          draft,        \* the draft of an attempt at Gmail
          spent

vars == <<composer, sender, scope, known, status, attempts, calls, saved, sent, draft, spent>>

Status == {"connected", "reconnect_required", "gone"}
Id == 1 .. MaxAttempts

ComposerRecord ==
    [kind : {"none", "page", "reply"}, session : 0 .. MaxSessions, text : 0 .. MaxText, attempt : 0 .. MaxAttempts,
     phase : {"none", "save", "send"},
     status : {"editing", "sending", "sent", "error", "send_error", "reconnect_required"}]
Attempt == [session : 1 .. MaxSessions, text : 1 .. MaxText, account : Account]
\* alive: the promise in the tab still waits for the answer.
Call == [of : Id, op : {"save", "send"}, alive : BOOLEAN]

TypeOK ==
    /\ composer \in ComposerRecord
    /\ sender \in [account : Account \union {None}, binding : {"editable", "save_attempt"}]
    /\ scope \in Account \union {All}
    /\ known \in [Account -> Status] /\ status \in [Account -> Status]
    /\ attempts \in Seq(Attempt)
    /\ Len(attempts) <= MaxAttempts
    /\ calls \subseteq Call
    /\ saved \in [Id -> {"none", "pending", "complete"}]
    /\ sent \in [Id -> {"none", "prepared", "complete"}]
    /\ draft \in [Id -> {"none", "draft", "sent", "gone"}]
    /\ spent \in [{"moves", "faults"} -> Nat]

Closed(n) == [kind |-> "none", session |-> n, text |-> 0, attempt |-> 0, phase |-> "none",
              status |-> "editing"]

NoSender == [account |-> None, binding |-> "editable"]

Init ==
    /\ composer = Closed(0)
    /\ sender = NoSender
    /\ scope = All
    /\ known = [a \in Account |-> "connected"] /\ status = known
    /\ attempts = <<>> /\ calls = {}
    /\ saved = [i \in Id |-> "none"] /\ sent = saved /\ draft = saved
    /\ spent = [moves |-> 0, faults |-> 0]

Spends(what) ==
    /\ spent[what] < (IF what = "moves" THEN MaxMoves ELSE MaxFaults)
    /\ spent' = [spent EXCEPT ![what] = @ + 1]

-----------------------------------------------------------------------------
(* What the reader of the page sees.                                       *)

\* An account that the tab does not list stands for no restriction.
Scope == IF scope \in Account /\ known[scope] # "gone" THEN scope ELSE All

\* The sender the composer shows.
\* Mutant: the scope decides although an attempt has its sender.
SenderInScope ==
    IF composer.kind = "reply" THEN ReplyAccount
    ELSE IF Scope = All THEN sender.account ELSE Scope
Sender ==
    IF composer.kind = "reply" THEN ReplyAccount
    ELSE IF sender.binding = "save_attempt" \/ Scope = All THEN sender.account ELSE Scope

\* Mutant: a send that failed leaves the message open.
LockedWhileSending == composer.status \in {"sending", "sent", "reconnect_required"}
IsComposeDraftLocked ==
    composer.phase = "send" \/ composer.status \in {"sending", "sent", "reconnect_required"}

Locked ==
    IF composer.kind = "page" THEN IsComposeDraftLocked
    ELSE composer.status = "sending" \/ composer.attempt # 0

-----------------------------------------------------------------------------
(* The person at the tab.                                                  *)

\* Opens the page, or a reply or forward (handleOpen).
Open(kind) ==
    /\ composer.kind = "none" /\ composer.session < MaxSessions
    /\ composer' = [Closed(composer.session + 1) EXCEPT !.kind = kind]
    /\ sender' = IF kind = "reply" THEN NoSender
                 ELSE [account |-> IF Scope = All THEN None ELSE Scope, binding |-> "editable"]
    /\ UNCHANGED <<scope, known, status, attempts, calls, saved, sent, draft, spent>>

Unsaved(text) == [composer EXCEPT !.text = text, !.attempt = 0, !.phase = "none", !.status = "editing"]

Edit ==
    /\ composer.kind # "none" /\ ~Locked /\ composer.text < MaxText
    /\ composer' = Unsaved(composer.text + 1)
    /\ sender' = [sender EXCEPT !.binding = "editable"]
    /\ UNCHANGED <<scope, known, status, attempts, calls, saved, sent, draft, spent>>

ChangeSender(a) ==
    /\ composer.kind = "page" /\ ~Locked /\ Scope = All /\ known[a] = "connected"
    /\ sender.account # a
    /\ Spends("moves")
    /\ sender' = [account |-> a, binding |-> "editable"]
    /\ composer' = Unsaved(composer.text)
    /\ UNCHANGED <<scope, known, status, attempts, calls, saved, sent, draft>>

\* The sidebar's choice of account leaves an open page as it is.
SelectScope(x) ==
    /\ x # scope /\ x \in {All} \union {a \in Account : known[a] # "gone"}
    /\ Spends("moves")
    /\ scope' = x
    /\ UNCHANGED <<composer, sender, known, status, attempts, calls, saved, sent, draft>>

CanPress ==
    /\ composer.kind # "none"
    /\ composer.status \notin {"sending", "sent", "reconnect_required"}
    /\ composer.kind = "reply" => known[ReplyAccount] = "connected"

Valid == composer.text # 0 /\ Sender # None /\ known[Sender] # "gone"

\* Without an account to send from, or with fields that do not validate.
PressInVain ==
    /\ CanPress /\ ~Valid /\ composer.status # "error"
    /\ composer' = [composer EXCEPT !.status = "error"]
    /\ UNCHANGED <<sender, scope, known, status, attempts, calls, saved, sent, draft, spent>>

\* handleSend: repeats the attempt that stands, or begins one with new keys.
Press ==
    /\ CanPress /\ Valid
    /\ LET fresh == composer.attempt = 0
           i == IF fresh THEN Len(attempts) + 1 ELSE composer.attempt
           phase == IF fresh THEN "save" ELSE composer.phase
       IN  /\ i \in Id
           /\ attempts' = IF fresh
                 THEN Append(attempts, [session |-> composer.session, text |-> composer.text,
                                        account |-> Sender])
                 ELSE attempts
           /\ composer' = [composer EXCEPT !.attempt = i, !.phase = phase, !.status = "sending"]
           /\ calls' = calls \union {[of |-> i, op |-> phase, alive |-> TRUE]}
           /\ sender' = IF composer.kind = "reply" THEN sender
                        ELSE [account |-> attempts'[i].account, binding |-> "save_attempt"]
    /\ UNCHANGED <<scope, known, status, saved, sent, draft, spent>>

\* Leaves the page or the thread, or discards a reply: what is under way goes on.
Close ==
    /\ composer.kind # "none" /\ Spends("moves")
    /\ composer' = Closed(composer.session) /\ sender' = NoSender
    /\ UNCHANGED <<scope, known, status, attempts, calls, saved, sent, draft>>

\* Loads the tab anew, as a reconnection does: nobody waits for an answer any more.
Reload ==
    /\ Spends("moves")
    /\ composer' = Closed(composer.session) /\ sender' = NoSender
    /\ calls' = {[q EXCEPT !.alive = FALSE] : q \in calls}
    /\ known' = status
    /\ UNCHANGED <<scope, status, attempts, saved, sent, draft>>

ReadShell ==
    /\ known # status /\ known' = status
    /\ UNCHANGED <<composer, sender, scope, status, attempts, calls, saved, sent, draft, spent>>

-----------------------------------------------------------------------------
(* The API.                                                                *)

\* The composer shows the message the attempt was begun for.
Shown(i) == composer.kind # "none" /\ composer.session = attempts[i].session
Heard(q) == q.alive /\ Shown(q.of)

\* sendGmailComposeAttempt learns the draft: it is recorded, and its send begins,
\* also when the composer has been left.
HearsDraft(q) ==
    /\ calls' = (calls \ {q}) \union
                  (IF q.alive THEN {[of |-> q.of, op |-> "send", alive |-> TRUE]} ELSE {})
    /\ composer' = IF Heard(q) THEN [composer EXCEPT !.phase = "send"] ELSE composer

HearsSent(q) ==
    /\ calls' = calls \ {q}
    /\ composer' =
         IF ~Heard(q) THEN composer
         ELSE IF composer.kind = "page"
         THEN [composer EXCEPT !.status = "sent", !.attempt = 0, !.phase = "none"]
         ELSE Closed(composer.session)

\* Only the page tells a lost authorization from other failures.
HearsError(q, why) ==
    composer' =
        IF Heard(q)
        THEN [composer EXCEPT !.status = IF composer.kind = "page" THEN why ELSE "send_error"]
        ELSE composer

\* A failure with the answer it is given: a rejected grant also closes the account.
Fails(q) ==
    /\ Spends("faults") /\ calls' = calls \ {q}
    /\ \/ HearsError(q, "send_error") /\ status' = status
       \/ /\ HearsError(q, "reconnect_required")
          /\ status' = [status EXCEPT ![attempts[q.of].account] = "reconnect_required"]

Connected(q) == status[attempts[q.of].account] = "connected"

\* getGmailProviderAccessForAccount finds no connected account.
ServeDenied(q) ==
    /\ ~Connected(q)
    /\ calls' = calls \ {q} /\ HearsError(q, "send_error")
    /\ UNCHANGED <<sender, scope, known, status, attempts, saved, sent, draft, spent>>

ServeSave(q) ==
    LET i == q.of IN
    /\ q.op = "save" /\ Connected(q)
    /\ \/ \* saved before, found at Gmail, or written now
          /\ saved[i] = "pending" => draft[i] = "draft"
          /\ saved' = [saved EXCEPT ![i] = "complete"]
          /\ draft' = [draft EXCEPT ![i] = IF saved[i] = "none" THEN "draft" ELSE @]
          /\ HearsDraft(q) /\ UNCHANGED <<status, spent>>
       \/ \* a claim whose draft cannot be found
          /\ saved[i] = "pending" /\ draft[i] # "draft"
          /\ calls' = calls \ {q} /\ HearsError(q, "send_error")
          /\ UNCHANGED <<status, saved, draft, spent>>
       \/ \* refused, or its outcome in doubt
          /\ Fails(q)
          /\ \/ UNCHANGED <<saved, draft>>
             \/ /\ saved[i] # "complete"
                /\ \E row \in {"pending", "complete"}, d \in {"none", "draft"} :
                      /\ row = "complete" => d = "draft"
                      /\ saved[i] = "pending" => d = draft[i]
                      /\ saved' = [saved EXCEPT ![i] = row] /\ draft' = [draft EXCEPT ![i] = d]
    /\ UNCHANGED <<sender, scope, known, attempts, sent>>

ServeSend(q) ==
    LET i == q.of IN
    /\ q.op = "send" /\ Connected(q)
    /\ \/ \* sent now, or before
          /\ sent[i] = "complete" \/ draft[i] = "draft" \/ (sent[i] = "prepared" /\ draft[i] = "sent")
          /\ sent' = [sent EXCEPT ![i] = "complete"]
          /\ draft' = [draft EXCEPT ![i] = IF sent[i] = "complete" THEN @ ELSE "sent"]
          /\ HearsSent(q) /\ UNCHANGED <<status, spent>>
       \/ \* the draft is not there
          /\ sent[i] # "complete" /\ draft[i] = "gone"
          /\ calls' = calls \ {q} /\ HearsError(q, "send_error")
          /\ UNCHANGED <<status, sent, draft, spent>>
       \/ \* refused, or its outcome in doubt
          /\ Fails(q)
          /\ \/ UNCHANGED <<sent, draft>>
             \/ /\ sent[i] # "complete" /\ draft[i] \in {"draft", "sent"}
                /\ \E row \in {"prepared", "complete"}, d \in {draft[i], "sent"} :
                      /\ row = "complete" => d = "sent"
                      /\ sent' = [sent EXCEPT ![i] = row] /\ draft' = [draft EXCEPT ![i] = d]
    /\ UNCHANGED <<sender, scope, known, attempts, saved>>

\* The connection breaks; the API goes on with the request.
Lose(q) ==
    /\ q.alive /\ Spends("faults")
    /\ calls' = (calls \ {q}) \union {[q EXCEPT !.alive = FALSE]}
    /\ HearsError(q, "send_error")
    /\ UNCHANGED <<sender, scope, known, status, attempts, saved, sent, draft>>

\* The draft is discarded in Gmail itself.
Discard(i) ==
    /\ draft[i] = "draft" /\ Spends("faults")
    /\ draft' = [draft EXCEPT ![i] = "gone"]
    /\ UNCHANGED <<composer, sender, scope, known, status, attempts, calls, saved, sent>>

\* An account is disconnected, or connected again in another tab.
AccountTurns(a, x) ==
    /\ x \in {"connected", "gone"} \ {status[a]} /\ Spends("faults")
    /\ status' = [status EXCEPT ![a] = x]
    /\ UNCHANGED <<composer, sender, scope, known, attempts, calls, saved, sent, draft>>

Next ==
    \/ \E kind \in {"page", "reply"} : Open(kind)
    \/ Edit \/ PressInVain \/ Press \/ Close \/ Reload \/ ReadShell
    \/ \E a \in Account : ChangeSender(a)
    \/ \E x \in Account \union {All} : SelectScope(x)
    \/ \E q \in calls : ServeDenied(q) \/ ServeSave(q) \/ ServeSend(q) \/ Lose(q)
    \/ \E i \in Id : Discard(i)
    \/ \E a \in Account, x \in Status : AccountTurns(a, x)

Spec == Init /\ [][Next]_vars

-----------------------------------------------------------------------------
\* A send that was or may still be carried out.
MayLeave(i) == draft[i] = "sent" \/ sent[i] = "prepared" \/ \E q \in calls : q.of = i /\ q.op = "send"

\* One message leaves at most once, whatever is lost, repeated, edited or found
\* again under its keys, and while it can be edited it has not left and is not
\* about to (isComposeDraftLocked: "only an identical retry may resolve it").
LeavesOnce ==
    /\ TypeOK
    /\ \A i, j \in DOMAIN attempts :
          attempts[i].session = attempts[j].session /\ MayLeave(i) /\ MayLeave(j) => i = j
    /\ ~Locked => \A i \in DOMAIN attempts : Shown(i) => ~MayLeave(i)

\* What leaves, or a retry would send, is the text and the sender that the
\* composer shows, although both can be changed between attempts and the address
\* may turn to another account meanwhile (compose-sender-account.ts).
SentAsShown ==
    \A i \in DOMAIN attempts : Shown(i) /\ (MayLeave(i) \/ composer.attempt = i) =>
        attempts[i].text = composer.text /\ attempts[i].account = Sender

\* What the code says of a composer that is locked, and does not keep: a send in
\* doubt can be retried (compose-draft-state.ts:54); a reply is locked because
\* its send is unresolved (thread-composer.tsx:342).
RetryResolves ==
    composer.phase = "send" /\ composer.status # "sending" => CanPress
LockedInDoubt ==
    composer.kind = "reply" /\ Locked =>
        \/ saved[composer.attempt] # "none"
        \/ \E q \in calls : q.of = composer.attempt
=============================================================================
