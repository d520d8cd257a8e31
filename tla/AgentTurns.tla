----------------------------- MODULE AgentTurns -----------------------------
(***************************************************************************)
(* One conversation with the mail agent, open in several browser tabs.  A  *)
(* tab sends a message, or the user's decision on an email the agent wants *)
(* to send, over its socket; a turn claims the conversation's lease, works *)
(* on the stored history, calls Gmail, stores its response and tells the   *)
(* tab (apps/api/src/services/agent-turns.ts, agent-approvals.ts,          *)
(* agent-capabilities.ts, apps/api/src/routes/agent.ts,                    *)
(* packages/database/src/agent-conversations.ts,                           *)
(* apps/web/src/lib/agent/agent-socket-transport.ts).  The lease lapses    *)
(* when a step is slow, a turn may be stopped while its tool runs, throw,  *)
(* or die with its process.                                                *)
(***************************************************************************)
EXTENDS Integers, Sequences, SequencesExt

CONSTANTS Tab,          \* browser tabs with the conversation open
          MaxRequests,  \* bound: frames that ask for a turn
          MaxDrafts,    \* bound: drafts that are only saved (MAIL_AGENT_MAX_STEPS)
          MaxStops,     \* bound: times the user stops a turn
          MaxFaults,    \* bound: throws, crashes and lost connections
          MaxLapses,    \* bound: leases that run out
          MaxDeletes,   \* bound: deletions of the conversation
          MaxSignOuts,  \* bound: sign-outs
          MaxEvents     \* bound: all of these together

\* A turn, the frame that asks for it and what it creates share a number.
Run == 1 .. MaxRequests

ASSUME AgentAssumption ==
    {MaxRequests, MaxDrafts, MaxStops, MaxFaults, MaxLapses, MaxDeletes, MaxSignOuts,
     MaxEvents} \subseteq Nat

VARIABLES signedIn,  \* authSessions holds the session of the tabs
          conv,      \* agentConversations: activeRunId (0: null), activeRunExpiresAt; claims so far
          history,   \* agentMessages, by position
          rows,      \* gmailDraftWrites of the agent's sends, by write key
          emails,    \* Gmail: copies sent for a call
          turns,     \* runAgentTurn
          tools,     \* the Gmail write a turn has begun: it outlives a stopped turn
          tab,       \* the chat and its connection
          up, down,  \* frames on their way
          serving,   \* serveAgentSocket: activeTurn of the tab's socket (0: null)
          requests,  \* frames that have asked for a turn
          approved,  \* history: calls the user has approved
          spent      \* how much of each bound a behaviour has used

store == <<conv, history>>
mail == <<rows, emails>>
chat == <<tab, up, down, serving, requests, approved>>
vars == <<signedIn, store, mail, turns, tools, chat, spent>>

Call == {"agent"} \X (0 .. MaxRequests)
Id == ({"user"} \X (0 .. MaxRequests)) \union Call \union {<<"none", 0>>}
\* The sendEmail part of an assistant message.  "approved" and "declined" are
\* approval-responded; "unconfirmed" is a send that was interrupted.
SendState == {"none", "requested", "approved", "declined", "denied", "sent", "failed",
              "unconfirmed"}
OpenApproval == {"requested", "approved", "declined"}
\* A call of sendEmail is named by its message.  by: the claim of the turn that wrote it last.
Message == [id : Id, send : SendState, by : Nat]
NoMessage == [id |-> <<"none", 0>>, send |-> "none", by |-> 0]
IsUser(m) == m.id[1] = "user"
IsAgent(m) == m.id[1] = "agent"

\* What a tab sends: the newest message, or a decision on a call.
Frame == [type : {"none", "stop", "message", "approval"}, id : Id, approve : BOOLEAN, run : 0 .. MaxRequests]
NoFrame == [type |-> "none", id |-> <<"none", 0>>, approve |-> FALSE, run |-> 0]
Answer == [type : {"chunk", "end", "failed", "rejected"}, run : Run, last : Message]
Turn == [at : {"none", "identity", "start", "prepare", "tool", "model", "stopWhen", "save",
               "end", "finish"},
         tab : Tab, attached : BOOLEAN, frame : Frame, view : Seq(Message),
         response : Message, aborted : BOOLEAN, failed : BOOLEAN, streamed : BOOLEAN, finished : BOOLEAN,
         lapsed : BOOLEAN, claim : Nat]
\* late: writes the tool began after its turn had lost the conversation.
Tool == [at : {"none", "check", "draft", "recheck", "send", "call", "confirm", "done"},
         call : Id, result : {"none", "sent", "saved", "failed"}, late : Nat]
NoTool == [at |-> "none", call |-> <<"none", 0>>, result |-> "none", late |-> 0]
TabState == [status : {"ready", "submitted", "streaming", "error"}, open : BOOLEAN,
             last : Message, unsent : Frame, run : 0 .. MaxRequests]
Counters == {"drafts", "stops", "faults", "lapses", "deletes", "signOuts"}

TypeOK ==
    /\ signedIn \in BOOLEAN
    /\ conv \in [exists : BOOLEAN, owner : 0 .. MaxRequests, lapsed : BOOLEAN, claims : Nat]
    /\ history \in Seq(Message) /\ IsInjective([i \in DOMAIN history |-> history[i].id])
    /\ rows \in [Call -> {"none", "pending", "complete"}] /\ emails \in [Call -> Nat]
    /\ DOMAIN turns \subseteq Run /\ \A r \in DOMAIN turns : turns[r] \in Turn
    /\ tools \in [Run -> Tool]
    /\ tab \in [Tab -> TabState]
    /\ up \in [Tab -> Seq(Frame)] /\ down \in [Tab -> Seq(Answer)]
    /\ serving \in [Tab -> 0 .. MaxRequests]
    /\ requests \in 0 .. MaxRequests
    /\ approved \subseteq Call
    /\ spent \in [Counters -> Nat]

Spend(counter, bound) ==
    /\ spent[counter] < bound
    /\ spent["drafts"] + spent["stops"] + spent["faults"] + spent["lapses"]
         + spent["deletes"] + spent["signOuts"] < MaxEvents
    /\ spent' = [spent EXCEPT ![counter] = @ + 1]

\* The conversation is new, or an earlier turn has left an email to decide on.
Init ==
    /\ signedIn = TRUE
    /\ history \in {<<>>, <<[NoMessage EXCEPT !.id = <<"user", 0>>],
                            [NoMessage EXCEPT !.id = <<"agent", 0>>, !.send = "requested"]>>}
    /\ conv = [exists |-> history # <<>>, owner |-> 0, lapsed |-> FALSE, claims |-> 0]
    /\ rows = [i \in Call |-> "none"] /\ emails = [i \in Call |-> 0]
    /\ turns = <<>> /\ tools = [r \in Run |-> NoTool]
    /\ tab = [c \in Tab |-> [status |-> "ready", open |-> FALSE, last |-> NoMessage,
                             unsent |-> NoFrame, run |-> 0]]
    /\ up = [c \in Tab |-> <<>>] /\ down = [c \in Tab |-> <<>>]
    /\ serving = [c \in Tab |-> 0]
    /\ requests = 0 /\ approved = {}
    /\ spent = [c \in Counters |-> 0]

-----------------------------------------------------------------------------
(* The tab: AgentConversation over AgentSocketTransport and                *)
(* AgentSocketConnection.                                                  *)

Working(c) == tab[c].status \in {"submitted", "streaming"}

\* startTurn: the frame goes out at once, or when a socket has been opened.
Request(c, frame, last) ==
    LET numbered == [frame EXCEPT !.run = requests + 1]
    IN /\ ~Working(c) /\ requests < MaxRequests
       /\ requests' = requests + 1
       /\ tab' = [tab EXCEPT ![c] = [@ EXCEPT
             !.status = "submitted", !.last = last, !.run = requests + 1,
             !.unsent = IF tab[c].open THEN NoFrame ELSE numbered]]
       /\ up' = IF tab[c].open THEN [up EXCEPT ![c] = Append(@, numbered)] ELSE up
       /\ UNCHANGED <<signedIn, store, mail, turns, tools, down, serving, spent>>
MessageFrame(id) == [NoFrame EXCEPT !.type = "message", !.id = id]
ApprovalFrame(id, yes) == [NoFrame EXCEPT !.type = "approval", !.id = id, !.approve = yes]

Ask(c) ==
    LET id == <<"user", requests + 1>>
    IN /\ Request(c, MessageFrame(id), [NoMessage EXCEPT !.id = id])
       /\ UNCHANGED approved
\* addToolApprovalResponse; sendAutomaticallyWhen sends the decision.
Decide(c, yes) ==
    LET m == tab[c].last
    IN /\ m.send = "requested"
       /\ Request(c, ApprovalFrame(m.id, yes),
                  [m EXCEPT !.send = IF yes THEN "approved" ELSE "declined"])
       /\ approved' = IF yes THEN approved \union {m.id} ELSE approved
\* getAgentRetryRequest: "resubmit" ("ask-again" is Ask).
Retry(c) ==
    LET m == tab[c].last
    IN /\ \/ IsUser(m) /\ Request(c, MessageFrame(m.id), m)
          \/ /\ m.send \in {"approved", "declined"}
             /\ Request(c, ApprovalFrame(m.id, m.send = "approved"), m)
       /\ UNCHANGED approved

\* A ticket is issued to the session and redeemed by the socket, once and within
\* its minute; both answer 401 when the session has ended.
TicketRedeemed == signedIn
Connect(c) ==
    /\ tab[c].unsent # NoFrame
    /\ tab' = [tab EXCEPT ![c].open = TicketRedeemed, ![c].unsent = NoFrame,
                          ![c].status = IF TicketRedeemed THEN @ ELSE "error"]
    /\ up' = IF TicketRedeemed THEN [up EXCEPT ![c] = Append(@, tab[c].unsent)] ELSE up
    /\ UNCHANGED <<signedIn, store, mail, turns, tools, down, serving, requests, approved, spent>>
\* The stream is closed; a request whose socket is still opening is not sent.
Stop(c) ==
    /\ Working(c) /\ Spend("stops", MaxStops)
    /\ tab' = [tab EXCEPT ![c].status = "ready", ![c].unsent = NoFrame]
    /\ up' = IF tab[c].open /\ tab[c].unsent = NoFrame
             THEN [up EXCEPT ![c] = Append(@, [NoFrame EXCEPT !.type = "stop"])] ELSE up
    /\ UNCHANGED <<signedIn, store, mail, turns, tools, down, serving, requests, approved>>
\* routeFrame: a frame belongs to the stream that is open for its conversation.
Routed(c, answer) == Working(c) /\ tab[c].unsent = NoFrame
Deliver(c) ==
    LET answer == Head(down[c])
    IN /\ down[c] # <<>>
       /\ down' = [down EXCEPT ![c] = Tail(@)]
       /\ tab' = IF ~Routed(c, answer) THEN tab ELSE [tab EXCEPT ![c] = [@ EXCEPT
             !.status = IF answer.type = "chunk" THEN "streaming"
                        ELSE IF answer.type = "end" THEN "ready" ELSE "error",
             !.last = IF answer.type = "chunk" THEN answer.last ELSE tab[c].last]]
       /\ UNCHANGED <<signedIn, store, mail, turns, tools, up, serving, requests, approved, spent>>
\* getAgentConversation, and the conversation as it is opened from it.
Shown == [Last(history) EXCEPT !.by = 0]
Reload(c) ==
    /\ ~Working(c) /\ history # <<>> /\ tab[c].last # Shown
    /\ tab' = [tab EXCEPT ![c].last = Shown, ![c].status = "ready"]
    /\ UNCHANGED <<signedIn, store, mail, turns, tools, up, down, serving, requests, approved, spent>>

\* handleClose and failTurns; mutant: the streams are left open.
LeavesOpen(state) == [state EXCEPT !.open = FALSE]
Closed(state) ==
    [state EXCEPT !.open = FALSE,
                  !.status = IF @ \in {"submitted", "streaming"} THEN "error" ELSE @]
\* The socket of a tab closes: what is on its way is lost, and a turn it was
\* serving goes on without it, aborted when the server hears of it.
Detached(c, heard) ==
    [r \in DOMAIN turns |->
        IF r = serving[c]
        THEN [turns[r] EXCEPT !.attached = FALSE, !.aborted = @ \/ heard] ELSE turns[r]]
Disconnect(c) ==
    /\ tab[c].open /\ Spend("faults", MaxFaults)
    /\ \E heard \in BOOLEAN : turns' = Detached(c, heard)
    /\ tab' = [tab EXCEPT ![c] = Closed(@)]
    /\ up' = [up EXCEPT ![c] = <<>>] /\ down' = [down EXCEPT ![c] = <<>>]
    /\ serving' = [serving EXCEPT ![c] = 0]
    /\ UNCHANGED <<signedIn, store, mail, tools, requests, approved>>

-----------------------------------------------------------------------------
(* serveAgentSocket and runAgentTurn.                                      *)

Tell(r, type, last) ==
    LET t == turns[r]
        queue == down[t.tab]
        answer == [type |-> type, run |-> r, last |-> [last EXCEPT !.by = 0]]
    IN \* Chunks of a turn that follow each other are delivered as one.
       down' = IF ~t.attached THEN down
               ELSE [down EXCEPT ![t.tab] =
                 IF type = "chunk" /\ queue # <<>> /\ Last(queue).type = "chunk"
                      /\ Last(queue).run = r
                 THEN Append(Front(queue), answer) ELSE Append(queue, answer)]
Vanish(r) == turns' = [q \in DOMAIN turns \ {r} |-> turns[q]]
Over(r) ==
    /\ Vanish(r)
    /\ serving' = IF turns[r].attached THEN [serving EXCEPT ![turns[r].tab] = 0] ELSE serving

Receive(c) ==
    LET frame == Head(up[c])
    IN /\ up[c] # <<>> /\ up' = [up EXCEPT ![c] = Tail(@)]
       /\ \/ /\ frame.type = "stop"
             /\ turns' = [r \in DOMAIN turns |->
                   IF r = serving[c] THEN [turns[r] EXCEPT !.aborted = TRUE] ELSE turns[r]]
             /\ UNCHANGED <<down, serving>>
          \/ /\ frame.type # "stop" /\ serving[c] # 0
             /\ down' = [down EXCEPT ![c] =
                   Append(@, [type |-> "rejected", run |-> frame.run, last |-> NoMessage])]
             /\ UNCHANGED <<turns, serving>>
          \/ /\ frame.type # "stop" /\ serving[c] = 0
             /\ turns' = [r \in DOMAIN turns \union {frame.run} |->
                   IF r = frame.run
                   THEN [at |-> "identity", tab |-> c, attached |-> TRUE, frame |-> frame,
                         view |-> <<>>, response |-> NoMessage,
                         aborted |-> FALSE, failed |-> FALSE,
                         streamed |-> FALSE, finished |-> FALSE, lapsed |-> FALSE,
                         claim |-> 0]
                   ELSE turns[r]]
             /\ serving' = [serving EXCEPT ![c] = frame.run]
             /\ UNCHANGED down
       /\ UNCHANGED <<signedIn, store, mail, tools, tab, requests, approved, spent>>

\* getAgentSessionIdentity; a socket whose session has ended is closed.
Identity(r) ==
    LET c == turns[r].tab
    IN /\ turns[r].at = "identity"
       /\ IF signedIn
          THEN /\ turns' = [turns EXCEPT ![r].at = "start"]
               /\ UNCHANGED <<tab, up, down, serving>>
          ELSE /\ Over(r)
               /\ IF turns[r].attached
                  THEN /\ tab' = [tab EXCEPT ![c] = Closed(@)]
                       /\ up' = [up EXCEPT ![c] = <<>>] /\ down' = [down EXCEPT ![c] = <<>>]
                  ELSE UNCHANGED <<tab, up, down>>
       /\ UNCHANGED <<signedIn, store, mail, tools, requests, approved, spent>>

\* saveMessages: a message that is stored keeps its position.
Saved(m) ==
    IF \E i \in DOMAIN history : history[i].id = m.id
    THEN [i \in DOMAIN history |-> IF history[i].id = m.id THEN m ELSE history[i]]
    ELSE Append(history, m)

\* startAgentRun.  A message to a conversation that was deleted creates it again.
Start(r) ==
    LET t == turns[r]
        exists == conv.exists \/ t.frame.type = "message"
        free == conv.owner = 0 \/ conv.lapsed
    IN /\ t.at = "start"
       /\ IF exists /\ free
          THEN /\ conv' = [exists |-> TRUE, owner |-> r, lapsed |-> FALSE, claims |-> conv.claims + 1]
               /\ history' = IF t.frame.type = "message"
                             THEN Saved([id |-> t.frame.id, send |-> "none", by |-> conv'.claims])
                             ELSE history
               /\ turns' = [turns EXCEPT ![r].at = "prepare", ![r].view = history',
                                       ![r].claim = conv'.claims]
               /\ UNCHANGED <<down, serving>>
          ELSE /\ Over(r) /\ Tell(r, "rejected", NoMessage)
               /\ UNCHANGED store
       /\ UNCHANGED <<signedIn, mail, tools, tab, up, requests, approved, spent>>

\* applyAgentApprovalDecisions on the open approval of a message.  Mutant: a
\* decision that is stored can be reversed.
AnyDecision(m, frame) == m.id = frame.id /\ m.send \in OpenApproval
Decidable(m, frame) ==
    m.id = frame.id /\ m.send \in {"requested", IF frame.approve THEN "approved" ELSE "declined"}
\* closeOpenApprovals.
Settled(m) == [m EXCEPT !.send = IF @ = "approved" THEN "unconfirmed" ELSE "denied"]

\* saveAgentRunMessages stores messages only while the run holds the
\* conversation; finishAgentRun ends only its own lease.  Mutant: it does not look.
AnyRun(r) == conv.exists
Owns(r) == conv.owner = r
Released(r) == IF conv.owner = r THEN [conv EXCEPT !.owner = 0, !.lapsed = FALSE] ELSE conv

Reject(r) ==
    /\ turns' = [turns EXCEPT ![r].at = "finish", ![r].view = <<>>]
    /\ Tell(r, "rejected", NoMessage)
    /\ UNCHANGED store
\* The decision, or the closing of an approval the new message leaves open, is
\* stored before the model runs.
Prepare(r) ==
    LET t == turns[r]
        n == Len(t.view)
        decided == [t.view[n] EXCEPT !.send = IF t.frame.approve THEN "approved" ELSE "declined",
                                     !.by = t.claim]
        closes == t.frame.type = "message" /\ n > 1 /\ t.view[n - 1].send \in OpenApproval
        settled == [Settled(t.view[n - 1]) EXCEPT !.by = t.claim]
        Goes(m, at, response) ==
            /\ history' = Saved(m)
            /\ conv' = [conv EXCEPT !.lapsed = FALSE]
            /\ turns' = [turns EXCEPT ![r] = [@ EXCEPT !.at = at, !.response = response, !.view = <<>>]]
            /\ UNCHANGED down
    IN /\ t.at = "prepare"
       /\ \/ /\ t.frame.type = "approval"
             /\ n > 0 /\ Decidable(t.view[n], t.frame) /\ Owns(r)
             /\ IF t.frame.approve
                THEN /\ Goes(decided, "tool", decided)
                     /\ tools' = [tools EXCEPT ![r] = [NoTool EXCEPT !.at = "check", !.call = decided.id]]
                ELSE /\ Goes(decided, "model", [decided EXCEPT !.send = "denied"])
                     /\ UNCHANGED tools
          \/ /\ closes /\ Owns(r)
             /\ Goes(settled, "model", NoMessage) /\ UNCHANGED tools
          \/ /\ \/ t.frame.type = "approval" /\ (n = 0 \/ ~Decidable(t.view[n], t.frame))
                \/ (closes \/ t.frame.type = "approval") /\ ~Owns(r)
             /\ Reject(r) /\ UNCHANGED tools
          \/ /\ t.frame.type = "message" /\ ~closes
             /\ turns' = [turns EXCEPT ![r] = [@ EXCEPT !.at = "model", !.view = <<>>]]
             /\ UNCHANGED <<store, down, tools>>
       /\ UNCHANGED <<signedIn, mail, tab, up, serving, requests, approved, spent>>

\* What follows the end of the stream: history is stored before the client
\* hears that the turn ended.
Ending(at) == CASE at = "stream" -> "save" [] at = "save" -> "end" [] OTHER -> "finish"

\* One step of the model: it answers, asks to send an email, saves a draft, or fails.
Model(r) ==
    LET t == turns[r]
        response == IF t.response = NoMessage
                    THEN [id |-> <<"agent", r>>, send |-> "none", by |-> t.claim]
                    ELSE [t.response EXCEPT !.by = t.claim]
        asks == [response EXCEPT !.send = "requested"]
    IN /\ t.at = "model" /\ ~t.aborted
       /\ \/ /\ turns' = [turns EXCEPT ![r].at = Ending("stream"), ![r].response = response,
                                       ![r].streamed = TRUE]
             /\ Tell(r, "chunk", response) /\ UNCHANGED <<tools, spent>>
          \/ /\ response.send = "none"
             /\ turns' = [turns EXCEPT ![r].at = Ending("stream"), ![r].response = asks,
                                       ![r].streamed = TRUE]
             /\ Tell(r, "chunk", asks) /\ UNCHANGED <<tools, spent>>
          \/ /\ Spend("drafts", MaxDrafts)
             /\ turns' = [turns EXCEPT ![r] = [@ EXCEPT !.at = "tool", !.response = response,
                                                       !.streamed = TRUE]]
             /\ tools' = [tools EXCEPT ![r] = [NoTool EXCEPT !.at = "check", !.late = tools[r].late]]
             /\ Tell(r, "chunk", response)
          \/ /\ turns' = [turns EXCEPT ![r].at = Ending("stream"), ![r].failed = TRUE]
             /\ UNCHANGED <<tools, down, spent>>
       /\ UNCHANGED <<signedIn, store, mail, tab, up, serving, requests, approved>>
\* An abort ends the stream at once, whether or not a tool is at work.
Abort(r) ==
    /\ turns[r].at \in {"model", "tool"} /\ turns[r].aborted
    /\ turns' = [turns EXCEPT ![r].at = Ending("stream")]
    /\ UNCHANGED <<signedIn, store, mail, tools, chat, spent>>
\* The result of a tool; a resumed send is followed by the first step, a draft
\* by the check between steps.
Resume(r) ==
    LET t == turns[r]
        sends == tools[r].call # <<"none", 0>>
        response == IF sends THEN [t.response EXCEPT !.send = tools[r].result, !.by = t.claim]
                    ELSE t.response
    IN /\ t.at = "tool" /\ ~t.aborted /\ tools[r].at = "done"
       /\ turns' = [turns EXCEPT ![r].at = IF sends THEN "model" ELSE "stopWhen",
                                 ![r].response = response, ![r].streamed = TRUE]
       /\ tools' = [tools EXCEPT ![r] = [NoTool EXCEPT !.late = tools[r].late]]
       /\ Tell(r, "chunk", response)
       /\ UNCHANGED <<signedIn, store, mail, tab, up, serving, requests, approved, spent>>
\* ensureRunActive: renewAgentRun, which aborts a turn that has lost its lease.
Renewed(r) == IF Owns(r) THEN [conv EXCEPT !.lapsed = FALSE] ELSE conv
StopWhen(r) ==
    /\ turns[r].at = "stopWhen"
    /\ conv' = Renewed(r)
    /\ turns' = [turns EXCEPT ![r].at = IF Owns(r) THEN "model" ELSE Ending("stream"),
                              ![r].aborted = @ \/ ~Owns(r)]
    /\ UNCHANGED <<signedIn, history, mail, tools, chat, spent>>

\* onEnd.
Save(r) ==
    LET t == turns[r]
        saves == t.response # NoMessage /\ Owns(r)
    IN /\ t.at = "save"
       /\ history' = IF saves THEN Saved([t.response EXCEPT !.by = t.claim]) ELSE history
       /\ conv' = IF saves THEN [conv EXCEPT !.owner = 0, !.lapsed = FALSE] ELSE conv
       /\ turns' = [turns EXCEPT ![r].at = Ending("save"), ![r].finished = saves]
       /\ UNCHANGED <<signedIn, mail, tools, chat, spent>>
End(r) ==
    /\ turns[r].at = "end"
    /\ Tell(r, IF turns[r].failed THEN "failed" ELSE "end", NoMessage)
    /\ IF turns[r].finished THEN Over(r)
       ELSE turns' = [turns EXCEPT ![r].at = Ending("end")] /\ UNCHANGED serving
    /\ UNCHANGED <<signedIn, store, mail, tools, tab, up, requests, approved, spent>>
\* finishAgentRun.
Finish(r) ==
    /\ turns[r].at = "finish" /\ conv' = Released(r) /\ Over(r)
    /\ UNCHANGED <<signedIn, history, mail, tools, tab, up, down, requests, approved, spent>>

-----------------------------------------------------------------------------
(* sendEmail and saveDraft of createAgentCapabilities.  DraftWrites shows  *)
(* what saving and sending a draft under a write key promise.              *)

\* The key of a call's writes.  Mutant: each turn has its own.
KeyOfTurn(r) == <<tools[r].call[1], r>>
WriteKey(r) == tools[r].call
Becomes(r, at) == tools' = [tools EXCEPT ![r].at = at]
Fails(r) == tools' = [tools EXCEPT ![r].at = "done", ![r].result = "failed"]
Late(r) == IF Owns(r) THEN 0 ELSE 1

\* ensureRunActive before a write.
CheckActive(r) ==
    /\ tools[r].at \in {"check", "recheck"}
    /\ conv' = Renewed(r)
    /\ IF Owns(r)
       THEN /\ Becomes(r, IF tools[r].at = "check" THEN "draft" ELSE "send")
            /\ UNCHANGED turns
       ELSE /\ Fails(r)
            /\ turns' = [q \in DOMAIN turns |->
                  IF q = r THEN [turns[q] EXCEPT !.aborted = TRUE] ELSE turns[q]]
    /\ UNCHANGED <<signedIn, history, mail, chat, spent>>
\* writeDraft.  Mutant: the turn is not confirmed again before the send.
SendsAtOnce == "send"
Confirmed == "recheck"
WriteDraft(r) ==
    /\ tools[r].at = "draft"
    /\ \/ Fails(r)
       \/ /\ tools[r].call = <<"none", 0>>
          /\ tools' = [tools EXCEPT ![r].at = "done", ![r].result = "saved",
                                       ![r].late = @ + Late(r)]
       \/ /\ tools[r].call # <<"none", 0>>
          /\ tools' = [tools EXCEPT ![r].at = Confirmed, ![r].late = @ + Late(r)]
    /\ UNCHANGED <<signedIn, store, mail, turns, chat, spent>>
\* sendComposeDraft: a send that is complete is answered again, one that is
\* pending is confirmed when Gmail has sent it.
SendDraft(r) ==
    LET row == rows[WriteKey(r)]
    IN /\ tools[r].at = "send"
       /\ \/ /\ row = "none"
             /\ rows' = [rows EXCEPT ![WriteKey(r)] = "pending"]
             /\ tools' = [tools EXCEPT ![r].at = "call", ![r].late = @ + Late(r)]
          \/ row = "pending" /\ Fails(r) /\ UNCHANGED rows
          \/ /\ row = "complete" \/ (row = "pending" /\ emails[tools[r].call] > 0)
             /\ Becomes(r, "confirm") /\ UNCHANGED rows
    /\ UNCHANGED <<signedIn, store, emails, turns, chat, spent>>
\* Gmail sends the draft or not, and the answer arrives or is lost.
CallGmail(r) ==
    /\ tools[r].at = "call"
    /\ \/ /\ emails' = [emails EXCEPT ![tools[r].call] = @ + 1]
          /\ (Becomes(r, "confirm") \/ Fails(r)) /\ UNCHANGED rows
       \/ /\ rows' = [rows EXCEPT ![WriteKey(r)] = "none"]
          /\ Fails(r) /\ UNCHANGED emails
       \/ Fails(r) /\ UNCHANGED mail
    /\ UNCHANGED <<signedIn, store, turns, chat, spent>>
ConfirmSent(r) ==
    /\ tools[r].at = "confirm"
    /\ rows' = [rows EXCEPT ![WriteKey(r)] = "complete"]
    /\ tools' = [tools EXCEPT ![r].at = "done", ![r].result = "sent"]
    /\ UNCHANGED <<signedIn, store, emails, turns, chat, spent>>

-----------------------------------------------------------------------------
(* Faults, time and the user elsewhere.                                    *)

\* A database call throws.  Before the lease is held nothing is released.
Throw(r) ==
    LET t == turns[r]
    IN /\ Spend("faults", MaxFaults)
       /\ \/ /\ t.at \in {"identity", "start"}
             /\ Tell(r, "rejected", NoMessage) /\ Over(r)
          \/ /\ t.at \in {"prepare", "save"}
             /\ Tell(r, IF t.streamed THEN "failed" ELSE "rejected", NoMessage)
             /\ turns' = [turns EXCEPT ![r].at = "finish", ![r].view = <<>>]
             /\ UNCHANGED serving
       /\ UNCHANGED <<signedIn, store, mail, tools, tab, up, requests, approved>>
\* The process of a turn dies, and its socket with it.
Crash(r) ==
    LET c == turns[r].tab
    IN /\ Spend("faults", MaxFaults)
       /\ Vanish(r) /\ tools' = [tools EXCEPT ![r] = NoTool]
       /\ IF turns[r].attached
          THEN /\ tab' = [tab EXCEPT ![c] = Closed(@)]
               /\ up' = [up EXCEPT ![c] = <<>>] /\ down' = [down EXCEPT ![c] = <<>>]
               /\ serving' = [serving EXCEPT ![c] = 0]
          ELSE UNCHANGED <<tab, up, down, serving>>
       /\ UNCHANGED <<signedIn, store, mail, requests, approved>>
\* AGENT_RUN_LEASE_SECONDS pass without a renewal.
Lapse ==
    /\ conv.owner # 0 /\ ~conv.lapsed /\ conv' = [conv EXCEPT !.lapsed = TRUE]
    /\ turns' = [r \in DOMAIN turns |->
          IF r = conv.owner THEN [turns[r] EXCEPT !.lapsed = TRUE] ELSE turns[r]]
    /\ Spend("lapses", MaxLapses)
    /\ UNCHANGED <<signedIn, history, mail, tools, chat>>
\* deleteAgentConversation.
Delete ==
    /\ conv.exists /\ conv' = [conv EXCEPT !.exists = FALSE, !.owner = 0, !.lapsed = FALSE]
    /\ history' = <<>> /\ Spend("deletes", MaxDeletes)
    /\ UNCHANGED <<signedIn, mail, turns, tools, chat>>
SignOut ==
    /\ signedIn /\ signedIn' = FALSE /\ Spend("signOuts", MaxSignOuts)
    /\ UNCHANGED <<store, mail, turns, tools, chat>>

-----------------------------------------------------------------------------
TurnStep(r) ==
    \/ Identity(r) \/ Start(r) \/ Prepare(r) \/ Model(r) \/ Abort(r) \/ Resume(r)
    \/ StopWhen(r) \/ Save(r) \/ End(r) \/ Finish(r)
ToolStep(r) ==
    CheckActive(r) \/ WriteDraft(r) \/ SendDraft(r) \/ CallGmail(r) \/ ConfirmSent(r)
Runs ==
    \/ \E c \in Tab : Connect(c) \/ Deliver(c) \/ Receive(c)
    \/ \E r \in DOMAIN turns : TurnStep(r)
    \/ \E r \in Run : ToolStep(r)
User(c) == Ask(c) \/ (\E yes \in BOOLEAN : Decide(c, yes)) \/ Retry(c) \/ Stop(c) \/ Reload(c)

Next ==
    \/ Runs
    \/ \E c \in Tab : User(c) \/ Disconnect(c)
    \/ \E r \in DOMAIN turns : Throw(r) \/ Crash(r)
    \/ Lapse \/ Delete \/ SignOut

Spec == Init /\ [][Next]_vars
\* Sockets deliver, turns run and Gmail and the model answer.
FairSpec == Spec /\ WF_vars(Runs)

-----------------------------------------------------------------------------
\* "An email Gmail sent is never later recorded as unapproved" (runAgentTurn),
\* and none is sent that the user has not approved: whatever turns overlap.
NeverUnapproved ==
    \A i \in Call : emails[i] > 0 =>
        /\ i \in approved
        /\ \A n \in DOMAIN history :
              history[n].id = i => history[n].send \notin {"requested", "declined", "denied"}

\* An approved email is sent once, however often its approval is sent again and
\* whichever turn resumes the call (AGENT_WRITE_NAMESPACE).
SentOnce == TypeOK /\ \A i \in Call : emails[i] <= 1

\* "A superseded turn cannot keep changing Gmail": it begins at most the one
\* write it had confirmed its lease for.
StopsWriting == \A r \in Run : tools[r].late <= 1

\* "It can never be reversed" (applyAgentApprovalDecisions): a stored decision
\* stands, although tabs decide on what they saw last.
Yes == {"approved", "sent", "failed", "unconfirmed"}
No == {"declined", "denied"}
DecisionKept ==
    [][\A n \in DOMAIN history \intersect DOMAIN history' :
          history'[n].id = history[n].id =>
              /\ history[n].send \in Yes => history'[n].send \in Yes
              /\ history[n].send \in No => history'[n].send \in No]_vars

\* A tab that waits for a turn hears how it ended: there is always a time to
\* come when none waits.
TabsSettle == []<>(\A c \in Tab : ~Working(c))

=============================================================================
