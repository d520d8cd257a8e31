-------------------------- MODULE AgentTurnsProofs --------------------------
(***************************************************************************)
(* Theorems about AgentTurns, for every set of tabs and every bound.       *)
(***************************************************************************)
EXTENDS AgentTurns, SequenceTheorems, TLAPS

-----------------------------------------------------------------------------
(* The inductive invariant.                                                *)

\* A message shows an approval only of a call, and "approved" only if the user
\* has approved it; a frame carries no other decision.
Honest(m, known) == /\ m.send # "none" => m.id \in Call
                    /\ m.send = "approved" => m.id \in known
Truthful(f, known) == /\ f.type = "approval" /\ f.approve => f.id \in known
                      /\ f.type = "message" => f.id \notin Call

\* What a turn answers with is its own message or a call it resumes.
Proper(m, known) == Honest(m, known) /\ (m = NoMessage \/ m.id \in Call)

Honestly ==
    /\ \A n \in DOMAIN history : Honest(history[n], approved)
    /\ \A r \in DOMAIN turns : Proper(turns[r].response, approved) /\ Truthful(turns[r].frame, approved)
    /\ \A c \in Tab : /\ Honest(tab[c].last, approved) /\ Truthful(tab[c].unsent, approved)
                      /\ \A k \in DOMAIN up[c] : Truthful(up[c][k], approved)
                      /\ \A k \in DOMAIN down[c] : Honest(down[c][k].last, approved)

\* A frame that asks for a turn is on its way once, and its turn runs once.
InUp(r) == \E c \in Tab : \E k \in DOMAIN up[c] : up[c][k].run = r
Queued(r) == InUp(r) \/ \E c \in Tab : tab[c].unsent.run = r

Numbered ==
    /\ \A c \in Tab : \A k \in DOMAIN up[c] :
          up[c][k].run <= requests /\ (up[c][k].type = "stop" <=> up[c][k].run = 0)
    /\ \A c \in Tab : /\ tab[c].unsent # NoFrame => tab[c].unsent.run # 0 /\ tab[c].unsent.type # "stop"
                      /\ tab[c].unsent.run <= requests
    /\ \A r \in DOMAIN turns : r <= requests /\ ~Queued(r)

Once ==
    /\ \A c, d \in Tab : \A k \in DOMAIN up[c], l \in DOMAIN up[d] :
          up[c][k].run = up[d][l].run /\ up[c][k].run # 0 => c = d /\ k = l
    /\ \A c \in Tab : tab[c].unsent.run # 0 => ~InUp(tab[c].unsent.run)
    /\ \A c, d \in Tab : tab[c].unsent.run = tab[d].unsent.run /\ tab[c].unsent.run # 0 => c = d

\* A run that has not claimed the conversation has done nothing.
Unclaimed(r) ==
    Queued(r) \/ r > requests \/ (r \in DOMAIN turns /\ turns[r].at \in {"identity", "start"})
Untouched == \A r \in Run : Unclaimed(r) => tools[r] = NoTool /\ conv.owner # r

\* A turn that has not begun to work has answered nothing.
Begins == {"identity", "start", "prepare"}
Fresh == \A r \in DOMAIN turns : turns[r].at \in Begins => turns[r].response = NoMessage

\* What the turn that holds the conversation knows of the history.
SameSide(x, y) == (x \in Yes => y \in Yes) /\ (x \in No => y \in No)
Viewed ==
    \A r \in DOMAIN turns : turns[r].at = "prepare" /\ Owns(r) => turns[r].view = history
AtWork == {"model", "tool", "stopWhen", "save"}
Answered ==
    \A r \in DOMAIN turns :
        turns[r].at \in AtWork /\ Owns(r) =>
            \/ turns[r].response.id \in {<<"agent", r>>, <<"none", 0>>}
            \/ \E n \in DOMAIN history :
                  /\ history[n].id = turns[r].response.id
                  /\ SameSide(history[n].send, turns[r].response.send)
Resumable ==
    \A r \in DOMAIN turns :
        turns[r].at = "tool" /\ tools[r].call # <<"none", 0>> => turns[r].response.send = "approved"

\* A call whose email was sent or may be sent is approved in what is stored, and
\* the turn that has asked for it writes no more.
Authorized(i) == emails[i] > 0 \/ \E r \in Run : tools[r].call = i
Approved ==
    \A i \in Call : Authorized(i) =>
        i \in approved /\ \A n \in DOMAIN history : history[n].id = i => history[n].send \in Yes
Writing(r) ==
    Queued(r) \/ r > requests \/ (r \in DOMAIN turns /\ turns[r].at \notin {"end", "finish"})
Unasked ==
    \A r \in Run : Writing(r) => /\ ~Authorized(<<"agent", r>>)
                                 /\ \A n \in DOMAIN history : history[n].id # <<"agent", r>>

\* One attempt at a call is at Gmail, under a row that is pending.
Sending ==
    /\ \A i \in Call : /\ emails[i] <= 1
                       /\ emails[i] = 1 => rows[i] # "none"
                       /\ rows[i] = "complete" => emails[i] = 1
    /\ \A r \in Run :
          /\ tools[r].at = "call" => rows[tools[r].call] = "pending" /\ emails[tools[r].call] = 0
          /\ tools[r].at = "confirm" => emails[tools[r].call] = 1
    /\ \A r, q \in Run :
          tools[r].at = "call" /\ tools[q].at = "call" /\ tools[r].call = tools[q].call => r = q

Equipped ==
    \A r \in Run :
        /\ tools[r].call = <<"none", 0>> \/ tools[r].call \in Call
        /\ tools[r].at \in {"recheck", "send", "call", "confirm"} => tools[r].call \in Call
        /\ tools[r].at = "done" /\ tools[r].call \in Call => tools[r].result \in {"sent", "failed"}

\* A turn that has written late has lost the conversation for good.
Overtaken ==
    \A r \in Run :
        /\ tools[r].late <= 1
        /\ tools[r].late = 1 => conv.owner # r
        /\ tools[r].at \in {"draft", "send"} => tools[r].late = 0

\* What turns, their tools and what is stored have to do with each other.
Linked == /\ Untouched /\ Fresh /\ Viewed /\ Answered /\ Resumable /\ Approved /\ Unasked /\ Sending
          /\ Equipped /\ Overtaken

IInv == TypeOK /\ Honestly /\ Numbered /\ Once /\ Linked

-----------------------------------------------------------------------------
(* Types.                                                                  *)

\* Bounds keeps every state well formed.
LEMMA BoundsTyped ==
    /\ MaxRequests \in Nat /\ MaxDrafts \in Nat /\ MaxStops \in Nat /\ MaxFaults \in Nat
    /\ MaxLapses \in Nat /\ MaxDeletes \in Nat /\ MaxSignOuts \in Nat /\ MaxEvents \in Nat
    /\ 0 \in 0 .. MaxRequests /\ Run \subseteq 0 .. MaxRequests /\ Run \subseteq Nat \ {0}
BY AgentAssumption DEF Run

\* The values that stand for nothing, and the names of calls.
LEMMA ConstantsTyped ==
    /\ NoMessage \in Message /\ NoFrame \in Frame /\ NoTool \in Tool
    /\ NoMessage.id = <<"none", 0>> /\ NoMessage.send = "none"
    /\ NoFrame.run = 0 /\ NoFrame.type = "none"
    /\ \A r \in 0 .. MaxRequests : <<"agent", r>> \in Call /\ <<"user", r>> \in Id \ Call
    /\ Call \subseteq Id /\ <<"none", 0>> \in Id \ Call
  <1>1. <<"none", 0>> \in Id /\ Call \subseteq Id  BY DEF Id
  <1>2. <<"none", 0>> \notin Call  BY DEF Call
  <1>3. NoMessage \in Message  BY <1>1 DEF NoMessage, Message, SendState
  <1>4. NoFrame \in Frame  BY <1>1, BoundsTyped DEF NoFrame, Frame
  <1>5. NoTool \in Tool  BY <1>1 DEF NoTool, Tool
  <1>6. ASSUME NEW r \in 0 .. MaxRequests
        PROVE  <<"agent", r>> \in Call /\ <<"user", r>> \in Id \ Call
    BY <1>6 DEF Call, Id
  <1>. QED  BY <1>1, <1>2, <1>3, <1>4, <1>5, <1>6 DEF NoMessage, NoFrame

\* A message with a field replaced.
LEMMA MessageTyped ==
    ASSUME NEW m \in Message
    PROVE  /\ m.id \in Id /\ m.send \in SendState /\ m.by \in Nat
           /\ \A x \in SendState : /\ [m EXCEPT !.send = x] \in Message
                                   /\ [m EXCEPT !.send = x].id = m.id
                                   /\ [m EXCEPT !.send = x].send = x
           /\ \A x \in Nat : /\ [m EXCEPT !.by = x] \in Message
                             /\ [m EXCEPT !.by = x].id = m.id
                             /\ [m EXCEPT !.by = x].send = m.send
BY DEF Message

\* A turn with a field replaced.
TurnAt == {"none", "identity", "start", "prepare", "tool", "model", "stopWhen", "save",
           "end", "finish"}

\* A turn field by field.
LEMMA TurnFields ==
    ASSUME NEW t \in Turn
    PROVE  /\ t.at \in TurnAt /\ t.tab \in Tab /\ t.attached \in BOOLEAN /\ t.frame \in Frame
           /\ t.view \in Seq(Message) /\ t.response \in Message /\ t.aborted \in BOOLEAN
           /\ t.failed \in BOOLEAN /\ t.streamed \in BOOLEAN /\ t.finished \in BOOLEAN
           /\ t.lapsed \in BOOLEAN /\ t.claim \in Nat
BY DEF Turn, TurnAt
\* The fields the theorems speak of.
Kept(u, t) == u.at = t.at /\ u.view = t.view /\ u.response = t.response /\ u.frame = t.frame

\* A turn with one field replaced is a turn, and keeps the others.
LEMMA TurnTyped ==
    ASSUME NEW t \in Turn
    PROVE  /\ \A x \in TurnAt : /\ [t EXCEPT !.at = x] \in Turn /\ [t EXCEPT !.at = x].at = x
                                /\ [t EXCEPT !.at = x].view = t.view
                                /\ [t EXCEPT !.at = x].response = t.response
                                /\ [t EXCEPT !.at = x].frame = t.frame
           /\ \A x \in Seq(Message) : /\ [t EXCEPT !.view = x] \in Turn /\ [t EXCEPT !.view = x].at = t.at
                                      /\ [t EXCEPT !.view = x].view = x
                                      /\ [t EXCEPT !.view = x].response = t.response
                                      /\ [t EXCEPT !.view = x].frame = t.frame
           /\ \A x \in Message : /\ [t EXCEPT !.response = x] \in Turn /\ [t EXCEPT !.response = x].at = t.at
                                 /\ [t EXCEPT !.response = x].view = t.view
                                 /\ [t EXCEPT !.response = x].response = x
                                 /\ [t EXCEPT !.response = x].frame = t.frame
           /\ \A x \in Nat : [t EXCEPT !.claim = x] \in Turn /\ Kept([t EXCEPT !.claim = x], t)
           /\ \A x \in BOOLEAN : /\ [t EXCEPT !.attached = x] \in Turn /\ Kept([t EXCEPT !.attached = x], t)
                                 /\ [t EXCEPT !.aborted = x] \in Turn /\ Kept([t EXCEPT !.aborted = x], t)
                                 /\ [t EXCEPT !.failed = x] \in Turn /\ Kept([t EXCEPT !.failed = x], t)
                                 /\ [t EXCEPT !.streamed = x] \in Turn /\ Kept([t EXCEPT !.streamed = x], t)
                                 /\ [t EXCEPT !.finished = x] \in Turn /\ Kept([t EXCEPT !.finished = x], t)
                                 /\ [t EXCEPT !.lapsed = x] \in Turn /\ Kept([t EXCEPT !.lapsed = x], t)
  <1>1. ASSUME NEW x \in TurnAt
        PROVE  /\ [t EXCEPT !.at = x] \in Turn
               /\ [t EXCEPT !.at = x].at = x
               /\ [t EXCEPT !.at = x].view = t.view
               /\ [t EXCEPT !.at = x].response = t.response
               /\ [t EXCEPT !.at = x].frame = t.frame
    BY DEF Turn, TurnAt
  <1>2. ASSUME NEW x \in Seq(Message)
        PROVE  /\ [t EXCEPT !.view = x] \in Turn
               /\ [t EXCEPT !.view = x].at = t.at
               /\ [t EXCEPT !.view = x].view = x
               /\ [t EXCEPT !.view = x].response = t.response
               /\ [t EXCEPT !.view = x].frame = t.frame
    BY DEF Turn, TurnAt
  <1>3. ASSUME NEW x \in Message
        PROVE  /\ [t EXCEPT !.response = x] \in Turn
               /\ [t EXCEPT !.response = x].at = t.at
               /\ [t EXCEPT !.response = x].view = t.view
               /\ [t EXCEPT !.response = x].response = x
               /\ [t EXCEPT !.response = x].frame = t.frame
    BY DEF Turn, TurnAt
  <1>4. ASSUME NEW x \in Nat
        PROVE  [t EXCEPT !.claim = x] \in Turn /\ Kept([t EXCEPT !.claim = x], t)
    BY DEF Turn, Kept
  <1>5. ASSUME NEW x \in BOOLEAN PROVE [t EXCEPT !.attached = x] \in Turn /\ Kept([t EXCEPT !.attached = x], t)
    BY DEF Turn, Kept
  <1>6. ASSUME NEW x \in BOOLEAN PROVE [t EXCEPT !.aborted = x] \in Turn /\ Kept([t EXCEPT !.aborted = x], t)
    BY DEF Turn, Kept
  <1>7. ASSUME NEW x \in BOOLEAN PROVE [t EXCEPT !.failed = x] \in Turn /\ Kept([t EXCEPT !.failed = x], t)
    BY DEF Turn, Kept
  <1>8. ASSUME NEW x \in BOOLEAN PROVE [t EXCEPT !.streamed = x] \in Turn /\ Kept([t EXCEPT !.streamed = x], t)
    BY DEF Turn, Kept
  <1>9. ASSUME NEW x \in BOOLEAN PROVE [t EXCEPT !.finished = x] \in Turn /\ Kept([t EXCEPT !.finished = x], t)
    BY DEF Turn, Kept
  <1>10. ASSUME NEW x \in BOOLEAN PROVE [t EXCEPT !.lapsed = x] \in Turn /\ Kept([t EXCEPT !.lapsed = x], t)
    BY DEF Turn, Kept
  <1>. QED  BY <1>1, <1>2, <1>3, <1>4, <1>5, <1>6, <1>7, <1>8, <1>9, <1>10

\* A tab's chat with a field replaced.
LEMMA TabTyped ==
    ASSUME NEW s \in TabState
    PROVE  /\ \A x \in {"ready", "submitted", "streaming", "error"} : [s EXCEPT !.status = x] \in TabState
           /\ \A x \in BOOLEAN : [s EXCEPT !.open = x] \in TabState
           /\ \A x \in Message : [s EXCEPT !.last = x] \in TabState
           /\ \A x \in Frame : [s EXCEPT !.unsent = x] \in TabState
           /\ \A x \in 0 .. MaxRequests : [s EXCEPT !.run = x] \in TabState
           /\ s.last \in Message /\ s.unsent \in Frame /\ s.open \in BOOLEAN
BY DEF TabState

\* A tool run with one field replaced.
LEMMA ToolTyped ==
    ASSUME NEW t \in Tool
    PROVE  /\ \A x \in {"none", "check", "draft", "recheck", "send", "call", "confirm", "done"} :
                 [t EXCEPT !.at = x] \in Tool
           /\ \A x \in {"none", "sent", "saved", "failed"} : [t EXCEPT !.result = x] \in Tool
           /\ \A x \in Id : [t EXCEPT !.call = x] \in Tool
           /\ \A x \in Nat : [t EXCEPT !.late = x] \in Tool
           /\ t.call \in Id /\ t.late \in Nat
BY DEF Tool

\* A frame, and one whose run is replaced.
LEMMA FrameTyped ==
    ASSUME NEW f \in Frame
    PROVE  /\ f.id \in Id /\ f.run \in 0 .. MaxRequests /\ f.approve \in BOOLEAN
           /\ f.type \in {"none", "stop", "message", "approval"}
           /\ \A x \in 0 .. MaxRequests : /\ [f EXCEPT !.run = x] \in Frame
                                          /\ [f EXCEPT !.run = x].run = x
                                          /\ [f EXCEPT !.run = x].type = f.type
                                          /\ [f EXCEPT !.run = x].id = f.id
                                          /\ [f EXCEPT !.run = x].approve = f.approve
BY DEF Frame

\* Saving a message replaces the one of its name or adds it.
LEMMA SavedIs ==
    ASSUME history \in Seq(Message), IsInjective([i \in DOMAIN history |-> history[i].id]),
           NEW m \in Message
    PROVE  /\ Saved(m) \in Seq(Message)
           /\ IsInjective([i \in DOMAIN Saved(m) |-> Saved(m)[i].id])
           /\ \E n \in DOMAIN Saved(m) : Saved(m)[n] = m
           /\ \A n \in DOMAIN Saved(m) :
                 Saved(m)[n] = m \/ (n \in DOMAIN history /\ Saved(m)[n] = history[n])
           /\ \A n \in DOMAIN history :
                 /\ n \in DOMAIN Saved(m) /\ Saved(m)[n].id = history[n].id
                 /\ history[n].id # m.id => Saved(m)[n] = history[n]
                 /\ history[n].id = m.id => Saved(m)[n] = m
  <1>1. CASE \E i \in DOMAIN history : history[i].id = m.id
    <2> DEFINE s == [i \in DOMAIN history |-> IF history[i].id = m.id THEN m ELSE history[i]]
    <2>1. Saved(m) = s /\ DOMAIN s = DOMAIN history  BY <1>1 DEF Saved
    <2>2. s \in Seq(Message)
      <3>1. DOMAIN history = 1 .. Len(history) /\ Len(history) \in Nat  OBVIOUS
      <3>2. \A i \in 1 .. Len(history) : history[i] \in Message  OBVIOUS
      <3>. QED  BY <3>1, <3>2
    <2>3. \A n \in DOMAIN history : s[n].id = history[n].id  OBVIOUS
    <2>4. IsInjective([i \in DOMAIN s |-> s[i].id])
      BY <2>1, <2>3 DEF IsInjective
    <2>. HIDE DEF s
    <2>5. /\ \A n \in DOMAIN s : s[n] = m \/ (n \in DOMAIN history /\ s[n] = history[n])
          /\ \A n \in DOMAIN history : /\ history[n].id # m.id => s[n] = history[n]
                                       /\ history[n].id = m.id => s[n] = m
      BY DEF s
    <2>6. \E n \in DOMAIN s : s[n] = m  BY <1>1, <2>1, <2>5
    <2>. QED  BY <2>1, <2>2, <2>3, <2>4, <2>5, <2>6
  <1>2. CASE ~\E i \in DOMAIN history : history[i].id = m.id
    <2> DEFINE s == Append(history, m)
    <2>1. Saved(m) = s  BY <1>2 DEF Saved
    <2>2. /\ s \in Seq(Message) /\ Len(s) = Len(history) + 1
          /\ DOMAIN s = 1 .. Len(history) + 1 /\ DOMAIN history = 1 .. Len(history)
          /\ Len(history) \in Nat
      OBVIOUS
    <2>3. /\ \A n \in DOMAIN history : n \in DOMAIN s /\ s[n] = history[n]
          /\ s[Len(history) + 1] = m
          /\ \A n \in DOMAIN s : n \in DOMAIN history \/ n = Len(history) + 1
      BY <2>2
    <2>. HIDE DEF s
    <2>4. IsInjective([i \in DOMAIN s |-> s[i].id])
      <3> SUFFICES ASSUME NEW i \in DOMAIN s, NEW j \in DOMAIN s, s[i].id = s[j].id
                   PROVE  i = j
        BY DEF IsInjective
      <3>1. CASE i \in DOMAIN history /\ j \in DOMAIN history
        BY <3>1, <2>3 DEF IsInjective
      <3>. QED  BY <3>1, <2>3, <1>2
    <2>5. \E n \in DOMAIN s : s[n] = m  BY <2>2, <2>3
    <2>. QED  BY <2>1, <2>2, <2>3, <2>4, <2>5, <1>2
  <1>. QED  BY <1>1, <1>2

\* What the ends of a queue are made of.
LEMMA QueueParts ==
    ASSUME NEW S, NEW s \in Seq(S), NEW e \in S
    PROVE  /\ Append(s, e) \in Seq(S)
           /\ \A k \in DOMAIN Append(s, e) :
                 Append(s, e)[k] = e \/ \E l \in DOMAIN s : Append(s, e)[k] = s[l]
           /\ s # <<>> => /\ Head(s) \in S /\ Head(s) = s[1] /\ 1 \in DOMAIN s
                          /\ Tail(s) \in Seq(S)
                          /\ \A k \in DOMAIN Tail(s) : k + 1 \in DOMAIN s /\ Tail(s)[k] = s[k + 1]
                          /\ Last(s) \in S /\ \E l \in DOMAIN s : Last(s) = s[l]
                          /\ Front(s) \in Seq(S)
                          /\ \A k \in DOMAIN Front(s) : k \in DOMAIN s /\ Front(s)[k] = s[k]
  <1>1. /\ Append(s, e) \in Seq(S) /\ Len(s) \in Nat /\ DOMAIN s = 1 .. Len(s)
        /\ DOMAIN Append(s, e) = 1 .. Len(s) + 1
        /\ \A k \in 1 .. Len(s) : Append(s, e)[k] = s[k]
        /\ Append(s, e)[Len(s) + 1] = e
    OBVIOUS
  <1>2. ASSUME s # <<>>
        PROVE  /\ Len(s) \in Nat \ {0} /\ Head(s) \in S /\ Head(s) = s[1] /\ 1 \in DOMAIN s
               /\ Tail(s) \in Seq(S)
               /\ \A k \in DOMAIN Tail(s) : k + 1 \in DOMAIN s /\ Tail(s)[k] = s[k + 1]
    BY <1>2
  <1>3. ASSUME s # <<>> PROVE Last(s) \in S /\ \E l \in DOMAIN s : Last(s) = s[l]
    BY <1>1, <1>2, <1>3, Len(s) \in DOMAIN s DEF Last
  <1>4. ASSUME s # <<>>
        PROVE  /\ Front(s) \in Seq(S)
               /\ \A k \in DOMAIN Front(s) : k \in DOMAIN s /\ Front(s)[k] = s[k]
    <2>1. Len(s) - 1 \in Nat /\ 1 .. Len(s) - 1 \subseteq 1 .. Len(s)
      BY <1>2, <1>4
    <2>2. /\ SubSeq(s, 1, Len(s) - 1) \in Seq(S)
          /\ DOMAIN SubSeq(s, 1, Len(s) - 1) = 1 .. Len(s) - 1
          /\ \A k \in 1 .. Len(s) - 1 : SubSeq(s, 1, Len(s) - 1)[k] = s[k]
      BY <2>1, <1>1, <1>2, <1>4
    <2>. QED  BY <2>1, <2>2, <1>1 DEF Front
  <1>. QED  BY <1>1, <1>2, <1>3, <1>4

\* What a turn tells its tab is added to the answers on their way.
LEMMA TellTyped ==
    ASSUME TypeOK, NEW r \in DOMAIN turns, NEW m \in Message,
           NEW type \in {"chunk", "end", "failed", "rejected"}, Tell(r, type, m)
    PROVE  /\ down' \in [Tab -> Seq(Answer)]
           /\ \A c \in Tab : \A k \in DOMAIN down'[c] :
                 \/ down'[c][k].last = [m EXCEPT !.by = 0]
                 \/ \E l \in DOMAIN down[c] : down'[c][k] = down[c][l]
  <1> DEFINE t == turns[r]
             queue == down[t.tab]
             answer == [type |-> type, run |-> r, last |-> [m EXCEPT !.by = 0]]
             joined == Append(Front(queue), answer)
             added == Append(queue, answer)
             joins == type = "chunk" /\ queue # <<>> /\ Last(queue).type = "chunk" /\ Last(queue).run = r
  <1>1. down' = IF ~t.attached THEN down
                ELSE [down EXCEPT ![t.tab] = IF joins THEN joined ELSE added]
    BY DEF Tell
  <1>2. t.tab \in Tab /\ down \in [Tab -> Seq(Answer)] /\ r \in Run
    BY TurnFields DEF TypeOK
  <1>3. queue \in Seq(Answer)  BY <1>2
  <1>4. answer \in Answer /\ answer.last = [m EXCEPT !.by = 0]
    <2>1. [m EXCEPT !.by = 0] \in Message  BY MessageTyped
    <2>. QED  BY <2>1, <1>2 DEF Answer
  <1>. HIDE DEF t, queue, answer
  <1>5. /\ added \in Seq(Answer)
        /\ \A k \in DOMAIN added : added[k] = answer \/ \E l \in DOMAIN queue : added[k] = queue[l]
    BY <1>3, <1>4, QueueParts
  <1>6. ASSUME joins
        PROVE  /\ joined \in Seq(Answer)
               /\ \A k \in DOMAIN joined : joined[k] = answer \/ \E l \in DOMAIN queue : joined[k] = queue[l]
    <2>1. /\ Front(queue) \in Seq(Answer)
          /\ \A k \in DOMAIN Front(queue) : k \in DOMAIN queue /\ Front(queue)[k] = queue[k]
      BY <1>3, <1>4, <1>6, QueueParts
    <2> DEFINE front == Front(queue)
    <2>. HIDE DEF front
    <2>2. /\ Append(front, answer) \in Seq(Answer)
          /\ \A k \in DOMAIN Append(front, answer) :
                Append(front, answer)[k] = answer
                \/ \E l \in DOMAIN front : Append(front, answer)[k] = front[l]
      BY <2>1, <1>4, QueueParts DEF front
    <2>. QED  BY <2>1, <2>2 DEF front
  <1> DEFINE new == IF joins THEN joined ELSE added
  <1>7. /\ new \in Seq(Answer)
        /\ \A k \in DOMAIN new : new[k] = answer \/ \E l \in DOMAIN queue : new[k] = queue[l]
    BY <1>5, <1>6
  <1>8. down' = IF ~t.attached THEN down ELSE [down EXCEPT ![t.tab] = new]
    BY <1>1
  <1>. HIDE DEF new
  <1>9. down' \in [Tab -> Seq(Answer)]  BY <1>2, <1>7, <1>8
  <1>10. ASSUME NEW c \in Tab, NEW k \in DOMAIN down'[c]
         PROVE  \/ down'[c][k].last = [m EXCEPT !.by = 0]
                \/ \E l \in DOMAIN down[c] : down'[c][k] = down[c][l]
    <2>1. CASE t.attached /\ c = t.tab
      <3>1. down'[c] = new /\ down[c] = queue  BY <2>1, <1>2, <1>8 DEF queue
      <3>. QED  BY <3>1, <1>4, <1>7
    <2>2. CASE ~(t.attached /\ c = t.tab)
      <3>1. down'[c] = down[c]  BY <2>2, <1>2, <1>8
      <3>. QED  BY <3>1
    <2>. QED  BY <2>1, <2>2
  <1>. QED  BY <1>9, <1>10

\* Spending from a budget keeps it a budget.
LEMMA SpendTyped ==
    ASSUME TypeOK, NEW counter \in Counters, NEW bound, Spend(counter, bound)
    PROVE  spent' \in [Counters -> Nat]
  <1>1. spent \in [Counters -> Nat]  BY DEF TypeOK
  <1>2. spent' = [spent EXCEPT ![counter] = @ + 1]  BY DEF Spend
  <1>3. spent[counter] + 1 \in Nat  BY <1>1
  <1>. QED  BY <1>1, <1>2, <1>3

\* A request is made only while there are turns left, and has a number no turn has had.
LEMMA NextRequest ==
    ASSUME TypeOK, NEW c, NEW frame, NEW last, Request(c, frame, last)
    PROVE  /\ requests + 1 \in 0 .. MaxRequests /\ requests \in Nat
           /\ requests + 1 # 0 /\ ~(requests + 1 <= requests)
  <1>1. requests < MaxRequests  BY DEF Request
  <1>2. requests \in 0 .. MaxRequests  BY DEF TypeOK
  <1>. QED  BY <1>1, <1>2, BoundsTyped

\* Request keeps every state well formed.
LEMMA RequestTyped ==
    ASSUME TypeOK, NEW c \in Tab, NEW frame \in Frame, NEW last \in Message,
           Request(c, frame, last), approved' \subseteq Call
    PROVE  TypeOK'
  <1> DEFINE numbered == [frame EXCEPT !.run = requests + 1]
             unsent == IF tab[c].open THEN NoFrame ELSE numbered
             s1 == [tab[c] EXCEPT !.status = "submitted"]
             s2 == [s1 EXCEPT !.last = last]
             s3 == [s2 EXCEPT !.run = requests + 1]
             s4 == [s3 EXCEPT !.unsent = unsent]
  <1>1. requests + 1 \in 0 .. MaxRequests /\ tab[c] \in TabState /\ up[c] \in Seq(Frame)
    BY NextRequest DEF TypeOK
  <1>2. numbered \in Frame /\ unsent \in Frame
    BY <1>1, FrameTyped, ConstantsTyped
  <1>3. s4 \in TabState
    <2>. HIDE DEF unsent
    <2>1. s1 \in TabState  BY <1>1, TabTyped
    <2>2. s2 \in TabState  BY <2>1, TabTyped
    <2>3. s3 \in TabState  BY <1>1, <2>2, TabTyped
    <2>. QED  BY <1>2, <2>3, TabTyped
  <1>4. tab' = [tab EXCEPT ![c] = s4]  BY DEF Request
  <1>5. Append(up[c], numbered) \in Seq(Frame)  BY <1>1, <1>2
  <1>6. up' = IF tab[c].open THEN [up EXCEPT ![c] = Append(up[c], numbered)] ELSE up
    BY DEF Request
  <1>7. requests' = requests + 1 /\ UNCHANGED <<signedIn, store, mail, turns, tools, down, serving, spent>>
    BY DEF Request
  <1>. HIDE DEF numbered, unsent, s4
  <1>8. tab' \in [Tab -> TabState] /\ up' \in [Tab -> Seq(Frame)]
    BY <1>3, <1>4, <1>5, <1>6 DEF TypeOK
  <1>. QED  BY <1>1, <1>7, <1>8 DEF TypeOK, store, mail

\* Ask keeps every state well formed.
LEMMA AskTyped ==
    ASSUME TypeOK, NEW c \in Tab, Ask(c)
    PROVE  TypeOK'
  <1>1. requests + 1 \in 0 .. MaxRequests  BY NextRequest DEF Ask
  <1> DEFINE id == <<"user", requests + 1>>
  <1>2. id \in Id  BY <1>1, ConstantsTyped
  <1>. HIDE DEF id
  <1>3. MessageFrame(id) \in Frame /\ [NoMessage EXCEPT !.id = id] \in Message
    BY <1>2, ConstantsTyped DEF MessageFrame, Frame, Message, NoFrame, NoMessage
  <1>4. Request(c, MessageFrame(id), [NoMessage EXCEPT !.id = id]) /\ approved' \subseteq Call
    BY DEF Ask, id, TypeOK
  <1>. QED  BY <1>3, <1>4, RequestTyped

\* The frame a decision sends.
LEMMA ApprovalFrameIs ==
    ASSUME NEW id \in Id, NEW yes \in BOOLEAN
    PROVE  /\ ApprovalFrame(id, yes) \in Frame /\ ApprovalFrame(id, yes).id = id
           /\ ApprovalFrame(id, yes).type = "approval" /\ ApprovalFrame(id, yes).approve = yes
           /\ MessageFrame(id) \in Frame /\ MessageFrame(id).id = id
           /\ MessageFrame(id).type = "message"
BY ConstantsTyped DEF ApprovalFrame, MessageFrame, Frame, NoFrame

\* Decide keeps every state well formed.
LEMMA DecideTyped ==
    ASSUME TypeOK, Honestly, NEW c \in Tab, NEW yes \in BOOLEAN, Decide(c, yes)
    PROVE  TypeOK'
  <1> DEFINE m == tab[c].last
             x == IF yes THEN "approved" ELSE "declined"
  <1>1. m \in Message /\ m.id \in Id /\ m.send = "requested"
    BY MessageTyped, TabTyped DEF TypeOK, Decide
  <1>2. m.id \in Call  BY <1>1 DEF Honestly, Honest
  <1>3. [m EXCEPT !.send = x] \in Message
    BY <1>1, MessageTyped, x \in SendState DEF SendState
  <1>4. /\ Request(c, ApprovalFrame(m.id, yes), [m EXCEPT !.send = x])
        /\ approved' \subseteq Call
    BY <1>2 DEF Decide, TypeOK
  <1>. HIDE DEF m, x
  <1>. QED  BY <1>1, <1>3, <1>4, ApprovalFrameIs, RequestTyped

\* Retry keeps every state well formed.
LEMMA RetryTyped ==
    ASSUME TypeOK, NEW c \in Tab, Retry(c)
    PROVE  TypeOK'
  <1> DEFINE m == tab[c].last
             yes == m.send = "approved"
  <1>1. m \in Message /\ m.id \in Id  BY MessageTyped, TabTyped DEF TypeOK
  <1>2. yes \in BOOLEAN /\ approved' \subseteq Call  BY DEF Retry, TypeOK
  <1>3. Request(c, MessageFrame(m.id), m) \/ Request(c, ApprovalFrame(m.id, yes), m)
    BY DEF Retry
  <1>. HIDE DEF m, yes
  <1>. QED  BY <1>1, <1>2, <1>3, ApprovalFrameIs, RequestTyped

\* Connect keeps every state well formed.
LEMMA ConnectTyped ==
    ASSUME TypeOK, NEW c \in Tab, Connect(c)
    PROVE  TypeOK'
  <1> DEFINE s1 == [tab[c] EXCEPT !.open = TicketRedeemed]
             s2 == [s1 EXCEPT !.unsent = NoFrame]
             status == IF TicketRedeemed THEN tab[c].status ELSE "error"
             s3 == [s2 EXCEPT !.status = status]
  <1>1. tab[c] \in TabState /\ TicketRedeemed \in BOOLEAN /\ up[c] \in Seq(Frame)
    BY DEF TypeOK, TicketRedeemed
  <1>2. status \in {"ready", "submitted", "streaming", "error"}
    BY <1>1 DEF TabState
  <1>3. s1 \in TabState  BY <1>1, TabTyped
  <1>4. s2 \in TabState  BY <1>3, TabTyped, ConstantsTyped
  <1>5. s3 \in TabState
    <2>. HIDE DEF status, s2
    <2>. QED  BY <1>2, <1>4, TabTyped
  <1>6. tab' = [tab EXCEPT ![c] = s3]  BY DEF Connect, TypeOK
  <1>7. Append(up[c], tab[c].unsent) \in Seq(Frame)
    <2>1. tab[c].unsent \in Frame  BY <1>1, TabTyped
    <2>. QED  BY <1>1, <2>1
  <1>. HIDE DEF s3
  <1>8. tab' \in [Tab -> TabState] /\ up' \in [Tab -> Seq(Frame)]
    <2>1. tab \in [Tab -> TabState] /\ up \in [Tab -> Seq(Frame)]  BY DEF TypeOK
    <2>2. up' = IF TicketRedeemed THEN [up EXCEPT ![c] = Append(up[c], tab[c].unsent)] ELSE up
      BY DEF Connect
    <2>. QED  BY <1>5, <1>6, <1>7, <2>1, <2>2
  <1>. QED  BY <1>8 DEF TypeOK, Connect, store, mail

\* Stop keeps every state well formed.
LEMMA StopTyped ==
    ASSUME TypeOK, NEW c \in Tab, Stop(c)
    PROVE  TypeOK'
  <1> DEFINE s1 == [tab[c] EXCEPT !.status = "ready"]
             s2 == [s1 EXCEPT !.unsent = NoFrame]
             frame == [NoFrame EXCEPT !.type = "stop"]
  <1>1. tab[c] \in TabState /\ up[c] \in Seq(Frame)  BY DEF TypeOK
  <1>2. s2 \in TabState  BY <1>1, TabTyped, ConstantsTyped
  <1>3. frame \in Frame  BY ConstantsTyped DEF Frame, NoFrame
  <1>4. tab' = [tab EXCEPT ![c] = s2]  BY DEF Stop, TypeOK
  <1>5. Append(up[c], frame) \in Seq(Frame)  BY <1>1, <1>3
  <1>. HIDE DEF s2, frame
  <1>6. up' = up \/ up' = [up EXCEPT ![c] = Append(up[c], frame)]
    BY DEF Stop, frame
  <1>7. tab' \in [Tab -> TabState] /\ up' \in [Tab -> Seq(Frame)]
    <2>1. tab \in [Tab -> TabState] /\ up \in [Tab -> Seq(Frame)]  BY DEF TypeOK
    <2>. QED  BY <1>2, <1>4, <1>5, <1>6, <2>1
  <1>8. spent' \in [Counters -> Nat]
    BY SpendTyped, "stops" \in Counters DEF Stop, Counters
  <1>. QED  BY <1>7, <1>8 DEF TypeOK, Stop, store, mail

\* Deliver keeps every state well formed.
LEMMA DeliverTyped ==
    ASSUME TypeOK, NEW c \in Tab, Deliver(c)
    PROVE  TypeOK'
  <1> DEFINE answer == Head(down[c])
             status == IF answer.type = "chunk" THEN "streaming"
                       ELSE IF answer.type = "end" THEN "ready" ELSE "error"
             last == IF answer.type = "chunk" THEN answer.last ELSE tab[c].last
             s1 == [tab[c] EXCEPT !.status = status]
             s2 == [s1 EXCEPT !.last = last]
  <1>1. tab[c] \in TabState /\ down[c] \in Seq(Answer) /\ down[c] # <<>>
    BY DEF TypeOK, Deliver
  <1>2. answer \in Answer /\ Tail(down[c]) \in Seq(Answer)  BY <1>1
  <1>3. answer.last \in Message  BY <1>2 DEF Answer
  <1>4. last \in Message /\ status \in {"ready", "submitted", "streaming", "error"}
    BY <1>1, <1>3, TabTyped
  <1>5. s2 \in TabState
    <2>. HIDE DEF status, last
    <2>1. s1 \in TabState  BY <1>1, <1>4, TabTyped
    <2>. QED  BY <2>1, <1>4, TabTyped
  <1>6. tab' = tab \/ tab' = [tab EXCEPT ![c] = s2]  BY DEF Deliver
  <1>. HIDE DEF s2
  <1>7. tab' \in [Tab -> TabState]  BY <1>5, <1>6 DEF TypeOK
  <1>8. down' \in [Tab -> Seq(Answer)]  BY <1>2 DEF TypeOK, Deliver
  <1>. QED  BY <1>7, <1>8 DEF TypeOK, Deliver, store, mail

\* Reload keeps every state well formed.
LEMMA ReloadTyped ==
    ASSUME TypeOK, NEW c \in Tab, Reload(c)
    PROVE  TypeOK'
  <1>1. Last(history) \in Message
    BY QueueParts, ConstantsTyped DEF TypeOK, Reload
  <1>2. Shown \in Message  BY <1>1, MessageTyped DEF Shown
  <1> DEFINE s1 == [tab[c] EXCEPT !.last = Shown]
             s2 == [s1 EXCEPT !.status = "ready"]
  <1>3. s2 \in TabState  BY <1>2, TabTyped DEF TypeOK
  <1>4. tab' = [tab EXCEPT ![c] = s2]  BY DEF Reload, TypeOK
  <1>. HIDE DEF s2
  <1>. QED  BY <1>3, <1>4 DEF TypeOK, Reload, store, mail

\* A turn with two fields replaced at once is one with the first and then the other replaced.
LEMMA ClosedTyped ==
    ASSUME NEW s \in TabState
    PROVE  Closed(s) \in TabState /\ Closed(s).last = s.last /\ Closed(s).unsent = s.unsent
  <1> DEFINE s1 == [s EXCEPT !.open = FALSE]
             status == IF s1.status \in {"submitted", "streaming"} THEN "error" ELSE s1.status
  <1>1. s1 \in TabState /\ s1.last = s.last /\ s1.unsent = s.unsent
    BY DEF TabState
  <1>2. status \in {"ready", "submitted", "streaming", "error"}
    BY <1>1 DEF TabState
  <1>3. Closed(s) = [s1 EXCEPT !.status = status]  BY DEF Closed
  <1>. HIDE DEF s1, status
  <1>. QED  BY <1>1, <1>2, <1>3, TabTyped DEF TabState

\* Disconnect keeps every state well formed.
LEMMA DisconnectTyped ==
    ASSUME TypeOK, NEW c \in Tab, Disconnect(c)
    PROVE  TypeOK'
  <1>1. PICK heard \in BOOLEAN : turns' = Detached(c, heard)  BY DEF Disconnect
  <1>2. /\ DOMAIN turns' = DOMAIN turns
        /\ \A r \in DOMAIN turns : turns'[r] \in Turn
    <2>1. ASSUME NEW r \in DOMAIN turns PROVE turns'[r] \in Turn
      <3> DEFINE t == turns[r]
                 t1 == [t EXCEPT !.attached = FALSE]
                 x == t1.aborted \/ heard
                 t2 == [t1 EXCEPT !.aborted = x]
      <3>1. t \in Turn  BY DEF TypeOK
      <3>2. t1 \in Turn  BY <3>1, TurnTyped
      <3>3. x \in BOOLEAN  OBVIOUS
      <3>4. t2 \in Turn
        <4>. HIDE DEF t1, x
        <4>. QED  BY <3>2, <3>3, TurnTyped
      <3>5. turns'[r] = IF r = serving[c] THEN t2 ELSE t  BY <1>1 DEF Detached
      <3>. HIDE DEF t, t2
      <3>. QED  BY <3>1, <3>4, <3>5
    <2>. QED  BY <2>1, <1>1 DEF Detached
  <1>3. tab' = [tab EXCEPT ![c] = Closed(tab[c])] /\ Closed(tab[c]) \in TabState
    BY ClosedTyped DEF Disconnect, TypeOK
  <1>4. up' = [up EXCEPT ![c] = <<>>] /\ down' = [down EXCEPT ![c] = <<>>] /\ serving' = [serving EXCEPT ![c] = 0]
    BY DEF Disconnect
  <1>5. /\ tab' \in [Tab -> TabState] /\ up' \in [Tab -> Seq(Frame)] /\ down' \in [Tab -> Seq(Answer)]
        /\ serving' \in [Tab -> 0 .. MaxRequests]
    BY <1>3, <1>4, BoundsTyped DEF TypeOK
  <1>6. spent' \in [Counters -> Nat]
    BY SpendTyped, "faults" \in Counters DEF Disconnect, Counters
  <1>. QED  BY <1>2, <1>5, <1>6 DEF TypeOK, Disconnect, store, mail

\* Receive keeps every state well formed.
LEMMA ReceiveTyped ==
    ASSUME TypeOK, Numbered, NEW c \in Tab, Receive(c)
    PROVE  TypeOK'
  <1> DEFINE frame == Head(up[c])
  <1>1. /\ up[c] \in Seq(Frame) /\ up[c] # <<>> /\ frame \in Frame /\ frame = up[c][1] /\ 1 \in DOMAIN up[c]
        /\ Tail(up[c]) \in Seq(Frame)
    <2>1. up[c] \in Seq(Frame) /\ up[c] # <<>>  BY DEF TypeOK, Receive
    <2>. QED  BY <2>1, QueueParts, ConstantsTyped
  <1>2. frame.run \in 0 .. MaxRequests /\ (frame.type # "stop" => frame.run \in Run)
    BY <1>1, FrameTyped, BoundsTyped DEF Numbered, Run
  <1>3. up' \in [Tab -> Seq(Frame)]  BY <1>1 DEF TypeOK, Receive
  <1>4. /\ down' \in [Tab -> Seq(Answer)] /\ serving' \in [Tab -> 0 .. MaxRequests]
        /\ DOMAIN turns' \subseteq Run /\ \A r \in DOMAIN turns' : turns'[r] \in Turn
    <2>1. CASE /\ frame.type = "stop"
               /\ turns' = [r \in DOMAIN turns |->
                     IF r = serving[c] THEN [turns[r] EXCEPT !.aborted = TRUE] ELSE turns[r]]
               /\ UNCHANGED <<down, serving>>
      <3>1. \A r \in DOMAIN turns : turns[r] \in Turn /\ [turns[r] EXCEPT !.aborted = TRUE] \in Turn
        BY TurnTyped DEF TypeOK
      <3>. QED  BY <2>1, <3>1 DEF TypeOK
    <2>2. CASE /\ frame.type # "stop" /\ serving[c] # 0
               /\ down' = [down EXCEPT ![c] =
                     Append(@, [type |-> "rejected", run |-> frame.run, last |-> NoMessage])]
               /\ UNCHANGED <<turns, serving>>
      <3> DEFINE answer == [type |-> "rejected", run |-> frame.run, last |-> NoMessage]
      <3>1. answer \in Answer  BY <1>2, <2>2, ConstantsTyped DEF Answer
      <3>. HIDE DEF answer
      <3>2. Append(down[c], answer) \in Seq(Answer)  BY <3>1 DEF TypeOK
      <3>3. down' = [down EXCEPT ![c] = Append(down[c], answer)]
        BY <2>2 DEF answer
      <3>. QED  BY <2>2, <3>2, <3>3 DEF TypeOK
    <2>3. CASE /\ frame.type # "stop" /\ serving[c] = 0
               /\ turns' = [r \in DOMAIN turns \union {frame.run} |->
                   IF r = frame.run
                   THEN [at |-> "identity", tab |-> c, attached |-> TRUE, frame |-> frame,
                         view |-> <<>>, response |-> NoMessage,
                         aborted |-> FALSE, failed |-> FALSE,
                         streamed |-> FALSE, finished |-> FALSE, lapsed |-> FALSE,
                         claim |-> 0]
                   ELSE turns[r]]
               /\ serving' = [serving EXCEPT ![c] = frame.run]
               /\ UNCHANGED down
      <3> DEFINE t == [at |-> "identity", tab |-> c, attached |-> TRUE, frame |-> frame,
                       view |-> <<>>, response |-> NoMessage,
                       aborted |-> FALSE, failed |-> FALSE,
                       streamed |-> FALSE, finished |-> FALSE, lapsed |-> FALSE,
                       claim |-> 0]
      <3>1. t \in Turn
        <4>. HIDE DEF frame
        <4>. QED  BY <1>1, ConstantsTyped DEF Turn
      <3>2. turns' = [r \in DOMAIN turns \union {frame.run} |-> IF r = frame.run THEN t ELSE turns[r]]
        BY <2>3
      <3>. HIDE DEF t
      <3>. QED  BY <1>2, <2>3, <3>1, <3>2 DEF TypeOK
    <2>. QED  BY <2>1, <2>2, <2>3 DEF Receive
  <1>. QED  BY <1>3, <1>4 DEF TypeOK, Receive, store, mail

\* The steps of one turn.
LEMMA OneTurnTyped ==
    ASSUME TypeOK, NEW r \in DOMAIN turns, NEW t \in Turn, turns' = [turns EXCEPT ![r] = t]
    PROVE  /\ DOMAIN turns' = DOMAIN turns /\ DOMAIN turns' \subseteq Run
           /\ \A q \in DOMAIN turns' : turns'[q] \in Turn
           /\ turns'[r] = t /\ \A q \in DOMAIN turns : q # r => turns'[q] = turns[q]
BY DEF TypeOK

\* Vanish keeps every state well formed.
LEMMA VanishTyped ==
    ASSUME TypeOK, NEW r \in DOMAIN turns, Vanish(r)
    PROVE  /\ DOMAIN turns' = DOMAIN turns \ {r} /\ DOMAIN turns' \subseteq Run
           /\ \A q \in DOMAIN turns' : turns'[q] \in Turn /\ turns'[q] = turns[q]
BY DEF TypeOK, Vanish

\* Over keeps every state well formed.
LEMMA OverTyped ==
    ASSUME TypeOK, NEW r \in DOMAIN turns, Over(r)
    PROVE  /\ DOMAIN turns' = DOMAIN turns \ {r} /\ DOMAIN turns' \subseteq Run
           /\ \A q \in DOMAIN turns' : turns'[q] \in Turn /\ turns'[q] = turns[q]
           /\ serving' \in [Tab -> 0 .. MaxRequests]
BY VanishTyped, BoundsTyped DEF Over, TypeOK

\* Identity keeps every state well formed.
LEMMA IdentityTyped ==
    ASSUME TypeOK, NEW r \in DOMAIN turns, Identity(r)
    PROVE  TypeOK'
  <1> DEFINE c == turns[r].tab
  <1>1. turns[r] \in Turn /\ c \in Tab  BY TurnFields DEF TypeOK
  <1>2. CASE signedIn
    <2>1. turns' = [turns EXCEPT ![r] = [turns[r] EXCEPT !.at = "start"]]
      BY <1>2 DEF Identity
    <2>2. [turns[r] EXCEPT !.at = "start"] \in Turn
      BY <1>1, TurnTyped, "start" \in TurnAt DEF TurnAt
    <2>3. DOMAIN turns' \subseteq Run /\ \A q \in DOMAIN turns' : turns'[q] \in Turn
      BY <2>1, <2>2, OneTurnTyped
    <2>. QED  BY <1>2, <2>3 DEF TypeOK, Identity, store, mail
  <1>3. CASE ~signedIn
    <2>1. /\ DOMAIN turns' \subseteq Run /\ \A q \in DOMAIN turns' : turns'[q] \in Turn
          /\ serving' \in [Tab -> 0 .. MaxRequests]
      BY <1>3, OverTyped DEF Identity
    <2>2. /\ tab' = tab \/ tab' = [tab EXCEPT ![c] = Closed(tab[c])]
          /\ up' = up \/ up' = [up EXCEPT ![c] = <<>>]
          /\ down' = down \/ down' = [down EXCEPT ![c] = <<>>]
      BY <1>3 DEF Identity
    <2>3. /\ tab' \in [Tab -> TabState] /\ up' \in [Tab -> Seq(Frame)] /\ down' \in [Tab -> Seq(Answer)]
      <3>1. c \in Tab /\ tab \in [Tab -> TabState] /\ up \in [Tab -> Seq(Frame)] /\ down \in [Tab -> Seq(Answer)]
        BY <1>1 DEF TypeOK
      <3>2. Closed(tab[c]) \in TabState  BY <3>1, ClosedTyped
      <3>3. <<>> \in Seq(Frame) /\ <<>> \in Seq(Answer)  OBVIOUS
      <3>. HIDE DEF c
      <3>. QED  BY <2>2, <3>1, <3>2, <3>3
    <2>. QED  BY <2>1, <2>3 DEF TypeOK, Identity, store, mail
  <1>. QED  BY <1>2, <1>3

\* What a turn does when it claims the conversation.
Claims(r) == /\ conv.owner = 0 \/ conv.lapsed
             /\ conv.exists \/ turns[r].frame.type = "message"

\* What Start changes, field by field.
LEMMA StartDoes ==
    ASSUME TypeOK, NEW r \in DOMAIN turns, Start(r)
    PROVE  /\ turns[r].at = "start"
           /\ Claims(r) =>
                /\ conv' = [exists |-> TRUE, owner |-> r, lapsed |-> FALSE, claims |-> conv.claims + 1]
                /\ \/ /\ turns[r].frame.type = "message" /\ turns[r].frame.id \in Id
                      /\ \E m \in Message : m.id = turns[r].frame.id /\ m.send = "none" /\ history' = Saved(m)
                   \/ turns[r].frame.type # "message" /\ history' = history
                /\ \E t \in Turn : /\ turns' = [turns EXCEPT ![r] = t]
                                   /\ t.at = "prepare" /\ t.view = history' /\ t.frame = turns[r].frame
                                   /\ t.response = turns[r].response
                /\ UNCHANGED <<down, serving>>
           /\ ~Claims(r) => Over(r) /\ Tell(r, "rejected", NoMessage) /\ UNCHANGED store
  <1> DEFINE t == turns[r]
             m == [id |-> t.frame.id, send |-> "none", by |-> conv.claims + 1]
  <1>1. t \in Turn /\ r \in Run /\ t.frame.id \in Id /\ conv.claims + 1 \in Nat
    BY TurnFields, FrameTyped DEF TypeOK
  <1>2. m \in Message /\ m.id = t.frame.id /\ m.send = "none"
    BY <1>1 DEF Message, SendState
  <1>3. ASSUME Claims(r)
        PROVE  /\ conv' = [exists |-> TRUE, owner |-> r, lapsed |-> FALSE, claims |-> conv.claims + 1]
               /\ history' = IF t.frame.type = "message" THEN Saved(m) ELSE history
               /\ turns' = [turns EXCEPT ![r].at = "prepare", ![r].view = history', ![r].claim = conv.claims + 1]
               /\ UNCHANGED <<down, serving>>
    <2>1. conv' = [exists |-> TRUE, owner |-> r, lapsed |-> FALSE, claims |-> conv.claims + 1]
      BY <1>3 DEF Start, Claims
    <2>2. conv'.claims = conv.claims + 1  BY <2>1
    <2>3. /\ history' = IF t.frame.type = "message"
                        THEN Saved([id |-> t.frame.id, send |-> "none", by |-> conv'.claims]) ELSE history
          /\ turns' = [turns EXCEPT ![r].at = "prepare", ![r].view = history', ![r].claim = conv'.claims]
          /\ UNCHANGED <<down, serving>>
      BY <1>3 DEF Start, Claims
    <2>. QED  BY <2>1, <2>2, <2>3
  <1>4. Saved(m) \in Seq(Message) /\ history \in Seq(Message)
    BY <1>2, SavedIs DEF TypeOK
  <1>5. ASSUME Claims(r)
        PROVE  \E x \in Turn : /\ turns' = [turns EXCEPT ![r] = x]
                               /\ x.at = "prepare" /\ x.view = history' /\ x.frame = turns[r].frame
                               /\ x.response = turns[r].response
    <2> DEFINE t1 == [t EXCEPT !.at = "prepare"]
               t2 == [t1 EXCEPT !.view = history']
               t3 == [t2 EXCEPT !.claim = conv.claims + 1]
    <2>1. history' \in Seq(Message)  BY <1>3, <1>4, <1>5
    <2>2. t1 \in Turn  BY <1>1, TurnTyped, "prepare" \in TurnAt DEF TurnAt
    <2>3. t2 \in Turn  BY <2>1, <2>2, TurnTyped
    <2>4. t3 \in Turn  BY <1>1, <2>3, TurnTyped
    <2>5. t3.at = "prepare" /\ t3.view = history' /\ t3.frame = t.frame /\ t3.response = t.response
      BY <1>1 DEF Turn
    <2>6. turns' = [turns EXCEPT ![r] = t3]  BY <1>3, <1>5
    <2>. QED  BY <2>4, <2>5, <2>6
  <1>6. ~Claims(r) => Over(r) /\ Tell(r, "rejected", NoMessage) /\ UNCHANGED store
    BY DEF Start, Claims
  <1>7. t.at = "start"  BY DEF Start
  <1>. HIDE DEF m
  <1>. QED  BY <1>1, <1>2, <1>3, <1>5, <1>6, <1>7

\* Start keeps every state well formed.
LEMMA StartTyped ==
    ASSUME TypeOK, NEW r \in DOMAIN turns, Start(r)
    PROVE  TypeOK'
  <1>1. CASE Claims(r)
    <2>1. r \in 0 .. MaxRequests /\ r \in Run /\ conv.claims + 1 \in Nat
      <3>1. conv.claims \in Nat  BY DEF TypeOK
      <3>2. r \in Run  BY DEF TypeOK
      <3>. QED  BY <3>1, <3>2, BoundsTyped
    <2>2. conv' \in [exists : BOOLEAN, owner : 0 .. MaxRequests, lapsed : BOOLEAN, claims : Nat]
      <3>1. conv' = [exists |-> TRUE, owner |-> r, lapsed |-> FALSE, claims |-> conv.claims + 1]
        BY <1>1, StartDoes
      <3>. QED  BY <2>1, <3>1
    <2>3. history' \in Seq(Message) /\ IsInjective([i \in DOMAIN history' |-> history'[i].id])
      <3>1. CASE history' = history  BY <3>1 DEF TypeOK
      <3>2. ASSUME NEW m \in Message, history' = Saved(m)
            PROVE  history' \in Seq(Message) /\ IsInjective([i \in DOMAIN history' |-> history'[i].id])
        <4> DEFINE s == Saved(m)
        <4>1. s \in Seq(Message) /\ IsInjective([i \in DOMAIN s |-> s[i].id])
          BY SavedIs DEF TypeOK
        <4>. HIDE DEF s
        <4>2. history' = s  BY <3>2 DEF s
        <4>. QED  BY <4>1, <4>2
      <3>. QED  BY <1>1, <3>1, <3>2, StartDoes
    <2>4. DOMAIN turns' \subseteq Run /\ \A q \in DOMAIN turns' : turns'[q] \in Turn
      BY <1>1, StartDoes, OneTurnTyped
    <2>5. UNCHANGED <<down, serving>>  BY <1>1, StartDoes
    <2>. QED  BY <2>2, <2>3, <2>4, <2>5 DEF TypeOK, Start, mail
  <1>2. CASE ~Claims(r)
    <2>1. Over(r) /\ Tell(r, "rejected", NoMessage) /\ UNCHANGED store
      BY <1>2, StartDoes
    <2>2. /\ DOMAIN turns' \subseteq Run /\ \A q \in DOMAIN turns' : turns'[q] \in Turn
          /\ serving' \in [Tab -> 0 .. MaxRequests]
      BY <2>1, OverTyped
    <2>3. down' \in [Tab -> Seq(Answer)]  BY <2>1, TellTyped, ConstantsTyped
    <2>. QED  BY <2>1, <2>2, <2>3 DEF TypeOK, Start, mail, store
  <1>. QED  BY <1>1, <1>2

\* The phases in which an answer ends.
LEMMA EndingIs == Ending("stream") = "save" /\ Ending("save") = "end" /\ Ending("end") = "finish"
BY Zenon DEF Ending


-----------------------------------------------------------------------------
(* What each step of a turn does.                                          *)

\* A turn moves on with a response.
Moved(r, at, m) ==
    \E t \in Turn : /\ turns' = [turns EXCEPT ![r] = t]
                    /\ t.at = at /\ t.response = m /\ t.frame = turns[r].frame

\* A turn that goes on to its next phase.
LEMMA MovedTyped ==
    ASSUME TypeOK, NEW r \in DOMAIN turns, NEW at, NEW m, Moved(r, at, m)
    PROVE  /\ DOMAIN turns' = DOMAIN turns /\ DOMAIN turns' \subseteq Run
           /\ \A q \in DOMAIN turns' : turns'[q] \in Turn
           /\ turns'[r].at = at /\ turns'[r].response = m /\ turns'[r].frame = turns[r].frame
           /\ \A q \in DOMAIN turns : q # r => turns'[q] = turns[q]
  <1>1. PICK t \in Turn : /\ turns' = [turns EXCEPT ![r] = t]
                          /\ t.at = at /\ t.response = m /\ t.frame = turns[r].frame
    BY DEF Moved
  <1>. QED  BY <1>1, OneTurnTyped

\* The ways in which the steps say so.
LEMMA MovesSo ==
    ASSUME TypeOK, NEW r \in DOMAIN turns, NEW at \in TurnAt, NEW m \in Message,
           NEW v \in Seq(Message), NEW b \in BOOLEAN
    PROVE  /\ turns' = [turns EXCEPT ![r] = [turns[r] EXCEPT !.at = at, !.response = m, !.view = v]]
                => Moved(r, at, m)
           /\ turns' = [turns EXCEPT ![r] = [turns[r] EXCEPT !.at = at, !.response = m, !.streamed = b]]
                => Moved(r, at, m)
           /\ turns' = [turns EXCEPT ![r] = [turns[r] EXCEPT !.at = at, !.view = v]]
                => Moved(r, at, turns[r].response)
           /\ turns' = [turns EXCEPT ![r] = [turns[r] EXCEPT !.at = at, !.aborted = b]]
                => Moved(r, at, turns[r].response)
           /\ turns' = [turns EXCEPT ![r] = [turns[r] EXCEPT !.at = at, !.finished = b]]
                => Moved(r, at, turns[r].response)
           /\ turns' = [turns EXCEPT ![r] = [turns[r] EXCEPT !.at = at, !.failed = b]]
                => Moved(r, at, turns[r].response)
           /\ turns' = [turns EXCEPT ![r] = [turns[r] EXCEPT !.at = at]]
                => Moved(r, at, turns[r].response)
  <1> DEFINE t == turns[r]
  <1>1. t \in Turn  BY DEF TypeOK
  <1>2. ASSUME NEW u \in Turn, NEW w, turns' = [turns EXCEPT ![r] = u], u.at = at, u.response = w,
               u.frame = t.frame
        PROVE  Moved(r, at, w)
    BY <1>2 DEF Moved
  <1>. HIDE DEF t
  <1> DEFINE t1 == [t EXCEPT !.at = at]
             t2 == [t1 EXCEPT !.response = m]
  <1>3. t1 \in Turn /\ t1.at = at /\ t1.response = t.response /\ t1.frame = t.frame
    BY <1>1, TurnTyped
  <1>4. t2 \in Turn /\ t2.at = at /\ t2.response = m /\ t2.frame = t.frame
    <2>. HIDE DEF t1
    <2>. QED  BY <1>3, TurnTyped
  <1>5. turns' = [turns EXCEPT ![r] = [t EXCEPT !.at = at, !.response = m, !.view = v]] => Moved(r, at, m)
    <2> DEFINE u == [t2 EXCEPT !.view = v]
    <2>1. u = [t EXCEPT !.at = at, !.response = m, !.view = v]  OBVIOUS
    <2>. HIDE DEF t1, t2
    <2>2. u \in Turn /\ u.at = at /\ u.response = m /\ u.frame = t.frame
      BY <1>4, TurnTyped DEF Kept
    <2>. HIDE DEF u
    <2>. QED  BY <1>2, <2>1, <2>2
  <1>6. turns' = [turns EXCEPT ![r] = [t EXCEPT !.at = at, !.response = m, !.streamed = b]] => Moved(r, at, m)
    <2> DEFINE u == [t2 EXCEPT !.streamed = b]
    <2>1. u = [t EXCEPT !.at = at, !.response = m, !.streamed = b]  OBVIOUS
    <2>. HIDE DEF t1, t2
    <2>2. u \in Turn /\ u.at = at /\ u.response = m /\ u.frame = t.frame
      <3>1. u \in Turn /\ Kept(u, t2)  BY <1>4, TurnTyped
      <3>. QED  BY <1>4, <3>1 DEF Kept
    <2>. HIDE DEF u
    <2>. QED  BY <1>2, <2>1, <2>2
  <1>7. turns' = [turns EXCEPT ![r] = [t EXCEPT !.at = at, !.view = v]] => Moved(r, at, t.response)
    <2> DEFINE u == [t1 EXCEPT !.view = v]
    <2>1. u = [t EXCEPT !.at = at, !.view = v]  OBVIOUS
    <2>. HIDE DEF t1, t2
    <2>2. u \in Turn /\ u.at = at /\ u.response = t.response /\ u.frame = t.frame
      BY <1>3, TurnTyped DEF Kept
    <2>. HIDE DEF u
    <2>. QED  BY <1>2, <2>1, <2>2
  <1>8. turns' = [turns EXCEPT ![r] = [t EXCEPT !.at = at, !.aborted = b]] => Moved(r, at, t.response)
    <2> DEFINE u == [t1 EXCEPT !.aborted = b]
    <2>1. u = [t EXCEPT !.at = at, !.aborted = b]  OBVIOUS
    <2>. HIDE DEF t1, t2
    <2>2. u \in Turn /\ u.at = at /\ u.response = t.response /\ u.frame = t.frame
      BY <1>3, TurnTyped DEF Kept
    <2>. HIDE DEF u
    <2>. QED  BY <1>2, <2>1, <2>2
  <1>9. turns' = [turns EXCEPT ![r] = [t EXCEPT !.at = at, !.finished = b]] => Moved(r, at, t.response)
    <2> DEFINE u == [t1 EXCEPT !.finished = b]
    <2>1. u = [t EXCEPT !.at = at, !.finished = b]  OBVIOUS
    <2>. HIDE DEF t1, t2
    <2>2. u \in Turn /\ u.at = at /\ u.response = t.response /\ u.frame = t.frame
      BY <1>3, TurnTyped DEF Kept
    <2>. HIDE DEF u
    <2>. QED  BY <1>2, <2>1, <2>2
  <1>10. turns' = [turns EXCEPT ![r] = [t EXCEPT !.at = at, !.failed = b]] => Moved(r, at, t.response)
    <2> DEFINE u == [t1 EXCEPT !.failed = b]
    <2>1. u = [t EXCEPT !.at = at, !.failed = b]  OBVIOUS
    <2>. HIDE DEF t1, t2
    <2>2. u \in Turn /\ u.at = at /\ u.response = t.response /\ u.frame = t.frame
      BY <1>3, TurnTyped DEF Kept
    <2>. HIDE DEF u
    <2>. QED  BY <1>2, <2>1, <2>2
  <1>11. turns' = [turns EXCEPT ![r] = t1] => Moved(r, at, t.response)
    <2>. HIDE DEF t1
    <2>. QED  BY <1>2, <1>3
  <1>. QED  BY <1>5, <1>6, <1>7, <1>8, <1>9, <1>10, <1>11 DEF t

\* No messages are a view.
LEMMA EmptyView == <<>> \in Seq(Message)
OBVIOUS

\* The phases of a turn.
LEMMA TurnAtAll ==
    {"none", "identity", "start", "prepare", "tool", "model", "stopWhen", "save", "end", "finish"} = TurnAt
BY DEF TurnAt

\* What the turn decided, or what it closed.
Stores(r, m) == /\ Owns(r) /\ history' = Saved(m) /\ conv' = [conv EXCEPT !.lapsed = FALSE]
                /\ UNCHANGED down
Decides(r) ==
    LET t == turns[r]
        n == Len(t.view)
    IN /\ t.frame.type = "approval" /\ n > 0 /\ Decidable(t.view[n], t.frame)
       /\ \E m \in Message :
             /\ Stores(r, m) /\ m.id = t.view[n].id
             /\ \/ /\ t.frame.approve /\ m.send = "approved" /\ Moved(r, "tool", m)
                   /\ tools' = [tools EXCEPT ![r] = [NoTool EXCEPT !.at = "check", !.call = m.id]]
                \/ /\ ~t.frame.approve /\ m.send = "declined"
                   /\ \E d \in Message : d.id = m.id /\ d.send = "denied" /\ Moved(r, "model", d)
                   /\ UNCHANGED tools
Closes(r) ==
    LET t == turns[r]
        n == Len(t.view)
    IN /\ n > 1 /\ t.view[n - 1].send \in OpenApproval
       /\ \E m \in Message :
             /\ Stores(r, m) /\ m.id = t.view[n - 1].id
             /\ m.send = IF t.view[n - 1].send = "approved" THEN "unconfirmed" ELSE "denied"
       /\ Moved(r, "model", NoMessage) /\ UNCHANGED tools

\* What Prepare changes, field by field.
LEMMA PrepareDoes ==
    ASSUME TypeOK, NEW r \in DOMAIN turns, Prepare(r)
    PROVE  /\ turns[r].at = "prepare"
           /\ UNCHANGED <<signedIn, mail, tab, up, serving, requests, approved, spent>>
           /\ \/ Decides(r)
              \/ Closes(r)
              \/ /\ Moved(r, "finish", turns[r].response) /\ Tell(r, "rejected", NoMessage)
                 /\ UNCHANGED <<store, tools>>
              \/ Moved(r, "model", turns[r].response) /\ UNCHANGED <<store, down, tools>>
  <1> DEFINE t == turns[r]
             n == Len(t.view)
             d1 == [t.view[n] EXCEPT !.send = IF t.frame.approve THEN "approved" ELSE "declined"]
             decided == [t.view[n] EXCEPT !.send = IF t.frame.approve THEN "approved" ELSE "declined",
                                          !.by = t.claim]
             closes == t.frame.type = "message" /\ n > 1 /\ t.view[n - 1].send \in OpenApproval
             settled == [Settled(t.view[n - 1]) EXCEPT !.by = t.claim]
  <1>1. t \in Turn /\ t.view \in Seq(Message) /\ t.claim \in Nat /\ t.frame \in Frame /\ n \in Nat
        /\ t.response \in Message
    BY TurnFields DEF TypeOK
  <1>2. {"approved", "declined", "denied", "unconfirmed"} \subseteq SendState
    BY DEF SendState
  <1>3. ASSUME n > 0
        PROVE  /\ decided \in Message /\ decided.id = t.view[n].id
               /\ decided.send = IF t.frame.approve THEN "approved" ELSE "declined"
               /\ [decided EXCEPT !.send = "denied"] \in Message
               /\ [decided EXCEPT !.send = "denied"].id = decided.id
               /\ [decided EXCEPT !.send = "denied"].send = "denied"
    <2>1. t.view[n] \in Message  BY <1>1, <1>3
    <2>2. /\ d1 \in Message /\ d1.id = t.view[n].id
          /\ d1.send = IF t.frame.approve THEN "approved" ELSE "declined"
      BY <1>2, <2>1, MessageTyped
    <2>3. decided = [d1 EXCEPT !.by = t.claim]  OBVIOUS
    <2>. HIDE DEF d1, decided
    <2>4. decided \in Message /\ decided.id = d1.id /\ decided.send = d1.send
      BY <1>1, <2>2, <2>3, MessageTyped
    <2>. QED  BY <1>2, <2>2, <2>4, MessageTyped
  <1>4. ASSUME n > 1
        PROVE  /\ settled \in Message /\ settled.id = t.view[n - 1].id
               /\ settled.send = IF t.view[n - 1].send = "approved" THEN "unconfirmed" ELSE "denied"
    <2> DEFINE v == t.view[n - 1]
    <2>1. v \in Message  BY <1>1, <1>4
    <2>. HIDE DEF v
    <2>2. /\ Settled(v) \in Message /\ Settled(v).id = v.id
          /\ Settled(v).send = IF v.send = "approved" THEN "unconfirmed" ELSE "denied"
      BY <1>2, <2>1, MessageTyped DEF Settled
    <2>3. settled = [Settled(v) EXCEPT !.by = t.claim]  BY DEF v
    <2>. HIDE DEF settled
    <2>. QED  BY <1>1, <2>2, <2>3, MessageTyped DEF v
  <1>5. t.at = "prepare" /\ UNCHANGED <<signedIn, mail, tab, up, serving, requests, approved, spent>>
    BY DEF Prepare
  <1>. HIDE DEF d1
  <1>6. CASE /\ t.frame.type = "approval"
             /\ n > 0 /\ Decidable(t.view[n], t.frame) /\ Owns(r)
             /\ history' = Saved(decided) /\ conv' = [conv EXCEPT !.lapsed = FALSE] /\ UNCHANGED down
             /\ IF t.frame.approve
                THEN /\ turns' = [turns EXCEPT ![r] = [t EXCEPT !.at = "tool", !.response = decided, !.view = <<>>]]
                     /\ tools' = [tools EXCEPT ![r] = [NoTool EXCEPT !.at = "check", !.call = decided.id]]
                ELSE /\ turns' = [turns EXCEPT ![r] =
                           [t EXCEPT !.at = "model", !.response = [decided EXCEPT !.send = "denied"], !.view = <<>>]]
                     /\ UNCHANGED tools
    <2>. HIDE DEF t, n, decided
    <2>1. /\ decided \in Message /\ decided.id = t.view[n].id
          /\ decided.send = IF t.frame.approve THEN "approved" ELSE "declined"
      BY <1>3, <1>6
    <2>2. Stores(r, decided)  BY <1>6 DEF Stores
    <2> DEFINE denied == [decided EXCEPT !.send = "denied"]
    <2>3. denied \in Message /\ denied.id = decided.id /\ denied.send = "denied"
      BY <1>3, <1>6
    <2>. HIDE DEF denied
    <2>4. t.frame.approve => Moved(r, "tool", decided)
      BY <1>6, <2>1, MovesSo, TurnAtAll, EmptyView DEF t
    <2>5. ~t.frame.approve => Moved(r, "model", denied)
      <3>. SUFFICES ASSUME ~t.frame.approve PROVE Moved(r, "model", denied)
        OBVIOUS
      <3>1. turns' = [turns EXCEPT ![r] = [t EXCEPT !.at = "model", !.response = denied, !.view = <<>>]]
        BY <1>6 DEF denied
      <3>. QED  BY <2>3, <3>1, MovesSo, TurnAtAll, EmptyView DEF t
    <2>6. Decides(r)
      <3>1. /\ decided \in Message /\ Stores(r, decided) /\ decided.id = t.view[n].id
            /\ \/ /\ t.frame.approve /\ decided.send = "approved" /\ Moved(r, "tool", decided)
                  /\ tools' = [tools EXCEPT ![r] = [NoTool EXCEPT !.at = "check", !.call = decided.id]]
               \/ /\ ~t.frame.approve /\ decided.send = "declined"
                  /\ \E d \in Message : d.id = decided.id /\ d.send = "denied" /\ Moved(r, "model", d)
                  /\ UNCHANGED tools
        BY <1>6, <2>1, <2>2, <2>3, <2>4, <2>5
      <3>. QED  BY <1>6, <3>1 DEF Decides, t, n
    <2>. QED  BY <1>5, <2>6 DEF t
  <1>7. CASE /\ closes /\ Owns(r)
             /\ history' = Saved(settled) /\ conv' = [conv EXCEPT !.lapsed = FALSE] /\ UNCHANGED down
             /\ turns' = [turns EXCEPT ![r] = [t EXCEPT !.at = "model", !.response = NoMessage, !.view = <<>>]]
             /\ UNCHANGED tools
    <2>. HIDE DEF settled
    <2>1. Stores(r, settled)  BY <1>7 DEF Stores
    <2>2. Moved(r, "model", NoMessage)
      BY <1>7, MovesSo, ConstantsTyped, TurnAtAll, EmptyView
    <2>3. Closes(r)  BY <1>4, <1>7, <2>1, <2>2 DEF Closes
    <2>. QED  BY <1>5, <2>3
  <1>8. CASE Reject(r) /\ UNCHANGED tools
    <2>1. turns' = [turns EXCEPT ![r] = [t EXCEPT !.at = "finish", !.view = <<>>]]
      BY <1>8 DEF Reject
    <2>2. Moved(r, "finish", t.response)
      BY <1>1, <2>1, MovesSo, TurnAtAll, EmptyView
    <2>. QED  BY <1>5, <1>8, <2>2 DEF Reject
  <1>9. CASE /\ turns' = [turns EXCEPT ![r] = [t EXCEPT !.at = "model", !.view = <<>>]]
             /\ UNCHANGED <<store, down, tools>>
    <2>1. Moved(r, "model", t.response)
      BY <1>1, <1>9, MovesSo, TurnAtAll, EmptyView
    <2>. QED  BY <1>5, <1>9, <2>1
  <1>. QED  BY <1>6, <1>7, <1>8, <1>9 DEF Prepare

\* A step of the model continues the response, or begins one.
Continues(r, m) == m.id = IF turns[r].response = NoMessage THEN <<"agent", r>> ELSE turns[r].response.id

\* What Model changes, field by field.
LEMMA ModelDoes ==
    ASSUME TypeOK, NEW r \in DOMAIN turns, Model(r)
    PROVE  /\ turns[r].at = "model"
           /\ UNCHANGED <<signedIn, store, mail, tab, up, serving, requests, approved>>
           /\ spent' \in [Counters -> Nat]
           /\ \/ \E m \in Message :
                    /\ Continues(r, m) /\ Tell(r, "chunk", m)
                    /\ \/ m.send = turns[r].response.send /\ Moved(r, "save", m) /\ UNCHANGED tools
                       \/ /\ turns[r].response.send = "none" /\ m.send = "requested"
                          /\ Moved(r, "save", m) /\ UNCHANGED tools
                       \/ /\ m.send = turns[r].response.send /\ Moved(r, "tool", m)
                          /\ tools' = [tools EXCEPT ![r] = [NoTool EXCEPT !.at = "check", !.late = tools[r].late]]
              \/ Moved(r, "save", turns[r].response) /\ UNCHANGED <<down, tools>>
  <1> DEFINE t == turns[r]
             response == IF t.response = NoMessage
                         THEN [id |-> <<"agent", r>>, send |-> "none", by |-> t.claim]
                         ELSE [t.response EXCEPT !.by = t.claim]
             asks == [response EXCEPT !.send = "requested"]
  <1>1. t \in Turn /\ t.claim \in Nat /\ t.response \in Message /\ r \in Run
    BY TurnFields DEF TypeOK
  <1>2. /\ response \in Message /\ Continues(r, response) /\ response.send = t.response.send
    <2>1. CASE t.response = NoMessage
      <3> DEFINE m == [id |-> <<"agent", r>>, send |-> "none", by |-> t.claim]
      <3>1. <<"agent", r>> \in Id  BY <1>1, BoundsTyped, ConstantsTyped
      <3>2. m \in Message /\ m.id = <<"agent", r>> /\ m.send = "none"
        BY <1>1, <3>1 DEF Message, SendState
      <3>. HIDE DEF m
      <3>3. response = m  BY <2>1 DEF m
      <3>. HIDE DEF response
      <3>. QED  BY <2>1, <3>2, <3>3, ConstantsTyped DEF Continues
    <2>2. CASE t.response # NoMessage
      <3> DEFINE m == [t.response EXCEPT !.by = t.claim]
      <3>1. m \in Message /\ m.id = t.response.id /\ m.send = t.response.send
        BY <1>1, MessageTyped
      <3>. HIDE DEF m
      <3>2. response = m  BY <2>2 DEF m
      <3>. HIDE DEF response
      <3>. QED  BY <2>2, <3>1, <3>2 DEF Continues
    <2>. QED  BY <2>1, <2>2
  <1>3. asks \in Message /\ Continues(r, asks) /\ asks.send = "requested"
    <2>1. "requested" \in SendState  BY DEF SendState
    <2>. HIDE DEF response
    <2>. QED  BY <1>2, <2>1, MessageTyped DEF Continues
  <1>. HIDE DEF response, asks
  <1>4. /\ t.at = "model"
        /\ UNCHANGED <<signedIn, store, mail, tab, up, serving, requests, approved>>
    BY DEF Model
  <1>5. spent' \in [Counters -> Nat]
    <2>1. spent' = spent \/ Spend("drafts", MaxDrafts)  BY DEF Model
    <2>. QED  BY <2>1, SpendTyped, "drafts" \in Counters DEF TypeOK, Counters
  <1>6. CASE /\ turns' = [turns EXCEPT ![r].at = Ending("stream"), ![r].response = response,
                                       ![r].streamed = TRUE]
             /\ Tell(r, "chunk", response) /\ UNCHANGED <<tools, spent>>
    <2>1. turns' = [turns EXCEPT ![r] = [t EXCEPT !.at = "save", !.response = response, !.streamed = TRUE]]
      BY <1>6, EndingIs
    <2>2. Moved(r, "save", response)
      BY <1>2, <2>1, MovesSo, TurnAtAll, EmptyView
    <2>. QED  BY <1>2, <1>4, <1>5, <1>6, <2>2
  <1>7. CASE /\ response.send = "none"
             /\ turns' = [turns EXCEPT ![r].at = Ending("stream"), ![r].response = asks,
                                       ![r].streamed = TRUE]
             /\ Tell(r, "chunk", asks) /\ UNCHANGED <<tools, spent>>
    <2>1. turns' = [turns EXCEPT ![r] = [t EXCEPT !.at = "save", !.response = asks, !.streamed = TRUE]]
      BY <1>7, EndingIs
    <2>2. Moved(r, "save", asks)  BY <1>3, <2>1, MovesSo, TurnAtAll, EmptyView
    <2>. QED  BY <1>2, <1>3, <1>4, <1>5, <1>7, <2>2
  <1>8. CASE /\ turns' = [turns EXCEPT ![r] = [t EXCEPT !.at = "tool", !.response = response,
                                                       !.streamed = TRUE]]
             /\ tools' = [tools EXCEPT ![r] = [NoTool EXCEPT !.at = "check", !.late = tools[r].late]]
             /\ Tell(r, "chunk", response)
    <2>1. Moved(r, "tool", response)
      BY <1>2, <1>8, MovesSo, TurnAtAll, EmptyView
    <2>. QED  BY <1>2, <1>4, <1>5, <1>8, <2>1
  <1>9. CASE /\ turns' = [turns EXCEPT ![r].at = Ending("stream"), ![r].failed = TRUE]
             /\ UNCHANGED <<tools, down, spent>>
    <2>1. turns' = [turns EXCEPT ![r] = [t EXCEPT !.at = "save", !.failed = TRUE]]
      BY <1>9, EndingIs
    <2>2. Moved(r, "save", t.response)
      BY <1>1, <2>1, MovesSo, TurnAtAll, EmptyView
    <2>. QED  BY <1>4, <1>5, <1>9, <2>2
  <1>10. \/ /\ turns' = [turns EXCEPT ![r].at = Ending("stream"), ![r].response = response,
                                       ![r].streamed = TRUE]
            /\ Tell(r, "chunk", response) /\ UNCHANGED <<tools, spent>>
         \/ /\ response.send = "none"
            /\ turns' = [turns EXCEPT ![r].at = Ending("stream"), ![r].response = asks,
                                      ![r].streamed = TRUE]
            /\ Tell(r, "chunk", asks) /\ UNCHANGED <<tools, spent>>
         \/ /\ turns' = [turns EXCEPT ![r] = [t EXCEPT !.at = "tool", !.response = response,
                                                       !.streamed = TRUE]]
            /\ tools' = [tools EXCEPT ![r] = [NoTool EXCEPT !.at = "check", !.late = tools[r].late]]
            /\ Tell(r, "chunk", response)
         \/ /\ turns' = [turns EXCEPT ![r].at = Ending("stream"), ![r].failed = TRUE]
            /\ UNCHANGED <<tools, down, spent>>
    BY DEF Model, response, asks
  <1>. QED  BY <1>6, <1>7, <1>8, <1>9, <1>10

\* What Abort changes, field by field.
LEMMA AbortDoes ==
    ASSUME TypeOK, NEW r \in DOMAIN turns, Abort(r)
    PROVE  /\ turns[r].at \in {"model", "tool"} /\ Moved(r, "save", turns[r].response)
           /\ UNCHANGED <<signedIn, store, mail, tools, chat, spent>>
  <1>1. turns' = [turns EXCEPT ![r] = [turns[r] EXCEPT !.at = "save"]]
    BY EndingIs DEF Abort
  <1>2. turns[r].response \in Message  BY TurnFields DEF TypeOK
  <1>3. Moved(r, "save", turns[r].response)
    BY <1>1, <1>2, MovesSo, TurnAtAll, EmptyView
  <1>. QED  BY <1>3 DEF Abort

\* What a turn takes from the tool that is done.
LEMMA ResumeDoes ==
    ASSUME TypeOK, Equipped, NEW r \in DOMAIN turns, Resume(r)
    PROVE  /\ turns[r].at = "tool" /\ tools[r].at = "done"
           /\ \E m \in Message :
                 /\ m.id = turns[r].response.id /\ Tell(r, "chunk", m)
                 /\ \/ /\ tools[r].call = <<"none", 0>> /\ m = turns[r].response
                       /\ Moved(r, "stopWhen", m)
                    \/ /\ tools[r].call # <<"none", 0>> /\ m.send \in {"sent", "failed"}
                       /\ Moved(r, "model", m)
           /\ tools' = [tools EXCEPT ![r] = [NoTool EXCEPT !.late = tools[r].late]]
           /\ UNCHANGED <<signedIn, store, mail, tab, up, serving, requests, approved, spent>>
  <1> DEFINE t == turns[r]
             sends == tools[r].call # <<"none", 0>>
             result == tools[r].result
             m1 == [t.response EXCEPT !.send = result]
             m2 == [t.response EXCEPT !.send = result, !.by = t.claim]
             m == IF sends THEN m2 ELSE t.response
             at == IF sends THEN "model" ELSE "stopWhen"
  <1>1. t \in Turn /\ t.claim \in Nat /\ t.response \in Message /\ r \in Run
    BY TurnFields DEF TypeOK
  <1>2. /\ t.at = "tool" /\ tools[r].at = "done" /\ Tell(r, "chunk", m)
        /\ turns' = [turns EXCEPT ![r] = [t EXCEPT !.at = at, !.response = m, !.streamed = TRUE]]
        /\ tools' = [tools EXCEPT ![r] = [NoTool EXCEPT !.late = tools[r].late]]
        /\ UNCHANGED <<signedIn, store, mail, tab, up, serving, requests, approved, spent>>
    BY DEF Resume
  <1>3. ASSUME sends
        PROVE  m2 \in Message /\ m2.id = t.response.id /\ m2.send \in {"sent", "failed"}
    <2>1. result \in {"sent", "failed"}  BY <1>1, <1>2, <1>3 DEF Equipped
    <2>2. m1 \in Message /\ m1.id = t.response.id /\ m1.send = result
      <3>1. result \in SendState  BY <2>1 DEF SendState
      <3>. HIDE DEF result, t
      <3>. QED  BY <1>1, <3>1, MessageTyped
    <2>3. m2 = [m1 EXCEPT !.by = t.claim]  OBVIOUS
    <2>. HIDE DEF m1, m2
    <2>. QED  BY <1>1, <2>1, <2>2, <2>3, MessageTyped
  <1>. HIDE DEF m2
  <1>4. m \in Message /\ m.id = t.response.id  BY <1>1, <1>3
  <1>5. at \in TurnAt  BY TurnAtAll
  <1>6. Moved(r, at, m)
    <2>. HIDE DEF at, m
    <2>. QED  BY <1>2, <1>4, <1>5, MovesSo, EmptyView
  <1>7. CASE sends  BY <1>2, <1>3, <1>4, <1>6, <1>7
  <1>8. CASE ~sends  BY <1>2, <1>4, <1>6, <1>8
  <1>. QED  BY <1>7, <1>8

\* What StopWhen changes, field by field.
LEMMA StopWhenDoes ==
    ASSUME TypeOK, NEW r \in DOMAIN turns, StopWhen(r)
    PROVE  /\ turns[r].at = "stopWhen" /\ conv' = Renewed(r)
           /\ Moved(r, "model", turns[r].response) \/ Moved(r, "save", turns[r].response)
           /\ UNCHANGED <<signedIn, history, mail, tools, chat, spent>>
  <1> DEFINE at == IF Owns(r) THEN "model" ELSE "save"
             aborted == turns[r].aborted \/ ~Owns(r)
  <1>1. turns' = [turns EXCEPT ![r] = [turns[r] EXCEPT !.at = at, !.aborted = aborted]]
    BY EndingIs DEF StopWhen
  <1>2. turns[r].response \in Message /\ at \in TurnAt /\ aborted \in BOOLEAN
    BY TurnFields, TurnAtAll DEF TypeOK
  <1>3. Moved(r, at, turns[r].response)
    <2>. HIDE DEF at, aborted
    <2>. QED  BY <1>1, <1>2, MovesSo, EmptyView
  <1>. QED  BY <1>3 DEF StopWhen

\* What Save changes, field by field.
LEMMA SaveDoes ==
    ASSUME TypeOK, NEW r \in DOMAIN turns, Save(r)
    PROVE  /\ turns[r].at = "save" /\ Moved(r, "end", turns[r].response)
           /\ \/ /\ Owns(r) /\ turns[r].response # NoMessage
                 /\ conv' = [conv EXCEPT !.owner = 0, !.lapsed = FALSE]
                 /\ \E m \in Message : /\ m.id = turns[r].response.id /\ m.send = turns[r].response.send
                                       /\ history' = Saved(m)
              \/ UNCHANGED store
           /\ UNCHANGED <<signedIn, mail, tools, chat, spent>>
  <1> DEFINE t == turns[r]
             saves == t.response # NoMessage /\ Owns(r)
             m == [t.response EXCEPT !.by = t.claim]
  <1>1. t.response \in Message /\ t.claim \in Nat /\ saves \in BOOLEAN
    BY TurnFields DEF TypeOK
  <1>2. m \in Message /\ m.id = t.response.id /\ m.send = t.response.send
    BY <1>1, MessageTyped
  <1>3. turns' = [turns EXCEPT ![r] = [t EXCEPT !.at = "end", !.finished = saves]]
    BY EndingIs DEF Save
  <1>4. Moved(r, "end", t.response)
    <2>. HIDE DEF saves
    <2>. QED  BY <1>1, <1>3, MovesSo, TurnAtAll, EmptyView
  <1>5. /\ t.at = "save" /\ UNCHANGED <<signedIn, mail, tools, chat, spent>>
        /\ history' = IF saves THEN Saved(m) ELSE history
        /\ conv' = IF saves THEN [conv EXCEPT !.owner = 0, !.lapsed = FALSE] ELSE conv
    BY DEF Save
  <1>6. CASE saves
    <2>1. \E x \in Message : x.id = t.response.id /\ x.send = t.response.send /\ history' = Saved(x)
      BY <1>2, <1>5, <1>6
    <2>. QED  BY <1>4, <1>5, <1>6, <2>1
  <1>7. CASE ~saves  BY <1>4, <1>5, <1>7 DEF store
  <1>. QED  BY <1>6, <1>7

\* What End changes, field by field.
LEMMA EndDoes ==
    ASSUME TypeOK, NEW r \in DOMAIN turns, End(r)
    PROVE  /\ turns[r].at = "end"
           /\ \E type \in {"end", "failed"} : Tell(r, type, NoMessage)
           /\ \/ Over(r)
              \/ Moved(r, "finish", turns[r].response) /\ UNCHANGED serving
           /\ UNCHANGED <<signedIn, store, mail, tools, tab, up, requests, approved, spent>>
  <1>1. turns[r].response \in Message  BY TurnFields DEF TypeOK
  <1>2. turns' = [turns EXCEPT ![r] = [turns[r] EXCEPT !.at = "finish"]] => Moved(r, "finish", turns[r].response)
    BY <1>1, MovesSo, TurnAtAll, EmptyView
  <1>. QED  BY <1>2, EndingIs DEF End

\* What Throw changes, field by field.
LEMMA ThrowDoes ==
    ASSUME TypeOK, NEW r \in DOMAIN turns, Throw(r)
    PROVE  /\ \E type \in {"rejected", "failed"} : Tell(r, type, NoMessage)
           /\ \/ turns[r].at \in {"identity", "start"} /\ Over(r)
              \/ turns[r].at \in {"prepare", "save"} /\ Moved(r, "finish", turns[r].response) /\ UNCHANGED serving
           /\ spent' \in [Counters -> Nat]
           /\ UNCHANGED <<signedIn, store, mail, tools, tab, up, requests, approved>>
  <1>1. turns[r].response \in Message  BY TurnFields DEF TypeOK
  <1>2. turns' = [turns EXCEPT ![r] = [turns[r] EXCEPT !.at = "finish", !.view = <<>>]]
          => Moved(r, "finish", turns[r].response)
    BY <1>1, MovesSo, TurnAtAll, EmptyView
  <1>3. spent' \in [Counters -> Nat]
    BY SpendTyped, "faults" \in Counters DEF Throw, Counters
  <1>. QED  BY <1>2, <1>3 DEF Throw

-----------------------------------------------------------------------------
(* Every step keeps the types.                                             *)

\* The steps that move a turn and change no more than the stored conversation,
\* the tool of the turn and the answers to its tab.
LEMMA TurnStepTyped ==
    ASSUME TypeOK, NEW r \in DOMAIN turns, NEW at, NEW m, Moved(r, at, m),
           conv' \in [exists : BOOLEAN, owner : 0 .. MaxRequests, lapsed : BOOLEAN, claims : Nat],
           history' = history \/ \E x \in Message : history' = Saved(x),
           tools' \in [Run -> Tool], down' \in [Tab -> Seq(Answer)], spent' \in [Counters -> Nat],
           UNCHANGED <<signedIn, mail, tab, up, serving, requests, approved>>
    PROVE  TypeOK'
  <1>1. DOMAIN turns' \subseteq Run /\ \A q \in DOMAIN turns' : turns'[q] \in Turn
    BY MovedTyped
  <1>2. history' \in Seq(Message) /\ IsInjective([i \in DOMAIN history' |-> history'[i].id])
    <2>1. CASE history' = history  BY <2>1 DEF TypeOK
    <2>2. ASSUME NEW x \in Message, history' = Saved(x)
          PROVE  history' \in Seq(Message) /\ IsInjective([i \in DOMAIN history' |-> history'[i].id])
      <3> DEFINE s == Saved(x)
      <3>1. s \in Seq(Message) /\ IsInjective([i \in DOMAIN s |-> s[i].id])
        BY SavedIs DEF TypeOK
      <3>. HIDE DEF s
      <3>2. history' = s  BY <2>2 DEF s
      <3>. QED  BY <3>1, <3>2
    <2>. QED  BY <2>1, <2>2
  <1>. QED  BY <1>1, <1>2 DEF TypeOK, mail

\* The conversation with its claim lapsed, renewed, released or deleted.
LEMMA ConvTyped ==
    ASSUME TypeOK
    PROVE  /\ [conv EXCEPT !.lapsed = FALSE] \in [exists : BOOLEAN, owner : 0 .. MaxRequests, lapsed : BOOLEAN, claims : Nat]
           /\ [conv EXCEPT !.lapsed = FALSE].owner = conv.owner
           /\ [conv EXCEPT !.lapsed = TRUE] \in [exists : BOOLEAN, owner : 0 .. MaxRequests, lapsed : BOOLEAN, claims : Nat]
           /\ [conv EXCEPT !.lapsed = TRUE].owner = conv.owner
           /\ [conv EXCEPT !.owner = 0, !.lapsed = FALSE]
                 \in [exists : BOOLEAN, owner : 0 .. MaxRequests, lapsed : BOOLEAN, claims : Nat]
           /\ [conv EXCEPT !.owner = 0, !.lapsed = FALSE].owner = 0
           /\ [conv EXCEPT !.exists = FALSE, !.owner = 0, !.lapsed = FALSE]
                 \in [exists : BOOLEAN, owner : 0 .. MaxRequests, lapsed : BOOLEAN, claims : Nat]
           /\ [conv EXCEPT !.exists = FALSE, !.owner = 0, !.lapsed = FALSE].owner = 0
           /\ conv \in [exists : BOOLEAN, owner : 0 .. MaxRequests, lapsed : BOOLEAN, claims : Nat]
  <1>1. conv \in [exists : BOOLEAN, owner : 0 .. MaxRequests, lapsed : BOOLEAN, claims : Nat]
    BY DEF TypeOK
  <1>. QED  BY <1>1, BoundsTyped

\* A tool begins with the check of the lease.
LEMMA NoToolTyped ==
    ASSUME TypeOK, NEW r \in Run
    PROVE  /\ [NoTool EXCEPT !.late = tools[r].late] \in Tool
           /\ [NoTool EXCEPT !.late = tools[r].late].at = "none"
           /\ [NoTool EXCEPT !.late = tools[r].late].call = <<"none", 0>>
           /\ [NoTool EXCEPT !.late = tools[r].late].late = tools[r].late
           /\ [NoTool EXCEPT !.at = "check", !.late = tools[r].late] \in Tool
           /\ [NoTool EXCEPT !.at = "check", !.late = tools[r].late].at = "check"
           /\ [NoTool EXCEPT !.at = "check", !.late = tools[r].late].call = <<"none", 0>>
           /\ [NoTool EXCEPT !.at = "check", !.late = tools[r].late].late = tools[r].late
           /\ \A i \in Id : /\ [NoTool EXCEPT !.at = "check", !.call = i] \in Tool
                            /\ [NoTool EXCEPT !.at = "check", !.call = i].at = "check"
                            /\ [NoTool EXCEPT !.at = "check", !.call = i].call = i
                            /\ [NoTool EXCEPT !.at = "check", !.call = i].late = 0
  <1>1. tools[r].late \in Nat  BY ToolTyped DEF TypeOK
  <1>. QED  BY <1>1, ConstantsTyped DEF Tool, NoTool

\* Prepare keeps every state well formed.
LEMMA PrepareTyped ==
    ASSUME TypeOK, NEW r \in DOMAIN turns, Prepare(r)
    PROVE  TypeOK'
  <1>1. /\ tools \in [Run -> Tool] /\ down \in [Tab -> Seq(Answer)] /\ spent' \in [Counters -> Nat]
        /\ r \in Run /\ turns[r].response \in Message
    BY PrepareDoes, TurnFields DEF TypeOK
  <1>2. ASSUME NEW m \in Message, Stores(r, m)
        PROVE  /\ conv' \in [exists : BOOLEAN, owner : 0 .. MaxRequests, lapsed : BOOLEAN, claims : Nat]
               /\ \E x \in Message : history' = Saved(x)
               /\ down' \in [Tab -> Seq(Answer)]
    BY <1>1, <1>2, ConvTyped DEF Stores
  <1>3. CASE Decides(r)
    <2>1. PICK m \in Message :
             /\ Stores(r, m)
             /\ \/ /\ Moved(r, "tool", m)
                   /\ tools' = [tools EXCEPT ![r] = [NoTool EXCEPT !.at = "check", !.call = m.id]]
                \/ /\ \E d \in Message : Moved(r, "model", d)
                   /\ UNCHANGED tools
      BY <1>3 DEF Decides
    <2>2. tools' \in [Run -> Tool]
      <3>1. [NoTool EXCEPT !.at = "check", !.call = m.id] \in Tool
        BY <1>1, NoToolTyped, MessageTyped
      <3>. QED  BY <1>1, <2>1, <3>1
    <2>. QED  BY <1>1, <1>2, <2>1, <2>2, PrepareDoes, TurnStepTyped
  <1>4. CASE Closes(r)
    <2>1. PICK m \in Message : Stores(r, m)  BY <1>4 DEF Closes
    <2>2. Moved(r, "model", NoMessage) /\ UNCHANGED tools  BY <1>4 DEF Closes
    <2>. QED  BY <1>1, <1>2, <2>1, <2>2, PrepareDoes, TurnStepTyped
  <1>5. CASE /\ Moved(r, "finish", turns[r].response) /\ Tell(r, "rejected", NoMessage)
             /\ UNCHANGED <<store, tools>>
    <2>1. down' \in [Tab -> Seq(Answer)]  BY <1>5, TellTyped, ConstantsTyped
    <2>. QED  BY <1>1, <1>5, <2>1, PrepareDoes, TurnStepTyped, ConvTyped DEF store
  <1>6. CASE Moved(r, "model", turns[r].response) /\ UNCHANGED <<store, down, tools>>
    BY <1>1, <1>6, PrepareDoes, TurnStepTyped, ConvTyped DEF store
  <1>. QED  BY <1>3, <1>4, <1>5, <1>6, PrepareDoes

\* Model keeps every state well formed.
LEMMA ModelTyped ==
    ASSUME TypeOK, NEW r \in DOMAIN turns, Model(r)
    PROVE  TypeOK'
  <1>1. /\ tools \in [Run -> Tool] /\ down \in [Tab -> Seq(Answer)] /\ r \in Run
        /\ UNCHANGED <<signedIn, store, mail, tab, up, serving, requests, approved>>
        /\ spent' \in [Counters -> Nat]
    BY ModelDoes DEF TypeOK
  <1>2. CASE Moved(r, "save", turns[r].response) /\ UNCHANGED <<down, tools>>
    BY <1>1, <1>2, TurnStepTyped, ConvTyped DEF store
  <1>3. ASSUME NEW m \in Message, NEW at, Moved(r, at, m), Tell(r, "chunk", m),
               \/ UNCHANGED tools
               \/ tools' = [tools EXCEPT ![r] = [NoTool EXCEPT !.at = "check", !.late = tools[r].late]]
        PROVE  TypeOK'
    <2>1. down' \in [Tab -> Seq(Answer)]  BY <1>3, TellTyped
    <2>2. tools' \in [Run -> Tool]  BY <1>1, <1>3, NoToolTyped
    <2>. QED  BY <1>1, <1>3, <2>1, <2>2, TurnStepTyped, ConvTyped DEF store
  <1>. QED  BY <1>2, <1>3, ModelDoes

\* Resume keeps every state well formed.
LEMMA ResumeTyped ==
    ASSUME TypeOK, Equipped, NEW r \in DOMAIN turns, Resume(r)
    PROVE  TypeOK'
  <1>1. PICK m \in Message : Tell(r, "chunk", m) /\ (Moved(r, "stopWhen", m) \/ Moved(r, "model", m))
    BY ResumeDoes
  <1>2. /\ tools' = [tools EXCEPT ![r] = [NoTool EXCEPT !.late = tools[r].late]]
        /\ UNCHANGED <<signedIn, store, mail, tab, up, serving, requests, approved, spent>>
    BY ResumeDoes
  <1>3. tools \in [Run -> Tool] /\ spent' \in [Counters -> Nat] /\ r \in Run
    BY <1>2 DEF TypeOK
  <1>4. tools' \in [Run -> Tool]  BY <1>2, <1>3, NoToolTyped
  <1>5. down' \in [Tab -> Seq(Answer)]  BY <1>1, TellTyped
  <1>. QED  BY <1>1, <1>2, <1>3, <1>4, <1>5, TurnStepTyped, ConvTyped DEF store

\* Abort keeps every state well formed.
LEMMA AbortTyped ==
    ASSUME TypeOK, NEW r \in DOMAIN turns, Abort(r)
    PROVE  TypeOK'
  <1>1. /\ tools' \in [Run -> Tool] /\ down' \in [Tab -> Seq(Answer)] /\ spent' \in [Counters -> Nat]
        /\ Moved(r, "save", turns[r].response)
        /\ UNCHANGED <<signedIn, store, mail, tools, chat, spent>>
    BY AbortDoes DEF TypeOK, chat
  <1>. QED  BY <1>1, TurnStepTyped, ConvTyped DEF chat, store

\* StopWhen keeps every state well formed.
LEMMA StopWhenTyped ==
    ASSUME TypeOK, NEW r \in DOMAIN turns, StopWhen(r)
    PROVE  TypeOK'
  <1>1. /\ tools' \in [Run -> Tool] /\ down' \in [Tab -> Seq(Answer)] /\ spent' \in [Counters -> Nat]
        /\ UNCHANGED <<signedIn, history, mail, tools, chat, spent>>
    BY StopWhenDoes DEF TypeOK, chat
  <1>2. conv' \in [exists : BOOLEAN, owner : 0 .. MaxRequests, lapsed : BOOLEAN, claims : Nat]
    BY StopWhenDoes, ConvTyped DEF Renewed
  <1>. QED  BY <1>1, <1>2, StopWhenDoes, TurnStepTyped DEF chat

\* Save keeps every state well formed.
LEMMA SaveTyped ==
    ASSUME TypeOK, NEW r \in DOMAIN turns, Save(r)
    PROVE  TypeOK'
  <1>1. /\ tools' \in [Run -> Tool] /\ down' \in [Tab -> Seq(Answer)] /\ spent' \in [Counters -> Nat]
        /\ UNCHANGED <<signedIn, mail, tools, chat, spent>>
    BY SaveDoes DEF TypeOK, chat
  <1>2. /\ conv' \in [exists : BOOLEAN, owner : 0 .. MaxRequests, lapsed : BOOLEAN, claims : Nat]
        /\ history' = history \/ \E x \in Message : history' = Saved(x)
    BY SaveDoes, ConvTyped DEF store
  <1>. QED  BY <1>1, <1>2, SaveDoes, TurnStepTyped DEF chat

\* A turn that is over leaves, and a tab that is told hears of it.
LEMMA LeavesTyped ==
    ASSUME TypeOK, NEW r \in DOMAIN turns,
           conv' \in [exists : BOOLEAN, owner : 0 .. MaxRequests, lapsed : BOOLEAN, claims : Nat],
           Over(r), down' \in [Tab -> Seq(Answer)], spent' \in [Counters -> Nat],
           UNCHANGED <<signedIn, history, mail, tools, tab, up, requests, approved>>
    PROVE  TypeOK'
  <1>1. /\ DOMAIN turns' \subseteq Run /\ \A q \in DOMAIN turns' : turns'[q] \in Turn
        /\ serving' \in [Tab -> 0 .. MaxRequests]
    BY OverTyped
  <1>. QED  BY <1>1 DEF TypeOK, mail

\* End keeps every state well formed.
LEMMA EndTyped ==
    ASSUME TypeOK, NEW r \in DOMAIN turns, End(r)
    PROVE  TypeOK'
  <1>1. down' \in [Tab -> Seq(Answer)]  BY EndDoes, TellTyped, ConstantsTyped
  <1>2. /\ tools' \in [Run -> Tool] /\ spent' \in [Counters -> Nat]
        /\ UNCHANGED <<signedIn, store, mail, tools, tab, up, requests, approved, spent>>
    BY EndDoes DEF TypeOK
  <1>3. CASE Over(r)  BY <1>1, <1>2, <1>3, LeavesTyped, ConvTyped DEF store
  <1>4. CASE Moved(r, "finish", turns[r].response) /\ UNCHANGED serving
    BY <1>1, <1>2, <1>4, TurnStepTyped, ConvTyped DEF store
  <1>. QED  BY <1>3, <1>4, EndDoes

\* Finish keeps every state well formed.
LEMMA FinishTyped ==
    ASSUME TypeOK, NEW r \in DOMAIN turns, Finish(r)
    PROVE  TypeOK'
  <1>1. conv' \in [exists : BOOLEAN, owner : 0 .. MaxRequests, lapsed : BOOLEAN, claims : Nat]
    BY ConvTyped DEF Finish, Released
  <1>2. /\ down' \in [Tab -> Seq(Answer)] /\ spent' \in [Counters -> Nat]
    BY DEF TypeOK, Finish
  <1>. QED  BY <1>1, <1>2, LeavesTyped DEF Finish

\* Throw keeps every state well formed.
LEMMA ThrowTyped ==
    ASSUME TypeOK, NEW r \in DOMAIN turns, Throw(r)
    PROVE  TypeOK'
  <1>1. down' \in [Tab -> Seq(Answer)]  BY ThrowDoes, TellTyped, ConstantsTyped
  <1>2. /\ tools' \in [Run -> Tool] /\ spent' \in [Counters -> Nat]
        /\ UNCHANGED <<signedIn, store, mail, tools, tab, up, requests, approved>>
    BY ThrowDoes DEF TypeOK
  <1>3. CASE Over(r)  BY <1>1, <1>2, <1>3, LeavesTyped, ConvTyped DEF store
  <1>4. CASE Moved(r, "finish", turns[r].response) /\ UNCHANGED serving
    BY <1>1, <1>2, <1>4, TurnStepTyped, ConvTyped DEF store
  <1>. QED  BY <1>3, <1>4, ThrowDoes

\* Crash keeps every state well formed.
LEMMA CrashTyped ==
    ASSUME TypeOK, NEW r \in DOMAIN turns, Crash(r)
    PROVE  TypeOK'
  <1> DEFINE c == turns[r].tab
  <1>1. c \in Tab /\ r \in Run  BY TurnFields DEF TypeOK
  <1>2. DOMAIN turns' \subseteq Run /\ \A q \in DOMAIN turns' : turns'[q] \in Turn
    BY VanishTyped DEF Crash
  <1>3. spent' \in [Counters -> Nat]
    BY SpendTyped, "faults" \in Counters DEF Crash, Counters
  <1>4. tools' \in [Run -> Tool]  BY <1>1, ConstantsTyped DEF Crash, TypeOK
  <1>5. /\ tab' = tab \/ tab' = [tab EXCEPT ![c] = Closed(tab[c])]
        /\ up' = up \/ up' = [up EXCEPT ![c] = <<>>]
        /\ down' = down \/ down' = [down EXCEPT ![c] = <<>>]
        /\ serving' = serving \/ serving' = [serving EXCEPT ![c] = 0]
    BY DEF Crash
  <1>6. /\ tab \in [Tab -> TabState] /\ up \in [Tab -> Seq(Frame)] /\ down \in [Tab -> Seq(Answer)]
        /\ serving \in [Tab -> 0 .. MaxRequests]
    BY DEF TypeOK
  <1>7. /\ tab' \in [Tab -> TabState] /\ up' \in [Tab -> Seq(Frame)] /\ down' \in [Tab -> Seq(Answer)]
        /\ serving' \in [Tab -> 0 .. MaxRequests]
    <2>1. Closed(tab[c]) \in TabState  BY <1>1, <1>6, ClosedTyped
    <2>2. <<>> \in Seq(Frame) /\ <<>> \in Seq(Answer)  OBVIOUS
    <2>. HIDE DEF c
    <2>3. tab' \in [Tab -> TabState]  BY <1>1, <1>5, <1>6, <2>1
    <2>4. up' \in [Tab -> Seq(Frame)]  BY <1>1, <1>5, <1>6, <2>2
    <2>5. down' \in [Tab -> Seq(Answer)]  BY <1>1, <1>5, <1>6, <2>2
    <2>6. serving' \in [Tab -> 0 .. MaxRequests]
      BY <1>1, <1>5, <1>6, BoundsTyped
    <2>. QED  BY <2>3, <2>4, <2>5, <2>6
  <1>. QED  BY <1>2, <1>3, <1>4, <1>7 DEF TypeOK, Crash, store, mail

\* Lapse keeps every state well formed.
LEMMA LapseTyped ==
    ASSUME TypeOK, Lapse
    PROVE  TypeOK'
  <1>1. conv' \in [exists : BOOLEAN, owner : 0 .. MaxRequests, lapsed : BOOLEAN, claims : Nat]
    BY ConvTyped DEF Lapse
  <1>2. DOMAIN turns' \subseteq Run /\ \A q \in DOMAIN turns' : turns'[q] \in Turn
    <2>1. \A q \in DOMAIN turns : turns[q] \in Turn /\ [turns[q] EXCEPT !.lapsed = TRUE] \in Turn
      BY TurnTyped DEF TypeOK
    <2>. QED  BY <2>1 DEF Lapse, TypeOK
  <1>3. spent' \in [Counters -> Nat]
    BY SpendTyped, "lapses" \in Counters DEF Lapse, Counters
  <1>. QED  BY <1>1, <1>2, <1>3 DEF TypeOK, Lapse, mail, chat

\* Delete keeps every state well formed.
LEMMA DeleteTyped ==
    ASSUME TypeOK, Delete
    PROVE  TypeOK'
  <1>1. conv' \in [exists : BOOLEAN, owner : 0 .. MaxRequests, lapsed : BOOLEAN, claims : Nat]
    BY ConvTyped DEF Delete
  <1>2. history' \in Seq(Message) /\ IsInjective([i \in DOMAIN history' |-> history'[i].id])
    <2>1. history' = <<>> /\ DOMAIN history' = {}  BY DEF Delete
    <2>. QED  BY <2>1, EmptyView DEF IsInjective
  <1>3. spent' \in [Counters -> Nat]
    BY SpendTyped, "deletes" \in Counters DEF Delete, Counters
  <1>. QED  BY <1>1, <1>2, <1>3 DEF TypeOK, Delete, mail, chat

\* SignOut keeps every state well formed.
LEMMA SignOutTyped ==
    ASSUME TypeOK, SignOut
    PROVE  TypeOK'
  <1>1. spent' \in [Counters -> Nat]
    BY SpendTyped, "signOuts" \in Counters DEF SignOut, Counters
  <1>. QED  BY <1>1 DEF TypeOK, SignOut, store, mail, chat

\* A tool works on, for the call it was begun for.
ToolAt == {"none", "check", "draft", "recheck", "send", "call", "confirm", "done"}
Works(r, at, late, result) ==
    \E t \in Tool : /\ tools' = [tools EXCEPT ![r] = t] /\ t.at = at /\ t.call = tools[r].call
                    /\ t.late = late /\ t.result = result

\* What a tool step leaves of the tools.
LEMMA WorksTyped ==
    ASSUME TypeOK, NEW r \in Run, NEW at, NEW late, NEW result, Works(r, at, late, result)
    PROVE  /\ tools' \in [Run -> Tool]
           /\ tools'[r].at = at /\ tools'[r].call = tools[r].call /\ tools'[r].late = late
           /\ tools'[r].result = result
           /\ \A q \in Run : q # r => tools'[q] = tools[q]
BY DEF Works, TypeOK

\* The forms in which the model writes a tool step.
LEMMA WorksSo ==
    ASSUME TypeOK, NEW r \in Run
    PROVE  /\ Fails(r) => Works(r, "done", tools[r].late, "failed")
           /\ \A at \in ToolAt : Becomes(r, at) => Works(r, at, tools[r].late, tools[r].result)
           /\ tools' = [tools EXCEPT ![r].at = "done", ![r].result = "sent"]
                => Works(r, "done", tools[r].late, "sent")
           /\ \A x \in Nat : /\ tools' = [tools EXCEPT ![r].at = "done", ![r].result = "saved", ![r].late = @ + x]
                                  => Works(r, "done", tools[r].late + x, "saved")
                             /\ \A at \in ToolAt : tools' = [tools EXCEPT ![r].at = at, ![r].late = @ + x]
                                  => Works(r, at, tools[r].late + x, tools[r].result)
  <1>1. tools[r] \in Tool /\ tools[r].late \in Nat  BY ToolTyped DEF TypeOK
  <1>2. ASSUME NEW u \in Tool, tools' = [tools EXCEPT ![r] = u], u.call = tools[r].call
        PROVE  Works(r, u.at, u.late, u.result)
    BY <1>2 DEF Works
  <1>3. ASSUME NEW x \in {"sent", "failed"}
        PROVE  tools' = [tools EXCEPT ![r].at = "done", ![r].result = x] => Works(r, "done", tools[r].late, x)
    <2> DEFINE u == [tools[r] EXCEPT !.at = "done", !.result = x]
    <2>1. /\ u \in Tool /\ u.at = "done" /\ u.call = tools[r].call /\ u.late = tools[r].late
          /\ u.result = x
      BY <1>1 DEF Tool
    <2>2. tools' = [tools EXCEPT ![r].at = "done", ![r].result = x] => tools' = [tools EXCEPT ![r] = u]
      OBVIOUS
    <2>. HIDE DEF u
    <2>. QED  BY <1>2, <2>1, <2>2
  <1>4. ASSUME NEW at \in ToolAt
        PROVE  Becomes(r, at) => Works(r, at, tools[r].late, tools[r].result)
    <2> DEFINE u == [tools[r] EXCEPT !.at = at]
    <2>1. /\ u \in Tool /\ u.at = at /\ u.call = tools[r].call /\ u.late = tools[r].late
          /\ u.result = tools[r].result
      BY <1>1 DEF Tool, ToolAt
    <2>2. Becomes(r, at) => tools' = [tools EXCEPT ![r] = u]  BY DEF Becomes
    <2>. HIDE DEF u
    <2>. QED  BY <1>2, <2>1, <2>2
  <1>5. ASSUME NEW x \in Nat
        PROVE  tools' = [tools EXCEPT ![r].at = "done", ![r].result = "saved", ![r].late = @ + x]
                 => Works(r, "done", tools[r].late + x, "saved")
    <2> DEFINE n == tools[r].late + x
               u == [tools[r] EXCEPT !.at = "done", !.result = "saved", !.late = n]
    <2>1. /\ u \in Tool /\ u.at = "done" /\ u.call = tools[r].call /\ u.late = n
          /\ u.result = "saved"
      <3>1. n \in Nat  BY <1>1
      <3>. HIDE DEF n
      <3>. QED  BY <1>1, <3>1 DEF Tool
    <2>2. tools' = [tools EXCEPT ![r].at = "done", ![r].result = "saved", ![r].late = @ + x]
            => tools' = [tools EXCEPT ![r] = u]
      OBVIOUS
    <2>. HIDE DEF u
    <2>. QED  BY <1>2, <2>1, <2>2
  <1>6. ASSUME NEW x \in Nat, NEW at \in ToolAt
        PROVE  tools' = [tools EXCEPT ![r].at = at, ![r].late = @ + x]
                 => Works(r, at, tools[r].late + x, tools[r].result)
    <2> DEFINE n == tools[r].late + x
               u == [tools[r] EXCEPT !.at = at, !.late = n]
    <2>1. /\ u \in Tool /\ u.at = at /\ u.call = tools[r].call /\ u.late = n
          /\ u.result = tools[r].result
      <3>1. n \in Nat  BY <1>1
      <3>. HIDE DEF n
      <3>. QED  BY <1>1, <3>1 DEF Tool, ToolAt
    <2>2. tools' = [tools EXCEPT ![r].at = at, ![r].late = @ + x] => tools' = [tools EXCEPT ![r] = u]
      OBVIOUS
    <2>. HIDE DEF u
    <2>. QED  BY <1>2, <2>1, <2>2
  <1>. QED  BY <1>3, <1>4, <1>5, <1>6 DEF Fails

\* The phases of a tool.
LEMMA ToolAtAll ==
    {"none", "check", "draft", "recheck", "send", "call", "confirm", "done"} = ToolAt
BY DEF ToolAt

\* A turn whose tool has found the lease gone is aborted.
Aborted(r) ==
    /\ DOMAIN turns' = DOMAIN turns
    /\ \A q \in DOMAIN turns : turns'[q] \in Turn /\ Kept(turns'[q], turns[q])

\* What CheckActive changes, field by field.
LEMMA CheckActiveDoes ==
    ASSUME TypeOK, NEW r \in Run, CheckActive(r)
    PROVE  /\ conv' = Renewed(r) /\ Aborted(r)
           /\ \/ Owns(r) /\ tools[r].at = "check" /\ Works(r, "draft", tools[r].late, tools[r].result)
              \/ Owns(r) /\ tools[r].at = "recheck" /\ Works(r, "send", tools[r].late, tools[r].result)
              \/ /\ ~Owns(r) /\ tools[r].at \in {"check", "recheck"}
                 /\ Works(r, "done", tools[r].late, "failed")
           /\ UNCHANGED <<signedIn, history, mail, chat, spent>>
  <1>1. Aborted(r)
    <2>1. CASE Owns(r)  BY <2>1 DEF CheckActive, Aborted, Kept, TypeOK
    <2>2. CASE ~Owns(r)
      <3>1. turns' = [q \in DOMAIN turns |->
                  IF q = r THEN [turns[q] EXCEPT !.aborted = TRUE] ELSE turns[q]]
        BY <2>2 DEF CheckActive
      <3>2. ASSUME NEW q \in DOMAIN turns
            PROVE  /\ [turns[q] EXCEPT !.aborted = TRUE] \in Turn
                   /\ Kept([turns[q] EXCEPT !.aborted = TRUE], turns[q])
                   /\ turns[q] \in Turn /\ Kept(turns[q], turns[q])
        BY TurnTyped DEF TypeOK, Kept
      <3>. QED  BY <3>1, <3>2 DEF Aborted
    <2>. QED  BY <2>1, <2>2
  <1>. QED  BY <1>1, WorksSo, ToolAtAll DEF CheckActive

\* CheckActive keeps every state well formed.
LEMMA CheckActiveTyped ==
    ASSUME TypeOK, NEW r \in Run, CheckActive(r)
    PROVE  TypeOK'
  <1>1. tools' \in [Run -> Tool]  BY CheckActiveDoes, WorksTyped
  <1>2. conv' \in [exists : BOOLEAN, owner : 0 .. MaxRequests, lapsed : BOOLEAN, claims : Nat]
    BY CheckActiveDoes, ConvTyped DEF Renewed
  <1>3. DOMAIN turns' \subseteq Run /\ \A q \in DOMAIN turns' : turns'[q] \in Turn
    BY CheckActiveDoes DEF Aborted, TypeOK
  <1>4. UNCHANGED <<signedIn, history, mail, chat, spent>>  BY CheckActiveDoes
  <1>. QED  BY <1>1, <1>2, <1>3, <1>4 DEF TypeOK, mail, chat

\* What WriteDraft changes, field by field.
LEMMA WriteDraftDoes ==
    ASSUME TypeOK, NEW r \in Run, WriteDraft(r)
    PROVE  /\ tools[r].at = "draft"
           /\ \/ Works(r, "done", tools[r].late, "failed")
              \/ /\ tools[r].call = <<"none", 0>>
                 /\ Works(r, "done", tools[r].late + Late(r), "saved")
              \/ /\ tools[r].call # <<"none", 0>>
                 /\ Works(r, "recheck", tools[r].late + Late(r), tools[r].result)
           /\ UNCHANGED <<signedIn, store, mail, turns, chat, spent>>
  <1>1. Late(r) \in Nat  BY DEF Late
  <1>. QED  BY <1>1, WorksSo, ToolAtAll DEF WriteDraft, Confirmed

\* WriteDraft keeps every state well formed.
LEMMA WriteDraftTyped ==
    ASSUME TypeOK, NEW r \in Run, WriteDraft(r)
    PROVE  TypeOK'
  <1>1. tools' \in [Run -> Tool]  BY WriteDraftDoes, WorksTyped
  <1>2. UNCHANGED <<signedIn, store, mail, turns, chat, spent>>
    BY WriteDraftDoes
  <1>. QED  BY <1>1, <1>2 DEF TypeOK, store, mail, chat

\* What SendDraft changes, field by field.
LEMMA SendDraftDoes ==
    ASSUME TypeOK, NEW r \in Run, SendDraft(r)
    PROVE  /\ tools[r].at = "send"
           /\ \/ /\ rows[tools[r].call] = "none"
                 /\ rows' = [rows EXCEPT ![tools[r].call] = "pending"]
                 /\ Works(r, "call", tools[r].late + Late(r), tools[r].result)
              \/ /\ rows[tools[r].call] = "pending" /\ Works(r, "done", tools[r].late, "failed")
                 /\ UNCHANGED rows
              \/ /\ \/ rows[tools[r].call] = "complete"
                    \/ rows[tools[r].call] = "pending" /\ emails[tools[r].call] > 0
                 /\ Works(r, "confirm", tools[r].late, tools[r].result) /\ UNCHANGED rows
           /\ UNCHANGED <<signedIn, store, emails, turns, chat, spent>>
  <1>1. Late(r) \in Nat  BY DEF Late
  <1>. QED  BY <1>1, WorksSo, ToolAtAll DEF SendDraft, WriteKey

\* SendDraft keeps every state well formed.
LEMMA SendDraftTyped ==
    ASSUME TypeOK, Equipped, NEW r \in Run, SendDraft(r)
    PROVE  TypeOK'
  <1>1. tools' \in [Run -> Tool]  BY SendDraftDoes, WorksTyped
  <1>2. rows' \in [Call -> {"none", "pending", "complete"}]
    BY SendDraftDoes DEF TypeOK
  <1>3. UNCHANGED <<signedIn, store, emails, turns, chat, spent>>
    BY SendDraftDoes
  <1>. QED  BY <1>1, <1>2, <1>3 DEF TypeOK, store, mail, chat

\* What CallGmail changes, field by field.
LEMMA CallGmailDoes ==
    ASSUME TypeOK, NEW r \in Run, CallGmail(r)
    PROVE  /\ tools[r].at = "call"
           /\ \/ /\ emails' = [emails EXCEPT ![tools[r].call] = @ + 1] /\ UNCHANGED rows
                 /\ \/ Works(r, "confirm", tools[r].late, tools[r].result)
                    \/ Works(r, "done", tools[r].late, "failed")
              \/ /\ rows' = [rows EXCEPT ![tools[r].call] = "none"] /\ UNCHANGED emails
                 /\ Works(r, "done", tools[r].late, "failed")
              \/ UNCHANGED mail /\ Works(r, "done", tools[r].late, "failed")
           /\ UNCHANGED <<signedIn, store, turns, chat, spent>>
BY WorksSo, ToolAtAll DEF CallGmail, WriteKey

\* CallGmail keeps every state well formed.
LEMMA CallGmailTyped ==
    ASSUME TypeOK, NEW r \in Run, CallGmail(r)
    PROVE  TypeOK'
  <1>1. tools' \in [Run -> Tool]  BY CallGmailDoes, WorksTyped
  <1>2. rows' \in [Call -> {"none", "pending", "complete"}]
    BY CallGmailDoes DEF TypeOK, mail
  <1>3. emails' \in [Call -> Nat]
    <2>1. emails \in [Call -> Nat]  BY DEF TypeOK
    <2>2. ASSUME NEW i, emails' = [emails EXCEPT ![i] = @ + 1]
          PROVE  emails' \in [Call -> Nat]
      <3>1. \A j \in Call : emails[j] \in Nat /\ emails[j] + 1 \in Nat  BY <2>1
      <3>. QED  BY <2>1, <2>2, <3>1
    <2>. QED  BY <2>1, <2>2, CallGmailDoes DEF mail
  <1>4. UNCHANGED <<signedIn, store, turns, chat, spent>>  BY CallGmailDoes
  <1>. QED  BY <1>1, <1>2, <1>3, <1>4 DEF TypeOK, store, mail, chat

\* What ConfirmSent changes, field by field.
LEMMA ConfirmSentDoes ==
    ASSUME TypeOK, NEW r \in Run, ConfirmSent(r)
    PROVE  /\ tools[r].at = "confirm" /\ rows' = [rows EXCEPT ![tools[r].call] = "complete"]
           /\ Works(r, "done", tools[r].late, "sent")
           /\ UNCHANGED <<signedIn, store, emails, turns, chat, spent>>
BY WorksSo DEF ConfirmSent, WriteKey

\* ConfirmSent keeps every state well formed.
LEMMA ConfirmSentTyped ==
    ASSUME TypeOK, NEW r \in Run, ConfirmSent(r)
    PROVE  TypeOK'
  <1>1. tools' \in [Run -> Tool]  BY ConfirmSentDoes, WorksTyped
  <1>2. rows' \in [Call -> {"none", "pending", "complete"}]
    BY ConfirmSentDoes DEF TypeOK
  <1>3. UNCHANGED <<signedIn, store, emails, turns, chat, spent>>
    BY ConfirmSentDoes
  <1>. QED  BY <1>1, <1>2, <1>3 DEF TypeOK, store, mail, chat

-----------------------------------------------------------------------------
(* Frames and turns are numbered once.                                     *)

\* Frames may be lost and turns end.
Lost == /\ requests' = requests /\ DOMAIN turns' \subseteq DOMAIN turns
        /\ \A c \in Tab : /\ up'[c] = up[c] \/ up'[c] = <<>>
                          /\ tab'[c].unsent = tab[c].unsent

\* Frames that are lost leave the others numbered once.
LEMMA LostNumbered ==
    ASSUME TypeOK, Numbered, Once, Lost
    PROVE  Numbered' /\ Once' /\ \A r : Queued(r)' => Queued(r)
  <1>1. \A c \in Tab : \A k \in DOMAIN up'[c] : k \in DOMAIN up[c] /\ up'[c][k] = up[c][k]
    BY DEF Lost
  <1>2. \A r : InUp(r)' => InUp(r)  BY <1>1 DEF InUp
  <1>3. \A r : Queued(r)' => Queued(r)  BY <1>2 DEF Queued, Lost
  <1>4. Numbered'  BY <1>1, <1>3 DEF Numbered, Lost
  <1>5. Once'  BY <1>1, <1>2 DEF Once, Lost
  <1>. QED  BY <1>3, <1>4, <1>5

\* A new request.
LEMMA RequestIs ==
    ASSUME TypeOK, NEW c \in Tab, NEW frame \in Frame, NEW last, Request(c, frame, last)
    PROVE  /\ requests + 1 \in 0 .. MaxRequests /\ requests' = requests + 1 /\ UNCHANGED turns
           /\ \A d \in Tab : d # c => tab'[d] = tab[d] /\ up'[d] = up[d]
           /\ tab'[c].last = last
           /\ \/ up'[c] = up[c] /\ tab'[c].unsent = [frame EXCEPT !.run = requests + 1]
              \/ up'[c] = Append(up[c], [frame EXCEPT !.run = requests + 1]) /\ tab'[c].unsent = NoFrame
  <1> DEFINE n == requests + 1
             f == [frame EXCEPT !.run = n]
  <1>1. n \in 0 .. MaxRequests  BY NextRequest
  <1>2. /\ requests' = n /\ UNCHANGED turns
        /\ tab' = [tab EXCEPT ![c] = [tab[c] EXCEPT
             !.status = "submitted", !.last = last, !.run = requests + 1,
             !.unsent = IF tab[c].open THEN NoFrame ELSE f]]
        /\ up' = IF tab[c].open THEN [up EXCEPT ![c] = Append(@, f)] ELSE up
    BY DEF Request
  <1>3. tab[c] \in TabState /\ tab \in [Tab -> TabState] /\ up \in [Tab -> Seq(Frame)]
    BY DEF TypeOK
  <1>. HIDE DEF f, n
  <1>4. /\ tab'[c].last = last /\ tab'[c].unsent = (IF tab[c].open THEN NoFrame ELSE f)
        /\ \A d \in Tab : d # c => tab'[d] = tab[d]
    BY <1>2, <1>3 DEF TabState
  <1>5. /\ up'[c] = (IF tab[c].open THEN Append(up[c], f) ELSE up[c])
        /\ \A d \in Tab : d # c => up'[d] = up[d]
    BY <1>2, <1>3
  <1>. QED  BY <1>1, <1>2, <1>4, <1>5 DEF f, n

\* Request gives no two frames the same turn.
LEMMA RequestNumbered ==
    ASSUME TypeOK, Numbered, Once, NEW c \in Tab, NEW frame \in Frame, NEW last,
           frame.type \in {"message", "approval"}, Request(c, frame, last)
    PROVE  Numbered' /\ Once' /\ \A r \in Run : Queued(r)' => Queued(r) \/ r = requests + 1
  <1> DEFINE n == requests + 1
             f == [frame EXCEPT !.run = n]
  <1>1. n \in 0 .. MaxRequests /\ requests \in Nat /\ n # 0 /\ ~(n <= requests)
    BY NextRequest
  <1>2. f \in Frame /\ f.run = n /\ f.type = frame.type  BY <1>1, FrameTyped
  <1>3. requests' = n /\ UNCHANGED turns  BY RequestIs
  <1>4. tab[c] \in TabState /\ tab \in [Tab -> TabState] /\ up \in [Tab -> Seq(Frame)] /\ up[c] \in Seq(Frame)
    BY DEF TypeOK
  <1>5. \A d \in Tab : d # c => tab'[d] = tab[d] /\ up'[d] = up[d]  BY RequestIs
  <1>6. \/ up'[c] = up[c] /\ tab'[c].unsent = f
        \/ up'[c] = Append(up[c], f) /\ tab'[c].unsent = NoFrame
    BY RequestIs
  <1>. HIDE DEF f
  <1>7. \A d \in Tab : \A k \in DOMAIN up'[d] :
           \/ k \in DOMAIN up[d] /\ up'[d][k] = up[d][k]
           \/ d = c /\ k = Len(up[c]) + 1 /\ up'[d][k] = f /\ tab'[c].unsent = NoFrame
    <2>1. \A k \in DOMAIN Append(up[c], f) :
             \/ k \in DOMAIN up[c] /\ Append(up[c], f)[k] = up[c][k]
             \/ k = Len(up[c]) + 1 /\ Append(up[c], f)[k] = f
      BY <1>2, <1>4
    <2>. QED  BY <1>5, <1>6, <2>1
  <1>8. \A d \in Tab : tab'[d].unsent = tab[d].unsent \/ (d = c /\ tab'[d].unsent \in {f, NoFrame})
    BY <1>5, <1>6
  <1>9. ~Queued(n) /\ n \notin DOMAIN turns  BY <1>1 DEF Numbered, Queued, InUp
  <1>10. \A r : InUp(r)' => InUp(r) \/ r = n  BY <1>2, <1>7 DEF InUp
  <1>11. \A r : Queued(r)' => Queued(r) \/ r = n \/ r = 0
    BY <1>2, <1>8, <1>10, ConstantsTyped DEF Queued
  <1>12. Numbered'
    <2>1. ASSUME NEW d \in Tab, NEW k \in DOMAIN up'[d]
          PROVE  up'[d][k].run <= requests' /\ (up'[d][k].type = "stop" <=> up'[d][k].run = 0)
      <3>1. CASE k \in DOMAIN up[d] /\ up'[d][k] = up[d][k]
        <4>1. up[d][k] \in Frame  BY <1>4, <3>1
        <4>2. up[d][k].run \in Nat  BY <4>1, FrameTyped, BoundsTyped
        <4>. QED  BY <1>1, <1>3, <3>1, <4>2 DEF Numbered
      <3>2. CASE up'[d][k] = f  BY <1>1, <1>2, <1>3, <3>2
      <3>. QED  BY <3>1, <3>2, <1>7
    <2>2. ASSUME NEW d \in Tab
          PROVE  /\ tab'[d].unsent # NoFrame => tab'[d].unsent.run # 0 /\ tab'[d].unsent.type # "stop"
                 /\ tab'[d].unsent.run <= requests'
      <3>1. CASE tab'[d].unsent = tab[d].unsent
        <4>1. tab[d].unsent \in Frame  BY <1>4, TabTyped
        <4>2. tab[d].unsent.run \in Nat  BY <4>1, FrameTyped, BoundsTyped
        <4>. QED  BY <1>1, <1>3, <3>1, <4>2 DEF Numbered
      <3>2. CASE tab'[d].unsent = f  BY <1>1, <1>2, <1>3, <3>2
      <3>3. CASE tab'[d].unsent = NoFrame  BY <1>1, <1>3, <3>3, ConstantsTyped
      <3>. QED  BY <3>1, <3>2, <3>3, <1>8
    <2>3. ASSUME NEW r \in DOMAIN turns PROVE r <= requests' /\ ~Queued(r)'
      <3>1. r \in Run /\ r # n /\ r # 0 /\ r <= requests /\ ~Queued(r)
        BY <1>9, BoundsTyped DEF Numbered, TypeOK
      <3>2. r \in Nat  BY <3>1, BoundsTyped
      <3>. QED  BY <1>1, <1>3, <1>11, <3>1, <3>2
    <2>. QED  BY <1>3, <2>1, <2>2, <2>3 DEF Numbered
  <1>13. Once'
    <2>1. ASSUME NEW d \in Tab, NEW e \in Tab, NEW k \in DOMAIN up'[d], NEW l \in DOMAIN up'[e],
                 up'[d][k].run = up'[e][l].run, up'[d][k].run # 0
          PROVE  d = e /\ k = l
      <3>1. CASE /\ k \in DOMAIN up[d] /\ up'[d][k] = up[d][k]
                 /\ l \in DOMAIN up[e] /\ up'[e][l] = up[e][l]
        BY <2>1, <3>1 DEF Once
      <3>2. CASE d = c /\ k = Len(up[c]) + 1 /\ e = c /\ l = Len(up[c]) + 1
        BY <3>2
      <3>3. CASE k \in DOMAIN up[d] /\ up'[d][k] = up[d][k] /\ up'[e][l] = f
        BY <1>2, <1>9, <2>1, <3>3 DEF Queued, InUp
      <3>4. CASE l \in DOMAIN up[e] /\ up'[e][l] = up[e][l] /\ up'[d][k] = f
        BY <1>2, <1>9, <2>1, <3>4 DEF Queued, InUp
      <3>. QED  BY <1>7, <3>1, <3>2, <3>3, <3>4
    <2>2. ASSUME NEW d \in Tab, NEW e \in Tab, NEW k \in DOMAIN up'[e],
                 tab'[d].unsent.run # 0, up'[e][k].run = tab'[d].unsent.run
          PROVE  FALSE
      <3>1. CASE k \in DOMAIN up[e] /\ up'[e][k] = up[e][k] /\ tab'[d].unsent = tab[d].unsent
        BY <2>2, <3>1 DEF Once, InUp
      <3>2. CASE k \in DOMAIN up[e] /\ up'[e][k] = up[e][k] /\ tab'[d].unsent = f
        BY <1>2, <1>9, <2>2, <3>2 DEF Queued, InUp
      <3>3. CASE up'[e][k] = f /\ tab'[c].unsent = NoFrame
        <4>1. d # c  BY <2>2, <3>3, ConstantsTyped
        <4>2. tab[d].unsent.run = n  BY <1>2, <1>5, <2>2, <3>3, <4>1
        <4>. QED  BY <1>9, <4>2 DEF Queued
      <3>4. tab'[d].unsent # NoFrame  BY <2>2, ConstantsTyped
      <3>. QED  BY <1>7, <1>8, <3>1, <3>2, <3>3, <3>4
    <2>3. ASSUME NEW d \in Tab, NEW e \in Tab, tab'[d].unsent.run = tab'[e].unsent.run, tab'[d].unsent.run # 0
          PROVE  d = e
      <3>1. tab'[d].unsent # NoFrame /\ tab'[e].unsent # NoFrame
        BY <2>3, ConstantsTyped
      <3>2. CASE tab'[d].unsent = tab[d].unsent /\ tab'[e].unsent = tab[e].unsent
        BY <2>3, <3>2 DEF Once
      <3>3. CASE tab'[d].unsent = tab[d].unsent /\ tab'[e].unsent = f
        BY <1>2, <1>9, <2>3, <3>3 DEF Queued
      <3>4. CASE tab'[d].unsent = f /\ tab'[e].unsent = tab[e].unsent
        BY <1>2, <1>9, <2>3, <3>4 DEF Queued
      <3>. QED  BY <1>8, <3>1, <3>2, <3>3, <3>4
    <2>. QED  BY <2>1, <2>2, <2>3 DEF Once, InUp
  <1>14. \A r \in Run : Queued(r)' => Queued(r) \/ r = n  BY <1>11, BoundsTyped
  <1>. QED  BY <1>12, <1>13, <1>14

\* A tab sends the frame that waited for its socket, or asks to stop.
LEMMA SentNumbered ==
    ASSUME TypeOK, Numbered, Once, NEW c \in Tab, NEW f \in Frame,
           (f = tab[c].unsent /\ f # NoFrame) \/ (f.type = "stop" /\ f.run = 0),
           requests' = requests, UNCHANGED turns,
           \A d \in Tab : d # c => tab'[d].unsent = tab[d].unsent /\ up'[d] = up[d],
           tab'[c].unsent = NoFrame, up'[c] = up[c] \/ up'[c] = Append(up[c], f)
    PROVE  Numbered' /\ Once' /\ \A r \in Run : Queued(r)' => Queued(r)
  <1>1. up \in [Tab -> Seq(Frame)] /\ up[c] \in Seq(Frame) /\ requests \in Nat
    BY BoundsTyped DEF TypeOK
  <1>2. \A d \in Tab : \A k \in DOMAIN up'[d] :
           \/ k \in DOMAIN up[d] /\ up'[d][k] = up[d][k]
           \/ d = c /\ k = Len(up[c]) + 1 /\ up'[d][k] = f
    <2>1. \A k \in DOMAIN Append(up[c], f) :
             \/ k \in DOMAIN up[c] /\ Append(up[c], f)[k] = up[c][k]
             \/ k = Len(up[c]) + 1 /\ Append(up[c], f)[k] = f
      BY <1>1
    <2>. QED  BY <2>1
  <1>3. \A d \in Tab : tab'[d].unsent = tab[d].unsent \/ tab'[d].unsent = NoFrame
    OBVIOUS
  <1>4. f.run # 0 => f = tab[c].unsent  OBVIOUS
  <1>5. \A r \in Run : Queued(r)' => Queued(r)
    <2>1. \A r \in Run : InUp(r)' => Queued(r)
      BY <1>2, <1>4, BoundsTyped DEF InUp, Queued
    <2>2. \A r \in Run : \A d \in Tab : tab'[d].unsent.run = r => Queued(r)
      BY <1>3, BoundsTyped, ConstantsTyped DEF Queued
    <2>. QED  BY <2>1, <2>2 DEF Queued
  <1>6. Numbered'
    <2>1. ASSUME NEW d \in Tab, NEW k \in DOMAIN up'[d]
          PROVE  up'[d][k].run <= requests' /\ (up'[d][k].type = "stop" <=> up'[d][k].run = 0)
      <3>1. CASE k \in DOMAIN up[d] /\ up'[d][k] = up[d][k]
        BY <3>1 DEF Numbered
      <3>2. CASE up'[d][k] = f
        <4>1. CASE f = tab[c].unsent /\ f # NoFrame  BY <3>2, <4>1 DEF Numbered
        <4>2. CASE f.type = "stop" /\ f.run = 0  BY <1>1, <3>2, <4>2
        <4>. QED  BY <4>1, <4>2
      <3>. QED  BY <3>1, <3>2, <1>2
    <2>2. ASSUME NEW d \in Tab
          PROVE  /\ tab'[d].unsent # NoFrame => tab'[d].unsent.run # 0 /\ tab'[d].unsent.type # "stop"
                 /\ tab'[d].unsent.run <= requests'
      BY <1>1, <1>3, ConstantsTyped DEF Numbered
    <2>3. ASSUME NEW r \in DOMAIN turns PROVE r <= requests' /\ ~Queued(r)'
      BY <1>5 DEF Numbered, TypeOK
    <2>. QED  BY <2>1, <2>2, <2>3 DEF Numbered
  <1>7. Once'
    <2>1. ASSUME NEW d \in Tab, NEW e \in Tab, NEW k \in DOMAIN up'[d], NEW l \in DOMAIN up'[e],
                 up'[d][k].run = up'[e][l].run, up'[d][k].run # 0
          PROVE  d = e /\ k = l
      <3>1. CASE /\ k \in DOMAIN up[d] /\ up'[d][k] = up[d][k]
                 /\ l \in DOMAIN up[e] /\ up'[e][l] = up[e][l]
        BY <2>1, <3>1 DEF Once
      <3>2. CASE d = c /\ k = Len(up[c]) + 1 /\ e = c /\ l = Len(up[c]) + 1
        BY <3>2
      <3>3. CASE k \in DOMAIN up[d] /\ up'[d][k] = up[d][k] /\ up'[e][l] = f
        BY <1>4, <2>1, <3>3 DEF Once, InUp
      <3>4. CASE l \in DOMAIN up[e] /\ up'[e][l] = up[e][l] /\ up'[d][k] = f
        BY <1>4, <2>1, <3>4 DEF Once, InUp
      <3>. QED  BY <1>2, <3>1, <3>2, <3>3, <3>4
    <2>2. ASSUME NEW d \in Tab, NEW e \in Tab, NEW k \in DOMAIN up'[e],
                 tab'[d].unsent.run # 0, up'[e][k].run = tab'[d].unsent.run
          PROVE  FALSE
      <3>1. d # c /\ tab'[d].unsent = tab[d].unsent  BY <2>2, ConstantsTyped
      <3>2. CASE k \in DOMAIN up[e] /\ up'[e][k] = up[e][k]
        BY <2>2, <3>1, <3>2 DEF Once, InUp
      <3>3. CASE up'[e][k] = f  BY <1>4, <2>2, <3>1, <3>3 DEF Once
      <3>. QED  BY <1>2, <3>2, <3>3
    <2>3. ASSUME NEW d \in Tab, NEW e \in Tab, tab'[d].unsent.run = tab'[e].unsent.run, tab'[d].unsent.run # 0
          PROVE  d = e
      <3>1. tab'[d].unsent = tab[d].unsent /\ tab'[e].unsent = tab[e].unsent
        BY <1>3, <2>3, ConstantsTyped
      <3>. QED  BY <2>3, <3>1 DEF Once
    <2>. QED  BY <2>1, <2>2, <2>3 DEF Once, InUp
  <1>. QED  BY <1>5, <1>6, <1>7

\* What an opened connection sends.
LEMMA ConnectIs ==
    ASSUME TypeOK, NEW c \in Tab, Connect(c)
    PROVE  /\ \A d \in Tab : d # c => tab'[d] = tab[d] /\ up'[d] = up[d]
           /\ tab[c].unsent # NoFrame /\ tab[c].unsent \in Frame
           /\ tab'[c].unsent = NoFrame /\ tab'[c].last = tab[c].last
           /\ up'[c] = up[c] \/ up'[c] = Append(up[c], tab[c].unsent)
  <1>1. /\ tab \in [Tab -> TabState] /\ up \in [Tab -> Seq(Frame)] /\ tab[c] \in TabState /\ tab[c].unsent \in Frame
    BY TabTyped DEF TypeOK
  <1>2. /\ tab' = [tab EXCEPT ![c].open = TicketRedeemed, ![c].unsent = NoFrame,
                              ![c].status = IF TicketRedeemed THEN tab[c].status ELSE "error"]
        /\ up' = IF TicketRedeemed THEN [up EXCEPT ![c] = Append(@, tab[c].unsent)] ELSE up
        /\ tab[c].unsent # NoFrame
    BY DEF Connect
  <1> DEFINE status == IF TicketRedeemed THEN tab[c].status ELSE "error"
  <1>3. tab' = [tab EXCEPT ![c].open = TicketRedeemed, ![c].unsent = NoFrame, ![c].status = status]
    BY <1>2
  <1>. HIDE DEF status
  <1>4. /\ tab'[c].unsent = NoFrame /\ tab'[c].last = tab[c].last
        /\ \A d \in Tab : d # c => tab'[d] = tab[d]
    BY <1>1, <1>3 DEF TabState
  <1>. QED  BY <1>1, <1>2, <1>4

\* What a stop sends.
LEMMA StopIs ==
    ASSUME TypeOK, NEW c \in Tab, Stop(c)
    PROVE  /\ \A d \in Tab : d # c => tab'[d] = tab[d] /\ up'[d] = up[d]
           /\ tab'[c].unsent = NoFrame /\ tab'[c].last = tab[c].last
           /\ [NoFrame EXCEPT !.type = "stop"] \in Frame /\ [NoFrame EXCEPT !.type = "stop"].type = "stop"
           /\ [NoFrame EXCEPT !.type = "stop"].run = 0
           /\ up'[c] = up[c] \/ up'[c] = Append(up[c], [NoFrame EXCEPT !.type = "stop"])
  <1>1. /\ tab \in [Tab -> TabState] /\ up \in [Tab -> Seq(Frame)] /\ tab[c] \in TabState
    BY DEF TypeOK
  <1>2. /\ tab' = [tab EXCEPT ![c].status = "ready", ![c].unsent = NoFrame]
        /\ up' = up \/ up' = [up EXCEPT ![c] = Append(@, [NoFrame EXCEPT !.type = "stop"])]
    BY DEF Stop
  <1>3. /\ [NoFrame EXCEPT !.type = "stop"] \in Frame /\ [NoFrame EXCEPT !.type = "stop"].type = "stop"
        /\ [NoFrame EXCEPT !.type = "stop"].run = 0
    BY ConstantsTyped DEF NoFrame, Frame
  <1>4. /\ tab'[c].unsent = NoFrame /\ tab'[c].last = tab[c].last
        /\ \A d \in Tab : d # c => tab'[d] = tab[d]
    BY <1>1, <1>2 DEF TabState
  <1> DEFINE f == [NoFrame EXCEPT !.type = "stop"]
  <1>. HIDE DEF f
  <1>5. /\ \A d \in Tab : d # c => up'[d] = up[d]
        /\ up'[c] = up[c] \/ up'[c] = Append(up[c], f)
    BY <1>1, <1>2 DEF f
  <1>. QED  BY <1>3, <1>4, <1>5 DEF f

\* Connect gives no two frames the same turn.
LEMMA ConnectNumbered ==
    ASSUME TypeOK, Numbered, Once, NEW c \in Tab, Connect(c)
    PROVE  Numbered' /\ Once' /\ \A r \in Run : Queued(r)' => Queued(r)
  <1>1. requests' = requests /\ UNCHANGED turns  BY DEF Connect
  <1>2. PICK f \in Frame : f = tab[c].unsent  BY ConnectIs
  <1>3. /\ f # NoFrame /\ tab'[c].unsent = NoFrame
        /\ up'[c] = up[c] \/ up'[c] = Append(up[c], f)
        /\ \A d \in Tab : d # c => tab'[d].unsent = tab[d].unsent /\ up'[d] = up[d]
    BY <1>2, ConnectIs
  <1>4. (f = tab[c].unsent /\ f # NoFrame) \/ (f.type = "stop" /\ f.run = 0)
    BY <1>2, <1>3
  <1>5. \A d \in Tab : d # c => tab'[d].unsent = tab[d].unsent /\ up'[d] = up[d]
    BY <1>3
  <1>6. tab'[c].unsent = NoFrame  BY <1>3
  <1>7. up'[c] = up[c] \/ up'[c] = Append(up[c], f)  BY <1>3
  <1>. QED  BY <1>1, <1>4, <1>5, <1>6, <1>7, SentNumbered

\* Stop gives no two frames the same turn.
LEMMA StopNumbered ==
    ASSUME TypeOK, Numbered, Once, NEW c \in Tab, Stop(c)
    PROVE  Numbered' /\ Once' /\ \A r \in Run : Queued(r)' => Queued(r)
  <1>1. requests' = requests /\ UNCHANGED turns  BY DEF Stop
  <1>. QED  BY <1>1, StopIs, SentNumbered

\* A frame that is received starts the turn it asks for.
LEMMA ReceiveIs ==
    ASSUME TypeOK, Numbered, NEW c \in Tab, Receive(c)
    PROVE  /\ up[c] \in Seq(Frame) /\ up[c] # <<>> /\ Head(up[c]) = up[c][1] /\ 1 \in DOMAIN up[c]
           /\ Head(up[c]) \in Frame /\ up'[c] = Tail(up[c])
           /\ \A d \in Tab : d # c => up'[d] = up[d]
           /\ \A d \in Tab : \A k \in DOMAIN up'[d] :
                 IF d = c THEN k + 1 \in DOMAIN up[d] /\ up'[d][k] = up[d][k + 1]
                 ELSE k \in DOMAIN up[d] /\ up'[d][k] = up[d][k]
           /\ \/ DOMAIN turns' = DOMAIN turns
              \/ /\ DOMAIN turns' = DOMAIN turns \union {Head(up[c]).run} /\ Head(up[c]).run \in Run
                 /\ Head(up[c]).run \notin DOMAIN turns
                 /\ turns'[Head(up[c]).run].at = "identity"
                 /\ turns'[Head(up[c]).run].frame = Head(up[c])
                 /\ turns'[Head(up[c]).run].response = NoMessage
           /\ \A r \in DOMAIN turns : Kept(turns'[r], turns[r])
           /\ UNCHANGED <<signedIn, store, mail, tools, tab, requests, approved, spent>>
  <1> DEFINE frame == Head(up[c])
  <1>1. /\ up \in [Tab -> Seq(Frame)] /\ up[c] \in Seq(Frame) /\ up[c] # <<>>
    BY DEF TypeOK, Receive
  <1>2. /\ frame \in Frame /\ frame = up[c][1] /\ 1 \in DOMAIN up[c]
        /\ \A k \in DOMAIN Tail(up[c]) : k + 1 \in DOMAIN up[c] /\ Tail(up[c])[k] = up[c][k + 1]
    BY <1>1, QueueParts, ConstantsTyped
  <1>3. up'[c] = Tail(up[c]) /\ \A d \in Tab : d # c => up'[d] = up[d]
    BY <1>1 DEF Receive
  <1>4. \A d \in Tab : \A k \in DOMAIN up'[d] :
           IF d = c THEN k + 1 \in DOMAIN up[d] /\ up'[d][k] = up[d][k + 1]
           ELSE k \in DOMAIN up[d] /\ up'[d][k] = up[d][k]
    BY <1>2, <1>3
  <1>5. \A r \in DOMAIN turns : turns[r] \in Turn /\ Kept([turns[r] EXCEPT !.aborted = TRUE], turns[r])
                                /\ Kept(turns[r], turns[r])
    BY TurnTyped DEF TypeOK, Kept
  <1>6. UNCHANGED <<signedIn, store, mail, tools, tab, requests, approved, spent>>
    BY DEF Receive
  <1>7. frame.type # "stop" => frame.run \in Run /\ frame.run \notin DOMAIN turns
    <2>1. InUp(frame.run)  BY <1>2 DEF InUp
    <2>2. frame.type # "stop" => frame.run \in 1 .. MaxRequests
      BY <1>2, FrameTyped, BoundsTyped DEF Numbered
    <2>. QED  BY <2>1, <2>2 DEF Numbered, Queued, Run
  <1>8. CASE turns' = [r \in DOMAIN turns |->
                   IF r = serving[c] THEN [turns[r] EXCEPT !.aborted = TRUE] ELSE turns[r]]
    <2>1. DOMAIN turns' = DOMAIN turns /\ \A r \in DOMAIN turns : Kept(turns'[r], turns[r])
      BY <1>5, <1>8
    <2>. QED  BY <1>1, <1>2, <1>3, <1>4, <1>6, <2>1
  <1>9. CASE UNCHANGED turns  BY <1>1, <1>2, <1>3, <1>4, <1>5, <1>6, <1>9
  <1>10. CASE /\ frame.type # "stop"
              /\ turns' = [r \in DOMAIN turns \union {frame.run} |->
                   IF r = frame.run
                   THEN [at |-> "identity", tab |-> c, attached |-> TRUE, frame |-> frame,
                         view |-> <<>>, response |-> NoMessage,
                         aborted |-> FALSE, failed |-> FALSE,
                         streamed |-> FALSE, finished |-> FALSE, lapsed |-> FALSE,
                         claim |-> 0]
                   ELSE turns[r]]
    <2>1. /\ DOMAIN turns' = DOMAIN turns \union {frame.run}
          /\ \A r \in DOMAIN turns : Kept(turns'[r], turns[r])
      BY <1>5, <1>7, <1>10
    <2>2. /\ turns'[frame.run].at = "identity" /\ turns'[frame.run].frame = frame
          /\ turns'[frame.run].response = NoMessage
      BY <1>10
    <2>. QED  BY <1>1, <1>2, <1>3, <1>4, <1>6, <1>7, <1>10, <2>1, <2>2
  <1>. QED  BY <1>8, <1>9, <1>10 DEF Receive

\* Receive gives no two frames the same turn.
LEMMA ReceiveNumbered ==
    ASSUME TypeOK, Numbered, Once, NEW c \in Tab, Receive(c)
    PROVE  /\ Numbered' /\ Once' /\ \A r \in Run : Queued(r)' => Queued(r)
           /\ \A r \in DOMAIN turns' \ DOMAIN turns : Queued(r)
  <1>1. PICK n : n = Head(up[c]).run  OBVIOUS
  <1>2. 1 \in DOMAIN up[c] /\ up[c][1].run = n  BY <1>1, ReceiveIs
  <1>3. \A d \in Tab : \A k \in DOMAIN up'[d] :
           IF d = c THEN k + 1 \in DOMAIN up[d] /\ up'[d][k] = up[d][k + 1]
           ELSE k \in DOMAIN up[d] /\ up'[d][k] = up[d][k]
    BY ReceiveIs
  <1>4. DOMAIN turns' = DOMAIN turns \/ (DOMAIN turns' = DOMAIN turns \union {n} /\ n \in Run)
    BY <1>1, ReceiveIs
  <1>5. tab' = tab /\ requests' = requests  BY ReceiveIs
  <1>6. \A d \in Tab : \A k \in DOMAIN up'[d] : k \in Nat /\ k # 0
    <2>1. up' \in [Tab -> Seq(Frame)]  BY ReceiveTyped DEF TypeOK
    <2>2. ASSUME NEW d \in Tab, NEW k \in DOMAIN up'[d] PROVE k \in Nat /\ k # 0
      <3>1. up'[d] \in Seq(Frame)  BY <2>1
      <3>. QED  BY <3>1
    <2>. QED  BY <2>2
  <1>7. ASSUME NEW d \in Tab, NEW k \in DOMAIN up'[d]
        PROVE  \E l \in DOMAIN up[d] : up'[d][k] = up[d][l] /\ (IF d = c THEN l = k + 1 ELSE l = k)
    <2>1. CASE d = c  BY <1>3, <2>1
    <2>2. CASE d # c  BY <1>3, <2>2
    <2>. QED  BY <2>1, <2>2
  <1>8. \A r : InUp(r)' => InUp(r)
    <2>1. ASSUME NEW r, NEW d \in Tab, NEW k \in DOMAIN up'[d], up'[d][k].run = r
          PROVE  InUp(r)
      <3>1. PICK l \in DOMAIN up[d] : up'[d][k] = up[d][l]  BY <1>7
      <3>. QED  BY <2>1, <3>1 DEF InUp
    <2>. QED  BY <2>1 DEF InUp
  <1>9. \A r : Queued(r)' => Queued(r)  BY <1>5, <1>8 DEF Queued
  <1>10. InUp(n)  BY <1>2 DEF InUp
  <1>11. Once'
    <2>1. ASSUME NEW d \in Tab, NEW e \in Tab, NEW k \in DOMAIN up'[d], NEW l \in DOMAIN up'[e],
                 up'[d][k].run = up'[e][l].run, up'[d][k].run # 0
          PROVE  d = e /\ k = l
      <3>1. PICK i \in DOMAIN up[d] : up'[d][k] = up[d][i] /\ (IF d = c THEN i = k + 1 ELSE i = k)
        BY <1>7
      <3>2. PICK j \in DOMAIN up[e] : up'[e][l] = up[e][j] /\ (IF e = c THEN j = l + 1 ELSE j = l)
        BY <1>7
      <3>3. d = e /\ i = j  BY <2>1, <3>1, <3>2 DEF Once
      <3>4. k \in Nat /\ l \in Nat  BY <1>6
      <3>. QED  BY <3>1, <3>2, <3>3, <3>4
    <2>2. ASSUME NEW d \in Tab, tab'[d].unsent.run # 0, NEW e \in Tab, NEW k \in DOMAIN up'[e],
                 up'[e][k].run = tab'[d].unsent.run
          PROVE  FALSE
      <3>1. PICK l \in DOMAIN up[e] : up'[e][k] = up[e][l]  BY <1>7
      <3>. QED  BY <1>5, <2>2, <3>1 DEF Once, InUp
    <2>3. \A d, e \in Tab : tab'[d].unsent.run = tab'[e].unsent.run /\ tab'[d].unsent.run # 0 => d = e
      BY <1>5 DEF Once
    <2>. QED  BY <2>1, <2>2, <2>3 DEF Once, InUp
  <1>12. ASSUME n # 0 PROVE ~Queued(n)'
    <2>1. ASSUME NEW d \in Tab, NEW k \in DOMAIN up'[d], up'[d][k].run = n PROVE FALSE
      <3>1. PICK l \in DOMAIN up[d] : up'[d][k] = up[d][l] /\ (IF d = c THEN l = k + 1 ELSE l = k)
        BY <1>7
      <3>2. d = c /\ l = 1  BY <1>2, <1>12, <2>1, <3>1 DEF Once
      <3>3. k \in Nat /\ k # 0  BY <1>6
      <3>. QED  BY <3>1, <3>2, <3>3
    <2>2. ASSUME NEW d \in Tab, tab'[d].unsent.run = n PROVE FALSE
      BY <1>5, <1>10, <1>12, <2>2 DEF Once
    <2>. QED  BY <2>1, <2>2 DEF Queued, InUp
  <1>13. Numbered'
    <2>1. ASSUME NEW d \in Tab, NEW k \in DOMAIN up'[d]
          PROVE  up'[d][k].run <= requests' /\ (up'[d][k].type = "stop" <=> up'[d][k].run = 0)
      <3>1. PICK l \in DOMAIN up[d] : up'[d][k] = up[d][l]  BY <1>7
      <3>. QED  BY <1>5, <3>1 DEF Numbered
    <2>2. ASSUME NEW d \in Tab
          PROVE  /\ tab'[d].unsent # NoFrame => tab'[d].unsent.run # 0 /\ tab'[d].unsent.type # "stop"
                 /\ tab'[d].unsent.run <= requests'
      BY <1>5 DEF Numbered
    <2>3. ASSUME NEW r \in DOMAIN turns' PROVE r <= requests' /\ ~Queued(r)'
      <3>1. CASE r \in DOMAIN turns  BY <1>5, <1>9, <3>1 DEF Numbered
      <3>2. CASE r = n /\ n \in Run
        <4>1. n <= requests  BY <1>2 DEF Numbered
        <4>. QED  BY <1>5, <1>12, <3>2, <4>1, BoundsTyped
      <3>. QED  BY <1>4, <3>1, <3>2
    <2>. QED  BY <2>1, <2>2, <2>3 DEF Numbered
  <1>14. \A r \in DOMAIN turns' \ DOMAIN turns : Queued(r)
    BY <1>4, <1>10 DEF Queued
  <1>. QED  BY <1>9, <1>11, <1>13, <1>14

-----------------------------------------------------------------------------
(* Approvals that are shown and sent are the user's.                       *)

\* Honest keeps every state well formed.
LEMMA HonestTyped ==
    ASSUME NEW known
    PROVE  /\ Honest(NoMessage, known) /\ Proper(NoMessage, known) /\ Truthful(NoFrame, known)
           /\ \A m \in Message : Honest(m, known) => Honest([m EXCEPT !.by = 0], known)
  <1>1. Honest(NoMessage, known) /\ Proper(NoMessage, known) /\ Truthful(NoFrame, known)
    BY DEF Proper, Honest, Truthful, NoMessage, NoFrame
  <1>2. ASSUME NEW m \in Message, Honest(m, known) PROVE Honest([m EXCEPT !.by = 0], known)
    <2> DEFINE x == [m EXCEPT !.by = 0]
    <2>1. x.id = m.id /\ x.send = m.send  BY MessageTyped
    <2>. HIDE DEF x
    <2>. QED  BY <1>2, <2>1 DEF Honest
  <1>. QED  BY <1>1, <1>2

\* A step that forgets no approval, and after which every part of the chat is
\* what it was or honest.
HonestHistory ==
    \A n \in DOMAIN history' :
        (\E k \in DOMAIN history : history'[n] = history[k]) \/ Honest(history'[n], approved')
HonestTurns ==
    \A r \in DOMAIN turns' :
        /\ (r \in DOMAIN turns /\ turns'[r].response = turns[r].response) \/ Proper(turns'[r].response, approved')
        /\ (r \in DOMAIN turns /\ turns'[r].frame = turns[r].frame) \/ Truthful(turns'[r].frame, approved')
HonestTabs ==
    \A c \in Tab : /\ tab'[c].last = tab[c].last \/ Honest(tab'[c].last, approved')
                   /\ tab'[c].unsent = tab[c].unsent \/ Truthful(tab'[c].unsent, approved')
HonestUp ==
    \A c \in Tab : \A k \in DOMAIN up'[c] :
        (\E l \in DOMAIN up[c] : up'[c][k] = up[c][l]) \/ Truthful(up'[c][k], approved')
HonestDown ==
    \A c \in Tab : \A k \in DOMAIN down'[c] :
        (\E l \in DOMAIN down[c] : down'[c][k] = down[c][l]) \/ Honest(down'[c][k].last, approved')

\* A turn replaced by an honest one leaves the state honest.
LEMMA StepHonest ==
    ASSUME Honestly, approved \subseteq approved', HonestHistory, HonestTurns, HonestTabs, HonestUp, HonestDown
    PROVE  Honestly'
  <1>1. /\ \A m : Honest(m, approved) => Honest(m, approved')
        /\ \A m : Proper(m, approved) => Proper(m, approved')
        /\ \A f : Truthful(f, approved) => Truthful(f, approved')
    BY DEF Proper, Honest, Truthful
  <1>2. \A n \in DOMAIN history' : Honest(history'[n], approved')
    BY <1>1 DEF HonestHistory, Honestly
  <1>3. \A r \in DOMAIN turns' : Proper(turns'[r].response, approved') /\ Truthful(turns'[r].frame, approved')
    BY <1>1 DEF HonestTurns, Honestly
  <1>4. \A c \in Tab : Honest(tab'[c].last, approved') /\ Truthful(tab'[c].unsent, approved')
    BY <1>1 DEF HonestTabs, Honestly
  <1>5. \A c \in Tab : \A k \in DOMAIN up'[c] : Truthful(up'[c][k], approved')
    BY <1>1 DEF HonestUp, Honestly
  <1>6. \A c \in Tab : \A k \in DOMAIN down'[c] : Honest(down'[c][k].last, approved')
    BY <1>1 DEF HonestDown, Honestly
  <1>. QED  BY <1>2, <1>3, <1>4, <1>5, <1>6 DEF Honestly

\* The parts a step leaves alone.
LEMMA Left ==
    /\ history' = history => HonestHistory
    /\ turns' = turns => HonestTurns
    /\ tab' = tab => HonestTabs
    /\ up' = up => HonestUp
    /\ down' = down => HonestDown
BY DEF HonestHistory, HonestTurns, HonestTabs, HonestUp, HonestDown

\* A turn moves on with an honest response, or leaves.
LEMMA MovedHonest ==
    ASSUME TypeOK, NEW r \in DOMAIN turns, NEW at, NEW m, Moved(r, at, m),
           m = turns[r].response \/ Proper(m, approved')
    PROVE  HonestTurns
BY MovedTyped DEF HonestTurns

\* A state with fewer turns, frames and answers stays honest.
LEMMA FewerHonest ==
    ASSUME DOMAIN turns' \subseteq DOMAIN turns, \A q \in DOMAIN turns' : turns'[q] = turns[q]
    PROVE  HonestTurns
BY DEF HonestTurns

\* An answer that carries an honest message keeps the queues honest.
LEMMA TellHonest ==
    ASSUME TypeOK, NEW r \in DOMAIN turns, NEW m \in Message, Honest(m, approved'),
           NEW type \in {"chunk", "end", "failed", "rejected"}, Tell(r, type, m)
    PROVE  HonestDown
  <1>1. Honest([m EXCEPT !.by = 0], approved')  BY HonestTyped
  <1>2. \A c \in Tab : \A k \in DOMAIN down'[c] :
              \/ down'[c][k].last = [m EXCEPT !.by = 0]
              \/ \E l \in DOMAIN down[c] : down'[c][k] = down[c][l]
    BY TellTyped
  <1>. QED  BY <1>1, <1>2 DEF HonestDown

\* Saving an honest message keeps the history honest.
LEMMA SavedHonest ==
    ASSUME TypeOK, NEW m \in Message, Honest(m, approved'), history' = Saved(m)
    PROVE  HonestHistory
  <1> DEFINE s == Saved(m)
  <1>1. \A n \in DOMAIN s : s[n] = m \/ (n \in DOMAIN history /\ s[n] = history[n])
    BY SavedIs DEF TypeOK
  <1>. HIDE DEF s
  <1>2. history' = s  BY DEF s
  <1>. QED  BY <1>1, <1>2 DEF HonestHistory

\* Request shows no decision the user has not made.
LEMMA RequestHonest ==
    ASSUME TypeOK, Honestly, Numbered, Once, NEW c \in Tab, NEW frame \in Frame, NEW last,
           frame.type \in {"message", "approval"}, Request(c, frame, last),
           approved \subseteq approved', Truthful(frame, approved'),
           last = tab[c].last \/ Honest(last, approved')
    PROVE  /\ Honestly' /\ Numbered' /\ Once'
           /\ \A r \in Run : Queued(r)' => Queued(r) \/ r = requests + 1
  <1>0. Numbered' /\ Once' /\ \A r \in Run : Queued(r)' => Queued(r) \/ r = requests + 1
    BY RequestNumbered
  <1> DEFINE f == [frame EXCEPT !.run = requests + 1]
  <1>1. requests + 1 \in 0 .. MaxRequests  BY NextRequest
  <1>2. f \in Frame /\ f.type = frame.type /\ f.id = frame.id /\ f.approve = frame.approve
    BY <1>1, FrameTyped
  <1>. HIDE DEF f
  <1>3. Truthful(f, approved')  BY <1>2 DEF Truthful
  <1>4. /\ \A d \in Tab : d # c => tab'[d] = tab[d] /\ up'[d] = up[d]
        /\ tab'[c].last = last
        /\ \/ up'[c] = up[c] /\ tab'[c].unsent = f
           \/ up'[c] = Append(up[c], f) /\ tab'[c].unsent = NoFrame
    BY RequestIs DEF f
  <1>5. HonestTabs  BY <1>3, <1>4, HonestTyped DEF HonestTabs
  <1>6. up[c] \in Seq(Frame)  BY DEF TypeOK
  <1>7. HonestUp
    <2>1. \A k \in DOMAIN Append(up[c], f) :
             Append(up[c], f)[k] = f \/ \E l \in DOMAIN up[c] : Append(up[c], f)[k] = up[c][l]
      BY <1>2, <1>6, QueueParts
    <2>. QED  BY <1>3, <1>4, <2>1 DEF HonestUp
  <1>8. HonestHistory /\ HonestTurns /\ HonestDown  BY Left DEF Request, store
  <1>9. Honestly'  BY <1>5, <1>7, <1>8, StepHonest
  <1>. QED  BY <1>0, <1>9

\* Ask shows no decision the user has not made.
LEMMA AskHonest ==
    ASSUME TypeOK, Honestly, Numbered, Once, NEW c \in Tab, Ask(c)
    PROVE  Honestly' /\ Numbered' /\ Once' /\ \A r \in Run : Queued(r)' => Queued(r) \/ r = requests + 1
  <1>1. requests + 1 \in 0 .. MaxRequests  BY NextRequest DEF Ask
  <1> DEFINE id == <<"user", requests + 1>>
             m == [NoMessage EXCEPT !.id = id]
             f == MessageFrame(id)
  <1>2. id \in Id /\ id \notin Call  BY <1>1, ConstantsTyped
  <1>3. Request(c, f, m) /\ approved' = approved  BY DEF Ask
  <1>. HIDE DEF id
  <1>4. f \in Frame /\ f.id = id /\ f.type = "message"  BY <1>2, ApprovalFrameIs
  <1>5. m.send = "none"  BY ConstantsTyped DEF NoMessage
  <1>. HIDE DEF f, m
  <1>6. Truthful(f, approved') /\ Honest(m, approved')
    BY <1>2, <1>4, <1>5 DEF Truthful, Honest
  <1>. QED  BY <1>3, <1>4, <1>6, RequestHonest

\* Decide shows no decision the user has not made.
LEMMA DecideHonest ==
    ASSUME TypeOK, Honestly, Numbered, Once, NEW c \in Tab, NEW yes \in BOOLEAN, Decide(c, yes)
    PROVE  Honestly' /\ Numbered' /\ Once' /\ \A r \in Run : Queued(r)' => Queued(r) \/ r = requests + 1
  <1> DEFINE m == tab[c].last
             x == IF yes THEN "approved" ELSE "declined"
             l == [m EXCEPT !.send = x]
             f == ApprovalFrame(m.id, yes)
  <1>1. m \in Message /\ m.id \in Id /\ m.send = "requested"
    BY MessageTyped, TabTyped DEF TypeOK, Decide
  <1>2. m.id \in Call  BY <1>1 DEF Honestly, Honest
  <1>3. Request(c, f, l) /\ approved' = IF yes THEN approved \union {m.id} ELSE approved
    BY DEF Decide
  <1>. HIDE DEF m
  <1>4. f \in Frame /\ f.id = m.id /\ f.type = "approval" /\ f.approve = yes
    BY <1>1, ApprovalFrameIs
  <1>5. l \in Message /\ l.id = m.id /\ l.send = x
    <2>1. x \in SendState  BY DEF SendState
    <2>. HIDE DEF x
    <2>. QED  BY <1>1, <2>1, MessageTyped
  <1>. HIDE DEF f, l
  <1>6. Truthful(f, approved') /\ Honest(l, approved') /\ approved \subseteq approved'
    BY <1>2, <1>3, <1>4, <1>5 DEF Truthful, Honest
  <1>7. Request(c, f, l) /\ f.type \in {"message", "approval"}  BY <1>3, <1>4
  <1>. QED  BY <1>4, <1>6, <1>7, RequestHonest

\* Retry shows no decision the user has not made.
LEMMA RetryHonest ==
    ASSUME TypeOK, Honestly, Numbered, Once, NEW c \in Tab, Retry(c)
    PROVE  Honestly' /\ Numbered' /\ Once' /\ \A r \in Run : Queued(r)' => Queued(r) \/ r = requests + 1
  <1> DEFINE m == tab[c].last
  <1>1. m \in Message /\ m.id \in Id /\ Honest(m, approved) /\ approved' = approved
    BY MessageTyped, TabTyped DEF TypeOK, Honestly, Retry
  <1>2. \/ IsUser(m) /\ Request(c, MessageFrame(m.id), m)
        \/ m.send \in {"approved", "declined"} /\ Request(c, ApprovalFrame(m.id, m.send = "approved"), m)
    BY DEF Retry
  <1>3. CASE IsUser(m) /\ Request(c, MessageFrame(m.id), m)
    <2> DEFINE f == MessageFrame(m.id)
    <2>1. f \in Frame /\ f.id = m.id /\ f.type = "message"
      BY <1>1, ApprovalFrameIs
    <2>2. m.id \notin Call  BY <1>3 DEF IsUser, Call
    <2>3. Request(c, f, m)  BY <1>3
    <2>. HIDE DEF f, m
    <2>4. Truthful(f, approved')  BY <2>1, <2>2 DEF Truthful
    <2>. QED  BY <1>1, <2>1, <2>3, <2>4, RequestHonest
  <1>4. CASE m.send \in {"approved", "declined"} /\ Request(c, ApprovalFrame(m.id, m.send = "approved"), m)
    <2> DEFINE yes == m.send = "approved"
               f == ApprovalFrame(m.id, yes)
    <2>1. f \in Frame /\ f.id = m.id /\ f.type = "approval" /\ f.approve = yes
      BY <1>1, ApprovalFrameIs
    <2>3. Request(c, f, m)  BY <1>4
    <2>. HIDE DEF f, m
    <2>4. Truthful(f, approved')  BY <1>1, <2>1 DEF Truthful, Honest
    <2>. QED  BY <1>1, <2>1, <2>3, <2>4, RequestHonest
  <1>. QED  BY <1>2, <1>3, <1>4

\* Steps of the chat.
LEMMA ConnectHonest ==
    ASSUME TypeOK, Honestly, NEW c \in Tab, Connect(c)
    PROVE  Honestly'
  <1>1. UNCHANGED <<history, turns, down, approved>>  BY DEF Connect, store
  <1>2. PICK f \in Frame : f = tab[c].unsent  BY ConnectIs
  <1>3. /\ \A d \in Tab : d # c => tab'[d] = tab[d] /\ up'[d] = up[d]
        /\ tab'[c].unsent = NoFrame /\ tab'[c].last = tab[c].last
        /\ up'[c] = up[c] \/ up'[c] = Append(up[c], f)
    BY <1>2, ConnectIs
  <1>4. Truthful(f, approved') /\ Truthful(NoFrame, approved')
    BY <1>1, <1>2, HonestTyped DEF Honestly
  <1>5. HonestTabs  BY <1>3, <1>4 DEF HonestTabs
  <1>6. up[c] \in Seq(Frame)  BY DEF TypeOK
  <1>7. \A k \in DOMAIN Append(up[c], f) :
           Append(up[c], f)[k] = f \/ \E l \in DOMAIN up[c] : Append(up[c], f)[k] = up[c][l]
    BY <1>6, QueueParts
  <1>8. HonestUp  BY <1>3, <1>4, <1>7 DEF HonestUp
  <1>. QED  BY <1>1, <1>5, <1>8, Left, StepHonest

\* Stop shows no decision the user has not made.
LEMMA StopHonest ==
    ASSUME TypeOK, Honestly, NEW c \in Tab, Stop(c)
    PROVE  Honestly'
  <1>1. UNCHANGED <<history, turns, down, approved>>  BY DEF Stop, store
  <1>2. PICK f \in Frame : f = [NoFrame EXCEPT !.type = "stop"]  BY StopIs
  <1>3. /\ \A d \in Tab : d # c => tab'[d] = tab[d] /\ up'[d] = up[d]
        /\ tab'[c].unsent = NoFrame /\ tab'[c].last = tab[c].last /\ f.type = "stop"
        /\ up'[c] = up[c] \/ up'[c] = Append(up[c], f)
    BY <1>2, StopIs
  <1>4. Truthful(f, approved') /\ Truthful(NoFrame, approved')
    BY <1>3, HonestTyped DEF Truthful
  <1>5. HonestTabs  BY <1>3, <1>4 DEF HonestTabs
  <1>6. up[c] \in Seq(Frame)  BY DEF TypeOK
  <1>7. \A k \in DOMAIN Append(up[c], f) :
           Append(up[c], f)[k] = f \/ \E l \in DOMAIN up[c] : Append(up[c], f)[k] = up[c][l]
    BY <1>6, QueueParts
  <1>8. HonestUp  BY <1>3, <1>4, <1>7 DEF HonestUp
  <1>. QED  BY <1>1, <1>5, <1>8, Left, StepHonest

\* What a tab does with the next answer.
LEMMA DeliverIs ==
    ASSUME TypeOK, NEW c \in Tab, Deliver(c)
    PROVE  /\ UNCHANGED <<signedIn, store, mail, turns, tools, up, serving, requests, approved, spent>>
           /\ \A d \in Tab : tab'[d].unsent = tab[d].unsent
           /\ \A d \in Tab : tab'[d].last = tab[d].last
                             \/ \E l \in DOMAIN down[d] : tab'[d].last = down[d][l].last
           /\ \A d \in Tab : \A k \in DOMAIN down'[d] : \E l \in DOMAIN down[d] : down'[d][k] = down[d][l]
  <1> DEFINE answer == Head(down[c])
             status == IF answer.type = "chunk" THEN "streaming"
                       ELSE IF answer.type = "end" THEN "ready" ELSE "error"
             last == IF answer.type = "chunk" THEN answer.last ELSE tab[c].last
  <1>1. /\ tab \in [Tab -> TabState] /\ down \in [Tab -> Seq(Answer)] /\ down[c] \in Seq(Answer)
        /\ down[c] # <<>>
    BY DEF TypeOK, Deliver
  <1>2. /\ 1 \in DOMAIN down[c] /\ answer = down[c][1]
        /\ \A k \in DOMAIN Tail(down[c]) : k + 1 \in DOMAIN down[c] /\ Tail(down[c])[k] = down[c][k + 1]
    BY <1>1
  <1>3. tab' = tab \/ tab' = [tab EXCEPT ![c] = [tab[c] EXCEPT !.status = status, !.last = last]]
    BY DEF Deliver
  <1>4. last = tab[c].last \/ last = down[c][1].last  BY <1>2
  <1>5. down' = [down EXCEPT ![c] = Tail(down[c])]  BY DEF Deliver
  <1>6. UNCHANGED <<signedIn, store, mail, turns, tools, up, serving, requests, approved, spent>>
    BY DEF Deliver
  <1>. HIDE DEF answer, status, last
  <1>7. tab'[c].unsent = tab[c].unsent /\ (tab'[c].last = tab[c].last \/ tab'[c].last = last)
    BY <1>1, <1>3 DEF TabState
  <1>8. \A d \in Tab : d # c => tab'[d] = tab[d] /\ down'[d] = down[d]
    BY <1>1, <1>3, <1>5
  <1>9. \A d \in Tab : tab'[d].unsent = tab[d].unsent  BY <1>7, <1>8
  <1>10. \A d \in Tab : tab'[d].last = tab[d].last \/ \E l \in DOMAIN down[d] : tab'[d].last = down[d][l].last
    BY <1>2, <1>4, <1>7, <1>8
  <1>11. \A d \in Tab : \A k \in DOMAIN down'[d] : \E l \in DOMAIN down[d] : down'[d][k] = down[d][l]
    <2>1. down'[c] = Tail(down[c])  BY <1>1, <1>5
    <2>2. ASSUME NEW d \in Tab, d = c, NEW k \in DOMAIN down'[d]
            PROVE  \E l \in DOMAIN down[d] : down'[d][k] = down[d][l]
        BY <1>2, <2>1, <2>2
    <2>3. ASSUME NEW d \in Tab, d # c, NEW k \in DOMAIN down'[d]
            PROVE  \E l \in DOMAIN down[d] : down'[d][k] = down[d][l]
        BY <1>8, <2>3
    <2>. QED  BY <2>2, <2>3
  <1>. QED  BY <1>6, <1>9, <1>10, <1>11

\* Deliver shows no decision the user has not made.
LEMMA DeliverHonest ==
    ASSUME TypeOK, Honestly, NEW c \in Tab, Deliver(c)
    PROVE  Honestly'
  <1>1. UNCHANGED <<history, turns, up, approved>>  BY DeliverIs DEF store
  <1>2. HonestTabs  BY <1>1, DeliverIs DEF HonestTabs, Honestly
  <1>3. HonestDown  BY DeliverIs DEF HonestDown
  <1>. QED  BY <1>1, <1>2, <1>3, Left, StepHonest

\* Reload shows no decision the user has not made.
LEMMA ReloadHonest ==
    ASSUME TypeOK, Honestly, NEW c \in Tab, Reload(c)
    PROVE  Honestly' /\ \A d \in Tab : tab'[d].unsent = tab[d].unsent
  <1>1. UNCHANGED <<history, turns, up, down, approved>>  BY DEF Reload, store
  <1>2. Last(history) \in Message /\ \E k \in DOMAIN history : Last(history) = history[k]
    BY QueueParts, ConstantsTyped DEF TypeOK, Reload
  <1>3. Honest(Last(history), approved)  BY <1>2 DEF Honestly
  <1>4. Honest(Shown, approved')  BY <1>1, <1>2, <1>3, HonestTyped DEF Shown
  <1>5. tab' = [tab EXCEPT ![c].last = Shown, ![c].status = "ready"] /\ tab \in [Tab -> TabState]
    BY DEF Reload, TypeOK
  <1>6. /\ \A d \in Tab : d # c => tab'[d] = tab[d]
        /\ tab'[c].last = Shown /\ tab'[c].unsent = tab[c].unsent
    BY <1>5 DEF TabState
  <1>7. HonestTabs  BY <1>4, <1>6 DEF HonestTabs
  <1>. QED  BY <1>1, <1>6, <1>7, Left, StepHonest

\* The socket of a tab closes.
LEMMA CloseHonest ==
    ASSUME TypeOK, Honestly, NEW c \in Tab, UNCHANGED <<history, approved>>, HonestTurns,
           tab' = [tab EXCEPT ![c] = Closed(tab[c])] \/ tab' = tab,
           up' = [up EXCEPT ![c] = <<>>] \/ up' = up,
           down' = [down EXCEPT ![c] = <<>>] \/ down' = down
    PROVE  /\ Honestly' /\ \A d \in Tab : tab'[d].unsent = tab[d].unsent
           /\ \A d \in Tab : up'[d] = up[d] \/ up'[d] = <<>>
  <1>1. tab \in [Tab -> TabState] /\ up \in [Tab -> Seq(Frame)] /\ down \in [Tab -> Seq(Answer)]
    BY DEF TypeOK
  <1>2. \A d \in Tab : tab'[d].last = tab[d].last /\ tab'[d].unsent = tab[d].unsent
    BY <1>1, ClosedTyped
  <1>3. \A d \in Tab : (up'[d] = up[d] \/ up'[d] = <<>>) /\ (down'[d] = down[d] \/ down'[d] = <<>>)
    BY <1>1
  <1>4. DOMAIN <<>> = {}  OBVIOUS
  <1>5. HonestTabs  BY <1>2 DEF HonestTabs
  <1>6. HonestUp  BY <1>3, <1>4 DEF HonestUp
  <1>7. HonestDown  BY <1>3, <1>4 DEF HonestDown
  <1>. QED  BY <1>2, <1>3, <1>5, <1>6, <1>7, Left, StepHonest

\* Disconnect shows no decision the user has not made.
LEMMA DisconnectHonest ==
    ASSUME TypeOK, Honestly, NEW c \in Tab, Disconnect(c)
    PROVE  /\ Honestly' /\ Lost /\ DOMAIN turns' = DOMAIN turns
           /\ \A r \in DOMAIN turns : Kept(turns'[r], turns[r])
  <1>1. DOMAIN turns' = DOMAIN turns /\ \A r \in DOMAIN turns : Kept(turns'[r], turns[r])
    <2>1. PICK heard \in BOOLEAN : turns' = Detached(c, heard)
      BY DEF Disconnect
    <2>2. ASSUME NEW r \in DOMAIN turns PROVE Kept(turns'[r], turns[r])
      <3> DEFINE t == turns[r]
                 t1 == [t EXCEPT !.attached = FALSE]
                 x == t.aborted \/ heard
                 t2 == [t1 EXCEPT !.aborted = x]
      <3>1. t \in Turn  BY DEF TypeOK
      <3>2. t1 \in Turn /\ Kept(t1, t) /\ x \in BOOLEAN  BY <3>1, TurnTyped
      <3>3. Kept(t2, t1)
        <4>. HIDE DEF t1, x
        <4>. QED  BY <3>2, TurnTyped
      <3>4. turns'[r] = IF r = serving[c] THEN t2 ELSE t  BY <2>1 DEF Detached
      <3>. HIDE DEF t, t1, t2
      <3>. QED  BY <3>2, <3>3, <3>4 DEF Kept, t
    <2>. QED  BY <2>1, <2>2 DEF Detached
  <1>2. HonestTurns  BY <1>1 DEF HonestTurns, Kept
  <1>3. /\ UNCHANGED <<history, approved, requests>> /\ tab' = [tab EXCEPT ![c] = Closed(tab[c])]
        /\ up' = [up EXCEPT ![c] = <<>>] /\ down' = [down EXCEPT ![c] = <<>>]
    BY DEF Disconnect, store
  <1>. QED  BY <1>1, <1>2, <1>3, CloseHonest DEF Lost

\* Receive shows no decision the user has not made.
LEMMA ReceiveHonest ==
    ASSUME TypeOK, Honestly, Numbered, NEW c \in Tab, Receive(c)
    PROVE  Honestly'
  <1>1. UNCHANGED <<history, tab, approved>>  BY ReceiveIs DEF store
  <1>2. Truthful(Head(up[c]), approved')
    <2>1. Head(up[c]) = up[c][1] /\ 1 \in DOMAIN up[c]  BY ReceiveIs
    <2>2. Truthful(up[c][1], approved)  BY <2>1 DEF Honestly
    <2>3. approved' = approved  BY <1>1
    <2>. QED  BY <2>1, <2>2, <2>3
  <1>3. HonestTurns
    <2>1. DOMAIN turns' \subseteq DOMAIN turns \union {Head(up[c]).run}
      BY ReceiveIs
    <2>2. \A r \in DOMAIN turns : turns'[r].response = turns[r].response /\ turns'[r].frame = turns[r].frame
      BY ReceiveIs DEF Kept
    <2>3. Head(up[c]).run \in DOMAIN turns' \ DOMAIN turns =>
             /\ turns'[Head(up[c]).run].response = NoMessage
             /\ turns'[Head(up[c]).run].frame = Head(up[c])
      BY ReceiveIs
    <2>. QED  BY <1>2, <2>1, <2>2, <2>3, HonestTyped DEF HonestTurns
  <1>4. HonestUp
    <2>1. \A d \in Tab : \A k \in DOMAIN up'[d] :
             IF d = c THEN k + 1 \in DOMAIN up[d] /\ up'[d][k] = up[d][k + 1]
             ELSE k \in DOMAIN up[d] /\ up'[d][k] = up[d][k]
      BY ReceiveIs
    <2>. QED  BY <2>1 DEF HonestUp
  <1>5. HonestDown
    <2> DEFINE answer == [type |-> "rejected", run |-> Head(up[c]).run, last |-> NoMessage]
    <2>1. down' = down \/ (Head(up[c]).type # "stop" /\ down' = [down EXCEPT ![c] = Append(@, answer)])
      BY DEF Receive
    <2>2. Honest(answer.last, approved')  BY HonestTyped
    <2>3. Head(up[c]).type # "stop" => answer \in Answer
      <3>1. Head(up[c]) \in Frame /\ up[c][1] = Head(up[c]) /\ 1 \in DOMAIN up[c]
        BY ReceiveIs
      <3>2. Head(up[c]).type # "stop" => Head(up[c]).run \in Run
        BY <3>1, FrameTyped, BoundsTyped DEF Numbered, Run
      <3>. QED  BY <3>2, ConstantsTyped DEF Answer
    <2>. HIDE DEF answer
    <2>4. down \in [Tab -> Seq(Answer)] /\ down[c] \in Seq(Answer)
      BY DEF TypeOK
    <2>5. answer \in Answer => \A k \in DOMAIN Append(down[c], answer) :
             Append(down[c], answer)[k] = answer
             \/ \E l \in DOMAIN down[c] : Append(down[c], answer)[k] = down[c][l]
      BY <2>4, QueueParts
    <2>6. /\ \A d \in Tab : d # c => down'[d] = down[d]
          /\ down'[c] = down[c] \/ (down'[c] = Append(down[c], answer) /\ answer \in Answer)
      BY <2>1, <2>3, <2>4
    <2>. QED  BY <2>2, <2>5, <2>6 DEF HonestDown
  <1>. QED  BY <1>1, <1>3, <1>4, <1>5, Left, StepHonest


\* Steps of a turn and of its tool: they take no frame, and show what is honest.
NoneQueued == \A r \in Run : Queued(r)' => Queued(r)

\* A step that sends nothing new keeps decisions honest and frames numbered.
LEMMA CarriesOn ==
    ASSUME TypeOK, Honestly, Numbered, Once, UNCHANGED <<tab, up, requests, approved>>,
           DOMAIN turns' \subseteq DOMAIN turns, HonestTurns, HonestHistory, HonestDown
    PROVE  Honestly' /\ Numbered' /\ Once' /\ NoneQueued
  <1>1. Lost  BY DEF Lost
  <1>2. Numbered' /\ Once' /\ \A r : Queued(r)' => Queued(r)
    BY <1>1, LostNumbered
  <1>3. HonestTabs /\ HonestUp  BY Left
  <1>4. Honestly'  BY <1>3, StepHonest
  <1>. QED  BY <1>2, <1>4 DEF NoneQueued

\* An answer without a message carries no decision.
LEMMA TellsNothing ==
    ASSUME TypeOK, NEW r \in DOMAIN turns, NEW type \in {"chunk", "end", "failed", "rejected"},
           Tell(r, type, NoMessage)
    PROVE  HonestDown
  <1>1. NoMessage \in Message /\ Honest(NoMessage, approved')
    BY ConstantsTyped, HonestTyped
  <1>. QED  BY <1>1, TellHonest

\* Over shows no decision the user has not made.
LEMMA OverHonest ==
    ASSUME TypeOK, NEW r \in DOMAIN turns, Over(r)
    PROVE  HonestTurns /\ DOMAIN turns' \subseteq DOMAIN turns
  <1>1. DOMAIN turns' \subseteq DOMAIN turns /\ \A q \in DOMAIN turns' : turns'[q] = turns[q]
    BY OverTyped
  <1>. QED  BY <1>1, FewerHonest

\* A turn that has moved on has the response and the frame it had.
LEMMA MovedOn ==
    ASSUME TypeOK, NEW r \in DOMAIN turns, NEW at, Moved(r, at, turns[r].response)
    PROVE  HonestTurns /\ DOMAIN turns' \subseteq DOMAIN turns
BY MovedHonest, MovedTyped

\* Identity shows no decision the user has not made.
LEMMA IdentityHonest ==
    ASSUME TypeOK, Honestly, Numbered, Once, NEW r \in DOMAIN turns, Identity(r)
    PROVE  Honestly' /\ Numbered' /\ Once' /\ NoneQueued
  <1>1. UNCHANGED <<history, requests, approved>>  BY DEF Identity, store
  <1>2. CASE turns' = [turns EXCEPT ![r].at = "start"] /\ UNCHANGED <<tab, up, down, serving>>
    <2>1. turns[r] \in Turn /\ turns[r].response \in Message /\ turns[r].view \in Seq(Message)
      BY TurnFields DEF TypeOK
    <2>2. turns' = [turns EXCEPT ![r] = [turns[r] EXCEPT !.at = "start"]]
      BY <1>2
    <2>3. Moved(r, "start", turns[r].response)
      BY <2>1, <2>2, MovesSo DEF TurnAt
    <2>4. HonestTurns /\ DOMAIN turns' \subseteq DOMAIN turns  BY <2>3, MovedOn
    <2>. QED  BY <1>1, <1>2, <2>4, Left, CarriesOn
  <1>3. CASE /\ Over(r)
             /\ IF turns[r].attached
                THEN /\ tab' = [tab EXCEPT ![turns[r].tab] = Closed(@)]
                     /\ up' = [up EXCEPT ![turns[r].tab] = <<>>] /\ down' = [down EXCEPT ![turns[r].tab] = <<>>]
                ELSE UNCHANGED <<tab, up, down>>
    <2>1. PICK c \in Tab : c = turns[r].tab  BY TurnFields DEF TypeOK
    <2>2. HonestTurns /\ DOMAIN turns' \subseteq DOMAIN turns
      BY <1>3, OverHonest
    <2>3. /\ tab' = [tab EXCEPT ![c] = Closed(tab[c])] \/ tab' = tab
          /\ up' = [up EXCEPT ![c] = <<>>] \/ up' = up
          /\ down' = [down EXCEPT ![c] = <<>>] \/ down' = down
      BY <1>3, <2>1
    <2>4. /\ Honestly' /\ \A d \in Tab : tab'[d].unsent = tab[d].unsent
          /\ \A d \in Tab : up'[d] = up[d] \/ up'[d] = <<>>
      BY <1>1, <2>2, <2>3, CloseHonest
    <2>5. Lost  BY <1>1, <2>2, <2>4 DEF Lost
    <2>. QED  BY <2>4, <2>5, LostNumbered DEF NoneQueued
  <1>. QED  BY <1>2, <1>3 DEF Identity

\* Start shows no decision the user has not made.
LEMMA StartHonest ==
    ASSUME TypeOK, Honestly, Numbered, Once, NEW r \in DOMAIN turns, Start(r)
    PROVE  Honestly' /\ Numbered' /\ Once' /\ NoneQueued
  <1>1. UNCHANGED <<tab, up, requests, approved>>  BY DEF Start
  <1>2. CASE Claims(r)
    <2>1. PICK t \in Turn : turns' = [turns EXCEPT ![r] = t] /\ t.frame = turns[r].frame
                            /\ t.response = turns[r].response
      BY <1>2, StartDoes
    <2>2. /\ DOMAIN turns' = DOMAIN turns /\ turns'[r] = t
          /\ \A q \in DOMAIN turns : q # r => turns'[q] = turns[q]
      BY <2>1, OneTurnTyped
    <2>3. HonestTurns  BY <2>1, <2>2 DEF HonestTurns
    <2>4. CASE history' = history
      BY <1>1, <1>2, <2>2, <2>3, <2>4, StartDoes, Left, CarriesOn
    <2>5. CASE \E m \in Message : m.send = "none" /\ history' = Saved(m)
      <3>1. PICK m \in Message : m.send = "none" /\ history' = Saved(m)  BY <2>5
      <3>2. Honest(m, approved')  BY <3>1 DEF Honest
      <3>3. HonestHistory  BY <3>1, <3>2, SavedHonest
      <3>4. UNCHANGED down  BY <1>2, StartDoes
      <3>5. HonestDown  BY <3>4, Left
      <3>. QED  BY <1>1, <2>2, <2>3, <3>3, <3>5, CarriesOn
    <2>. QED  BY <1>2, <2>4, <2>5, StartDoes
  <1>3. CASE ~Claims(r)
    <2>1. Over(r) /\ Tell(r, "rejected", NoMessage) /\ UNCHANGED history
      BY <1>3, StartDoes DEF store
    <2>2. HonestTurns /\ DOMAIN turns' \subseteq DOMAIN turns
      BY <2>1, OverHonest
    <2>3. HonestDown  BY <2>1, TellsNothing
    <2>. QED  BY <1>1, <2>1, <2>2, <2>3, Left, CarriesOn
  <1>. QED  BY <1>2, <1>3

\* Abort shows no decision the user has not made.
LEMMA AbortHonest ==
    ASSUME TypeOK, Honestly, Numbered, Once, NEW r \in DOMAIN turns, Abort(r)
    PROVE  Honestly' /\ Numbered' /\ Once' /\ NoneQueued
  <1>1. UNCHANGED <<history, down, tab, up, requests, approved>>
    BY DEF Abort, store, chat
  <1>2. HonestTurns /\ DOMAIN turns' \subseteq DOMAIN turns
    BY AbortDoes, MovedOn
  <1>. QED  BY <1>1, <1>2, Left, CarriesOn

\* StopWhen shows no decision the user has not made.
LEMMA StopWhenHonest ==
    ASSUME TypeOK, Honestly, Numbered, Once, NEW r \in DOMAIN turns, StopWhen(r)
    PROVE  Honestly' /\ Numbered' /\ Once' /\ NoneQueued
  <1>1. UNCHANGED <<history, down, tab, up, requests, approved>>
    BY DEF StopWhen, chat
  <1>2. HonestTurns /\ DOMAIN turns' \subseteq DOMAIN turns
    BY StopWhenDoes, MovedOn
  <1>. QED  BY <1>1, <1>2, Left, CarriesOn

\* End shows no decision the user has not made.
LEMMA EndHonest ==
    ASSUME TypeOK, Honestly, Numbered, Once, NEW r \in DOMAIN turns, End(r)
    PROVE  Honestly' /\ Numbered' /\ Once' /\ NoneQueued
  <1>1. UNCHANGED <<history, tab, up, requests, approved>>  BY DEF End, store
  <1>2. HonestTurns /\ DOMAIN turns' \subseteq DOMAIN turns
    BY EndDoes, MovedOn, OverHonest
  <1>3. PICK type \in {"end", "failed"} : Tell(r, type, NoMessage)  BY EndDoes
  <1>4. HonestDown  BY <1>3, TellsNothing
  <1>. QED  BY <1>1, <1>2, <1>4, Left, CarriesOn

\* Finish shows no decision the user has not made.
LEMMA FinishHonest ==
    ASSUME TypeOK, Honestly, Numbered, Once, NEW r \in DOMAIN turns, Finish(r)
    PROVE  Honestly' /\ Numbered' /\ Once' /\ NoneQueued
  <1>1. UNCHANGED <<history, down, tab, up, requests, approved>> /\ Over(r)
    BY DEF Finish
  <1>2. HonestTurns /\ DOMAIN turns' \subseteq DOMAIN turns  BY <1>1, OverHonest
  <1>. QED  BY <1>1, <1>2, Left, CarriesOn

\* Throw shows no decision the user has not made.
LEMMA ThrowHonest ==
    ASSUME TypeOK, Honestly, Numbered, Once, NEW r \in DOMAIN turns, Throw(r)
    PROVE  Honestly' /\ Numbered' /\ Once' /\ NoneQueued
  <1>1. UNCHANGED <<history, tab, up, requests, approved>>  BY DEF Throw, store
  <1>2. HonestTurns /\ DOMAIN turns' \subseteq DOMAIN turns
    BY ThrowDoes, MovedOn, OverHonest
  <1>3. PICK type \in {"rejected", "failed"} : Tell(r, type, NoMessage)
    BY ThrowDoes
  <1>4. HonestDown  BY <1>3, TellsNothing
  <1>. QED  BY <1>1, <1>2, <1>4, Left, CarriesOn

\* Prepare shows no decision the user has not made.
LEMMA PrepareHonest ==
    ASSUME TypeOK, Honestly, Numbered, Once, Viewed, NEW r \in DOMAIN turns, Prepare(r)
    PROVE  Honestly' /\ Numbered' /\ Once' /\ NoneQueued
  <1>1. UNCHANGED <<tab, up, requests, approved>> /\ turns[r].at = "prepare"
    BY PrepareDoes
  <1>2. CASE Decides(r)
    <2> DEFINE n == Len(turns[r].view)
    <2>1. /\ turns[r].frame.type = "approval" /\ n > 0 /\ Decidable(turns[r].view[n], turns[r].frame)
          /\ Owns(r)
      BY <1>2 DEF Decides, Stores
    <2>2. turns[r].view = history /\ history \in Seq(Message)
      BY <1>1, <2>1 DEF Viewed, TypeOK
    <2>3. n \in DOMAIN history  BY <2>1, <2>2
    <2>4. Honest(history[n], approved) /\ Truthful(turns[r].frame, approved)
      BY <2>3 DEF Honestly
    <2>5. turns[r].view[n].id \in Call /\ turns[r].view[n].id = turns[r].frame.id
      BY <2>1, <2>2, <2>4 DEF Honest, Decidable
    <2>6. PICK m \in Message :
             /\ Stores(r, m) /\ m.id = turns[r].view[n].id
             /\ \/ turns[r].frame.approve /\ m.send = "approved" /\ Moved(r, "tool", m)
                \/ /\ m.send = "declined"
                   /\ \E d \in Message : d.id = m.id /\ d.send = "denied" /\ Moved(r, "model", d)
      BY <1>2 DEF Decides
    <2>. HIDE DEF n
    <2>7. Honest(m, approved') /\ m.id \in Call
      BY <1>1, <2>1, <2>4, <2>5, <2>6 DEF Honest, Truthful
    <2>8. PICK at, d : Moved(r, at, d) /\ Proper(d, approved')
      BY <2>6, <2>7 DEF Proper, Honest
    <2>9. HonestTurns /\ DOMAIN turns' \subseteq DOMAIN turns
      BY <2>8, MovedHonest, MovedTyped
    <2>10. history' = Saved(m) /\ UNCHANGED down  BY <2>6 DEF Stores
    <2>11. HonestHistory  BY <2>7, <2>10, SavedHonest
    <2>. QED  BY <1>1, <2>9, <2>10, <2>11, Left, CarriesOn
  <1>3. CASE Closes(r)
    <2> DEFINE n == Len(turns[r].view)
    <2>1. n > 1 /\ turns[r].view[n - 1].send \in OpenApproval /\ Owns(r) /\ Moved(r, "model", NoMessage)
      BY <1>3 DEF Closes, Stores
    <2>2. turns[r].view = history /\ history \in Seq(Message)
      BY <1>1, <2>1 DEF Viewed, TypeOK
    <2>3. n - 1 \in DOMAIN history  BY <2>1, <2>2
    <2>4. turns[r].view[n - 1].id \in Call
      BY <2>1, <2>2, <2>3 DEF Honestly, Honest, OpenApproval
    <2>5. PICK m \in Message :
             /\ Stores(r, m) /\ m.id = turns[r].view[n - 1].id /\ m.send # "approved"
      BY <1>3 DEF Closes
    <2>. HIDE DEF n
    <2>6. Honest(m, approved')  BY <2>4, <2>5 DEF Honest
    <2>7. HonestTurns /\ DOMAIN turns' \subseteq DOMAIN turns
      BY <2>1, MovedHonest, MovedTyped, HonestTyped
    <2>8. history' = Saved(m) /\ UNCHANGED down  BY <2>5 DEF Stores
    <2>9. HonestHistory  BY <2>6, <2>8, SavedHonest
    <2>. QED  BY <1>1, <2>7, <2>8, <2>9, Left, CarriesOn
  <1>4. CASE /\ Moved(r, "finish", turns[r].response) /\ Tell(r, "rejected", NoMessage)
             /\ UNCHANGED store
    <2>1. HonestTurns /\ DOMAIN turns' \subseteq DOMAIN turns  BY <1>4, MovedOn
    <2>2. HonestDown  BY <1>4, TellsNothing
    <2>. QED  BY <1>1, <1>4, <2>1, <2>2, Left, CarriesOn DEF store
  <1>5. CASE Moved(r, "model", turns[r].response) /\ UNCHANGED <<store, down>>
    <2>1. HonestTurns /\ DOMAIN turns' \subseteq DOMAIN turns  BY <1>5, MovedOn
    <2>. QED  BY <1>1, <1>5, <2>1, Left, CarriesOn DEF store
  <1>. QED  BY <1>2, <1>3, <1>4, <1>5, PrepareDoes

\* Model shows no decision the user has not made.
LEMMA ModelHonest ==
    ASSUME TypeOK, Honestly, Numbered, Once, NEW r \in DOMAIN turns, Model(r)
    PROVE  Honestly' /\ Numbered' /\ Once' /\ NoneQueued
  <1>1. UNCHANGED <<history, tab, up, requests, approved>>  BY DEF Model, store
  <1>2. CASE Moved(r, "save", turns[r].response) /\ UNCHANGED down
    <2>1. HonestTurns /\ DOMAIN turns' \subseteq DOMAIN turns  BY <1>2, MovedOn
    <2>. QED  BY <1>1, <1>2, <2>1, Left, CarriesOn
  <1>3. CASE \E m \in Message :
                /\ Continues(r, m) /\ Tell(r, "chunk", m)
                /\ m.send = turns[r].response.send \/ m.send = "requested"
                /\ \E at : Moved(r, at, m)
    <2>1. PICK m \in Message :
                /\ Continues(r, m) /\ Tell(r, "chunk", m)
                /\ m.send = turns[r].response.send \/ m.send = "requested"
                /\ \E at : Moved(r, at, m)
      BY <1>3
    <2>2. r \in 0 .. MaxRequests  BY BoundsTyped DEF TypeOK
    <2>3. m.id \in Call
      BY <2>1, <2>2, ConstantsTyped DEF Continues, Honestly, Proper
    <2>4. m.send = "approved" => m.id \in approved
      <3>1. CASE turns[r].response = NoMessage  BY <2>1, <3>1, ConstantsTyped
      <3>2. CASE turns[r].response # NoMessage
        BY <2>1, <3>2 DEF Continues, Honestly, Proper, Honest
      <3>. QED  BY <3>1, <3>2
    <2>5. Honest(m, approved') /\ Proper(m, approved')
      BY <1>1, <2>3, <2>4 DEF Honest, Proper
    <2>6. PICK at : Moved(r, at, m)  BY <2>1
    <2>7. HonestTurns /\ DOMAIN turns' \subseteq DOMAIN turns
      BY <2>5, <2>6, MovedHonest, MovedTyped
    <2>8. HonestDown  BY <2>1, <2>5, TellHonest
    <2>. QED  BY <1>1, <2>7, <2>8, Left, CarriesOn
  <1>. QED  BY <1>2, <1>3, ModelDoes

\* Resume shows no decision the user has not made.
LEMMA ResumeHonest ==
    ASSUME TypeOK, Honestly, Numbered, Once, Equipped, Resumable, NEW r \in DOMAIN turns, Resume(r)
    PROVE  Honestly' /\ Numbered' /\ Once' /\ NoneQueued
  <1>1. UNCHANGED <<history, tab, up, requests, approved>>  BY DEF Resume, store
  <1>2. PICK m \in Message :
                 /\ m.id = turns[r].response.id /\ Tell(r, "chunk", m)
                 /\ \/ m = turns[r].response /\ Moved(r, "stopWhen", m)
                    \/ /\ tools[r].call # <<"none", 0>> /\ m.send \in {"sent", "failed"}
                       /\ Moved(r, "model", m)
    BY ResumeDoes
  <1>3. Proper(turns[r].response, approved) /\ turns[r].at = "tool" /\ r \in Run
    BY ResumeDoes DEF Honestly, TypeOK
  <1>4. Proper(m, approved')
    <2>1. CASE m = turns[r].response  BY <1>1, <1>3, <2>1
    <2>2. CASE tools[r].call # <<"none", 0>> /\ m.send \in {"sent", "failed"}
      <3>1. turns[r].response.send = "approved"  BY <1>3, <2>2 DEF Resumable
      <3>2. m.id \in Call  BY <1>2, <1>3, <3>1 DEF Proper, Honest
      <3>. QED  BY <2>2, <3>2 DEF Proper, Honest
    <2>. QED  BY <1>2, <2>1, <2>2
  <1>5. HonestTurns /\ DOMAIN turns' \subseteq DOMAIN turns
    BY <1>2, <1>4, MovedHonest, MovedTyped
  <1>6. Honest(m, approved')  BY <1>4 DEF Proper
  <1>7. HonestDown  BY <1>2, <1>6, TellHonest
  <1>. QED  BY <1>1, <1>5, <1>7, Left, CarriesOn

\* Save shows no decision the user has not made.
LEMMA SaveHonest ==
    ASSUME TypeOK, Honestly, Numbered, Once, NEW r \in DOMAIN turns, Save(r)
    PROVE  Honestly' /\ Numbered' /\ Once' /\ NoneQueued
  <1>1. UNCHANGED <<down, tab, up, requests, approved>>  BY DEF Save, chat
  <1>2. HonestTurns /\ DOMAIN turns' \subseteq DOMAIN turns
    BY SaveDoes, MovedOn
  <1>3. HonestHistory
    <2>1. CASE history' = history  BY <2>1, Left
    <2>2. CASE \E m \in Message : /\ m.id = turns[r].response.id /\ m.send = turns[r].response.send
                                  /\ history' = Saved(m)
      <3>1. PICK m \in Message : /\ m.id = turns[r].response.id /\ m.send = turns[r].response.send
                                 /\ history' = Saved(m)
        BY <2>2
      <3>2. Honest(turns[r].response, approved)  BY DEF Honestly, Proper
      <3>3. Honest(m, approved')  BY <1>1, <3>1, <3>2 DEF Honest
      <3>. QED  BY <3>1, <3>3, SavedHonest
    <2>. QED  BY <2>1, <2>2, SaveDoes DEF store
  <1>. QED  BY <1>1, <1>2, <1>3, Left, CarriesOn

\* Crash shows no decision the user has not made.
LEMMA CrashHonest ==
    ASSUME TypeOK, Honestly, Numbered, Once, NEW r \in DOMAIN turns, Crash(r)
    PROVE  Honestly' /\ Numbered' /\ Once' /\ NoneQueued
  <1>1. UNCHANGED <<history, requests, approved>> /\ Vanish(r)
    BY DEF Crash, store
  <1>2. PICK c \in Tab : c = turns[r].tab  BY TurnFields DEF TypeOK
  <1>3. DOMAIN turns' \subseteq DOMAIN turns /\ \A q \in DOMAIN turns' : turns'[q] = turns[q]
    BY <1>1, VanishTyped
  <1>4. HonestTurns  BY <1>3, FewerHonest
  <1>5. /\ tab' = [tab EXCEPT ![c] = Closed(tab[c])] \/ tab' = tab
        /\ up' = [up EXCEPT ![c] = <<>>] \/ up' = up
        /\ down' = [down EXCEPT ![c] = <<>>] \/ down' = down
    BY <1>2 DEF Crash
  <1>6. /\ Honestly' /\ \A d \in Tab : tab'[d].unsent = tab[d].unsent
        /\ \A d \in Tab : up'[d] = up[d] \/ up'[d] = <<>>
    BY <1>1, <1>4, <1>5, CloseHonest
  <1>7. Lost  BY <1>1, <1>3, <1>6 DEF Lost
  <1>. QED  BY <1>6, <1>7, LostNumbered DEF NoneQueued

\* A step that leaves the chat and what the turns say alone.
LEMMA AsideHonest ==
    ASSUME TypeOK, Honestly, Numbered, Once, UNCHANGED chat, DOMAIN turns' = DOMAIN turns,
           \A r \in DOMAIN turns : Kept(turns'[r], turns[r]), history' = history \/ history' = <<>>
    PROVE  Honestly' /\ Numbered' /\ Once' /\ NoneQueued
  <1>1. UNCHANGED <<down, tab, up, requests, approved>>  BY DEF chat
  <1>2. HonestTurns  BY DEF HonestTurns, Kept
  <1>3. HonestHistory
    <2>1. DOMAIN <<>> = {}  OBVIOUS
    <2>. QED  BY <2>1 DEF HonestHistory
  <1>. QED  BY <1>1, <1>2, <1>3, Left, CarriesOn

-----------------------------------------------------------------------------
(* Turns, tools and what is stored.                                        *)

\* No step takes a turn back to before its claim, or to its work from its end.
Onward ==
    /\ requests <= requests'
    /\ \A q \in Run : Queued(q)' => Queued(q) \/ q > requests
    /\ \A q \in DOMAIN turns' :
          \/ Queued(q)
          \/ /\ q \in DOMAIN turns
             /\ turns'[q].at \in {"identity", "start"} => turns[q].at \in {"identity", "start"}
             /\ turns'[q].at \notin {"end", "finish"} => turns[q].at \notin {"end", "finish"}

\* When turns only move on, no run becomes unclaimed or writing again.
LEMMA OnwardIs ==
    ASSUME TypeOK, TypeOK', Onward
    PROVE  \A q \in Run : /\ Unclaimed(q)' => Unclaimed(q)
                          /\ Writing(q)' => Writing(q)
  <1>1. ASSUME NEW q \in Run PROVE q > requests' => q > requests
    <2>1. q \in Nat /\ requests \in Nat /\ requests' \in Nat
      BY BoundsTyped DEF TypeOK
    <2>. QED  BY <2>1 DEF Onward
  <1>2. ASSUME NEW q \in Run, Unclaimed(q)' PROVE Unclaimed(q)
    BY <1>1, <1>2 DEF Onward, Unclaimed
  <1>3. ASSUME NEW q \in Run, Writing(q)' PROVE Writing(q)
    BY <1>1, <1>3 DEF Onward, Writing
  <1>. QED  BY <1>2, <1>3

\* A step after which a turn that is at work was, with the same view and response.
Steady ==
    \A q \in DOMAIN turns' :
        /\ turns'[q].at \in Begins =>
              \/ turns'[q].response = NoMessage
              \/ q \in DOMAIN turns /\ turns[q].at \in Begins /\ turns'[q].response = turns[q].response
        /\ turns'[q].at = "prepare" =>
              q \in DOMAIN turns /\ turns[q].at = "prepare" /\ turns'[q].view = turns[q].view
        /\ turns'[q].at \in AtWork =>
              q \in DOMAIN turns /\ turns[q].at \in AtWork /\ turns'[q].response = turns[q].response
        /\ turns'[q].at = "tool" => turns[q].at = "tool"

\* Steps that change nothing of this: they end a lease, a tool or what is
\* stored at most.
Idle == /\ Onward /\ Steady /\ approved \subseteq approved' /\ UNCHANGED mail
        /\ \A q \in Run : tools'[q] = tools[q] \/ tools'[q] = NoTool
        /\ \/ conv'.owner = conv.owner /\ history' = history
           \/ conv'.owner = 0 /\ (history' = history \/ history' = <<>>)

\* A step after which every decision stands.
Stands == \A n \in DOMAIN history \intersect DOMAIN history' :
              history'[n].id = history[n].id => SameSide(history[n].send, history'[n].send)

\* A history left alone keeps its decisions.
LEMMA SameStands ==
    ASSUME history' = history \/ history' = <<>>
    PROVE  Stands
  <1>1. DOMAIN <<>> = {} /\ \A x : SameSide(x, x)  BY DEF SameSide
  <1>. QED  BY <1>1 DEF Stands

\* A step of a tab leaves what links turns, tools and the store.
LEMMA IdleLinked ==
    ASSUME TypeOK, TypeOK', Linked, Idle
    PROVE  Linked'
  <1>1. \A q \in Run : (Unclaimed(q)' => Unclaimed(q)) /\ (Writing(q)' => Writing(q))
    BY OnwardIs DEF Idle
  <1>2. \A q \in Run : q # 0  BY BoundsTyped
  <1>3. \A q \in Run : conv'.owner = q => conv.owner = q /\ history' = history
    BY <1>2 DEF Idle
  <1>4. \A n \in DOMAIN history' : n \in DOMAIN history /\ history'[n] = history[n]
    BY DEF Idle
  <1>5. \A q \in Run : tools'[q] = tools[q] \/ tools'[q] = NoTool  BY DEF Idle
  <1>6. NoTool.call = <<"none", 0>> /\ NoTool.at = "none" /\ NoTool.late = 0
    BY DEF NoTool
  <1>7. \A i \in Call : Authorized(i)' => Authorized(i)
    <2>1. \A i \in Call : i # <<"none", 0>>  BY ConstantsTyped
    <2>. QED  BY <1>5, <1>6, <2>1 DEF Authorized, Idle, mail
  <1>8. \A q \in DOMAIN turns' : q \in Run  BY DEF TypeOK
  <1>9. Untouched'  BY <1>1, <1>3, <1>5 DEF Linked, Untouched
  <1>18. Fresh'  BY DEF Linked, Fresh, Idle, Steady
  <1>10. Viewed'  BY <1>3, <1>8 DEF Linked, Viewed, Owns, Idle, Steady
  <1>11. Answered'
    BY <1>3, <1>8 DEF Linked, Answered, Owns, Idle, Steady, AtWork
  <1>12. Resumable'
    <2>1. ASSUME NEW q \in DOMAIN turns', turns'[q].at = "tool", tools'[q].call # <<"none", 0>>
          PROVE  turns'[q].response.send = "approved"
      <3>1. q \in DOMAIN turns /\ turns[q].at = "tool" /\ turns'[q].response = turns[q].response
        BY <2>1 DEF Idle, Steady, AtWork
      <3>2. tools'[q] = tools[q]  BY <1>5, <1>6, <1>8, <2>1
      <3>. QED  BY <2>1, <3>1, <3>2 DEF Linked, Resumable
    <2>. QED  BY <2>1 DEF Resumable
  <1>13. Approved'  BY <1>4, <1>7 DEF Linked, Approved, Idle
  <1>14. Unasked'
    <2>1. \A q \in Run : <<"agent", q>> \in Call  BY BoundsTyped, ConstantsTyped
    <2>. QED  BY <1>1, <1>4, <1>7, <2>1 DEF Linked, Unasked
  <1>15. Sending'  BY <1>5, <1>6 DEF Linked, Sending, Idle, mail
  <1>16. Equipped'  BY <1>5, <1>6 DEF Linked, Equipped
  <1>17. Overtaken'  BY <1>3, <1>5, <1>6 DEF Linked, Overtaken
  <1>. QED  BY <1>9, <1>10, <1>11, <1>12, <1>13, <1>14, <1>15, <1>16, <1>17, <1>18 DEF Linked

\* Steps of the chat.
LEMMA ChatIdle ==
    ASSUME TypeOK, UNCHANGED <<conv, history, mail, tools>>, approved \subseteq approved',
           requests' = requests \/ requests' = requests + 1,
           \A q \in Run : Queued(q)' => Queued(q) \/ q = requests + 1,
           \A q \in DOMAIN turns' : \/ q \in DOMAIN turns /\ Kept(turns'[q], turns[q])
                                    \/ /\ Queued(q) /\ turns'[q].at = "identity"
                                       /\ turns'[q].response = NoMessage
    PROVE  Idle
  <1>1. requests \in Nat /\ requests <= requests'  BY BoundsTyped DEF TypeOK
  <1>2. \A q \in Run : q = requests + 1 => q > requests  BY <1>1
  <1>3. Onward  BY <1>1, <1>2 DEF Onward, Kept
  <1>4. Steady  BY DEF Steady, Kept, AtWork, Begins
  <1>. QED  BY <1>3, <1>4 DEF Idle

\* Ask keeps the invariant.
LEMMA AskKeeps ==
    ASSUME IInv, NEW c \in Tab, Ask(c)
    PROVE  IInv'
  <1>1. TypeOK'  BY AskTyped DEF IInv
  <1>2. Honestly' /\ Numbered' /\ Once' /\ \A q \in Run : Queued(q)' => Queued(q) \/ q = requests + 1
    BY AskHonest DEF IInv
  <1>3. UNCHANGED <<conv, history, mail, tools, turns, approved>> /\ requests' = requests + 1
    BY DEF Ask, Request, store
  <1>4. \A q \in DOMAIN turns' : q \in DOMAIN turns /\ Kept(turns'[q], turns[q])
    BY <1>3 DEF Kept
  <1>5. Idle  BY <1>2, <1>3, <1>4, ChatIdle DEF IInv
  <1>. QED  BY <1>1, <1>2, <1>5, IdleLinked DEF IInv

\* Decide keeps the invariant.
LEMMA DecideKeeps ==
    ASSUME IInv, NEW c \in Tab, NEW yes \in BOOLEAN, Decide(c, yes)
    PROVE  IInv'
  <1>1. TypeOK'  BY DecideTyped DEF IInv
  <1>2. Honestly' /\ Numbered' /\ Once' /\ \A q \in Run : Queued(q)' => Queued(q) \/ q = requests + 1
    BY DecideHonest DEF IInv
  <1>3. UNCHANGED <<conv, history, mail, tools, turns>> /\ requests' = requests + 1
    BY DEF Decide, Request, store
  <1>4. \A q \in DOMAIN turns' : q \in DOMAIN turns /\ Kept(turns'[q], turns[q])
    BY <1>3 DEF Kept
  <1>5. approved \subseteq approved'  BY DEF Decide
  <1>6. Idle  BY <1>2, <1>3, <1>4, <1>5, ChatIdle DEF IInv
  <1>. QED  BY <1>1, <1>2, <1>6, IdleLinked DEF IInv

\* Retry keeps the invariant.
LEMMA RetryKeeps ==
    ASSUME IInv, NEW c \in Tab, Retry(c)
    PROVE  IInv'
  <1>1. TypeOK'  BY RetryTyped DEF IInv
  <1>2. Honestly' /\ Numbered' /\ Once' /\ \A q \in Run : Queued(q)' => Queued(q) \/ q = requests + 1
    BY RetryHonest DEF IInv
  <1>3. UNCHANGED <<conv, history, mail, tools, turns, approved>> /\ requests' = requests + 1
    BY DEF Retry, Request, store
  <1>4. \A q \in DOMAIN turns' : q \in DOMAIN turns /\ Kept(turns'[q], turns[q])
    BY <1>3 DEF Kept
  <1>5. Idle  BY <1>2, <1>3, <1>4, ChatIdle DEF IInv
  <1>. QED  BY <1>1, <1>2, <1>5, IdleLinked DEF IInv

\* A read answered to a tab queues no frame.
LEMMA QueueLeft ==
    ASSUME requests' = requests, \A d \in Tab : tab'[d].unsent = tab[d].unsent, UNCHANGED <<up, turns>>,
           Numbered, Once
    PROVE  Numbered' /\ Once' /\ \A q \in Run : Queued(q)' => Queued(q)
  <1>1. \A q : InUp(q)' => InUp(q)  BY DEF InUp
  <1>2. \A q : Queued(q)' => Queued(q)  BY <1>1 DEF Queued
  <1>. QED  BY <1>1, <1>2 DEF Numbered, Once, InUp

\* Connect keeps the invariant.
LEMMA ConnectKeeps ==
    ASSUME IInv, NEW c \in Tab, Connect(c)
    PROVE  IInv'
  <1>1. TypeOK' /\ Honestly' /\ Numbered' /\ Once' /\ \A q \in Run : Queued(q)' => Queued(q)
    BY ConnectTyped, ConnectHonest, ConnectNumbered DEF IInv
  <1>2. UNCHANGED <<conv, history, mail, tools, turns, approved, requests>>
    BY DEF Connect, store
  <1>3. \A q \in DOMAIN turns' : q \in DOMAIN turns /\ Kept(turns'[q], turns[q])
    BY <1>2 DEF Kept
  <1>4. Idle  BY <1>1, <1>2, <1>3, ChatIdle DEF IInv
  <1>. QED  BY <1>1, <1>4, IdleLinked DEF IInv

\* Stop keeps the invariant.
LEMMA StopKeeps ==
    ASSUME IInv, NEW c \in Tab, Stop(c)
    PROVE  IInv'
  <1>1. TypeOK' /\ Honestly' /\ Numbered' /\ Once' /\ \A q \in Run : Queued(q)' => Queued(q)
    BY StopTyped, StopHonest, StopNumbered DEF IInv
  <1>2. UNCHANGED <<conv, history, mail, tools, turns, approved, requests>>
    BY DEF Stop, store
  <1>3. \A q \in DOMAIN turns' : q \in DOMAIN turns /\ Kept(turns'[q], turns[q])
    BY <1>2 DEF Kept
  <1>4. Idle  BY <1>1, <1>2, <1>3, ChatIdle DEF IInv
  <1>. QED  BY <1>1, <1>4, IdleLinked DEF IInv

\* Deliver keeps the invariant.
LEMMA DeliverKeeps ==
    ASSUME IInv, NEW c \in Tab, Deliver(c)
    PROVE  IInv'
  <1>1. TypeOK' /\ Honestly'  BY DeliverTyped, DeliverHonest DEF IInv
  <1>2. UNCHANGED <<conv, history, mail, tools, turns, up, approved, requests>>
    BY DeliverIs DEF IInv, store
  <1>3. \A d \in Tab : tab'[d].unsent = tab[d].unsent  BY DeliverIs DEF IInv
  <1>4. Numbered' /\ Once' /\ \A q \in Run : Queued(q)' => Queued(q)
    BY <1>2, <1>3, QueueLeft DEF IInv
  <1>5. \A q \in DOMAIN turns' : q \in DOMAIN turns /\ Kept(turns'[q], turns[q])
    BY <1>2 DEF Kept
  <1>6. Idle  BY <1>2, <1>4, <1>5, ChatIdle DEF IInv
  <1>. QED  BY <1>1, <1>4, <1>6, IdleLinked DEF IInv

\* Reload keeps the invariant.
LEMMA ReloadKeeps ==
    ASSUME IInv, NEW c \in Tab, Reload(c)
    PROVE  IInv'
  <1>1. TypeOK' /\ Honestly' /\ \A d \in Tab : tab'[d].unsent = tab[d].unsent
    BY ReloadTyped, ReloadHonest DEF IInv
  <1>2. UNCHANGED <<conv, history, mail, tools, turns, up, approved, requests>>
    BY DEF Reload, store
  <1>3. Numbered' /\ Once' /\ \A q \in Run : Queued(q)' => Queued(q)
    BY <1>1, <1>2, QueueLeft DEF IInv
  <1>4. \A q \in DOMAIN turns' : q \in DOMAIN turns /\ Kept(turns'[q], turns[q])
    BY <1>2 DEF Kept
  <1>5. Idle  BY <1>2, <1>3, <1>4, ChatIdle DEF IInv
  <1>. QED  BY <1>1, <1>3, <1>5, IdleLinked DEF IInv

\* Disconnect keeps the invariant.
LEMMA DisconnectKeeps ==
    ASSUME IInv, NEW c \in Tab, Disconnect(c)
    PROVE  IInv'
  <1>1. TypeOK' /\ Honestly' /\ Lost
    BY DisconnectTyped, DisconnectHonest DEF IInv
  <1>2. Numbered' /\ Once' /\ \A q \in Run : Queued(q)' => Queued(q)
    BY <1>1, LostNumbered DEF IInv
  <1>3. UNCHANGED <<conv, history, mail, tools, approved, requests>>
    BY DEF Disconnect, store
  <1>4. \A q \in DOMAIN turns' : q \in DOMAIN turns /\ Kept(turns'[q], turns[q])
    BY DisconnectHonest DEF IInv
  <1>5. Idle  BY <1>2, <1>3, <1>4, ChatIdle DEF IInv
  <1>. QED  BY <1>1, <1>2, <1>5, IdleLinked DEF IInv

\* Receive keeps the invariant.
LEMMA ReceiveKeeps ==
    ASSUME IInv, NEW c \in Tab, Receive(c)
    PROVE  IInv'
  <1>1. TypeOK' /\ Honestly' /\ Numbered' /\ Once' /\ \A q \in Run : Queued(q)' => Queued(q)
    BY ReceiveTyped, ReceiveHonest, ReceiveNumbered DEF IInv
  <1>2. UNCHANGED <<conv, history, mail, tools, approved, requests>>
    BY DEF Receive, store
  <1>3. ASSUME NEW q \in DOMAIN turns'
        PROVE  \/ q \in DOMAIN turns /\ Kept(turns'[q], turns[q])
               \/ Queued(q) /\ turns'[q].at = "identity" /\ turns'[q].response = NoMessage
    <2>1. CASE q \in DOMAIN turns  BY <2>1, ReceiveIs DEF IInv
    <2>2. CASE q \notin DOMAIN turns
      <3>1. Queued(q)  BY <2>2, ReceiveNumbered DEF IInv
      <3>2. TypeOK /\ Numbered  BY DEF IInv
      <3>3. \/ DOMAIN turns' = DOMAIN turns
            \/ /\ DOMAIN turns' = DOMAIN turns \union {Head(up[c]).run}
               /\ turns'[Head(up[c]).run].at = "identity"
               /\ turns'[Head(up[c]).run].response = NoMessage
        BY <3>2, ReceiveIs
      <3>. QED  BY <2>2, <3>1, <3>3
    <2>. QED  BY <2>1, <2>2
  <1>4. Idle  BY <1>1, <1>2, <1>3, ChatIdle DEF IInv
  <1>. QED  BY <1>1, <1>4, IdleLinked DEF IInv

\* Steps of a turn that change neither history nor a tool, and at most give the
\* conversation back.
LEMMA MovedIdle ==
    ASSUME TypeOK, NoneQueued, requests' = requests, NEW r \in DOMAIN turns, NEW at,
           Moved(r, at, turns[r].response), at \notin {"identity", "prepare", "tool"},
           at = "start" => turns[r].at = "identity", at \in AtWork => turns[r].at \in AtWork,
           at \notin {"end", "finish"} => turns[r].at \notin {"end", "finish"}
    PROVE  Onward /\ Steady
  <1>1. /\ DOMAIN turns' = DOMAIN turns /\ turns'[r].at = at /\ turns'[r].response = turns[r].response
        /\ \A q \in DOMAIN turns : q # r => turns'[q] = turns[q]
    BY MovedTyped
  <1>2. requests <= requests'  BY BoundsTyped DEF TypeOK
  <1>3. Onward  BY <1>1, <1>2 DEF Onward, NoneQueued
  <1>4. Steady  BY <1>1 DEF Steady, AtWork, Begins
  <1>. QED  BY <1>3, <1>4

\* A step that drops turns leaves the remaining ones linked.
LEMMA FewerIdle ==
    ASSUME TypeOK, NoneQueued, requests' = requests, DOMAIN turns' \subseteq DOMAIN turns,
           \A q \in DOMAIN turns' : Kept(turns'[q], turns[q])
    PROVE  Onward /\ Steady
  <1>1. requests <= requests'  BY BoundsTyped DEF TypeOK
  <1>2. Onward  BY <1>1 DEF Onward, NoneQueued, Kept
  <1>3. Steady  BY DEF Steady, Kept, AtWork, Begins
  <1>. QED  BY <1>2, <1>3

\* A turn that is over leaves the remaining ones linked.
LEMMA OverIdle ==
    ASSUME TypeOK, NoneQueued, requests' = requests, NEW r \in DOMAIN turns, Vanish(r)
    PROVE  Onward /\ Steady
  <1>1. DOMAIN turns' \subseteq DOMAIN turns /\ \A q \in DOMAIN turns' : Kept(turns'[q], turns[q])
    BY VanishTyped DEF Kept
  <1>. QED  BY <1>1, FewerIdle

\* Identity keeps the invariant.
LEMMA IdentityKeeps ==
    ASSUME IInv, NEW r \in DOMAIN turns, Identity(r)
    PROVE  IInv'
  <1>1. TypeOK' /\ Honestly' /\ Numbered' /\ Once' /\ NoneQueued
    BY IdentityTyped, IdentityHonest DEF IInv
  <1>2. UNCHANGED <<conv, history, mail, tools, approved, requests>>
    BY DEF Identity, store
  <1>3. CASE Over(r)
    BY <1>1, <1>2, <1>3, OverIdle, IdleLinked DEF IInv, Idle, Over
  <1>4. CASE turns' = [turns EXCEPT ![r].at = "start"]
    <2>1. turns[r] \in Turn /\ turns[r].response \in Message /\ turns[r].view \in Seq(Message)
      BY TurnFields DEF TypeOK, IInv
    <2>2. turns' = [turns EXCEPT ![r] = [turns[r] EXCEPT !.at = "start"]] /\ TypeOK
      BY <1>4 DEF IInv
    <2>3. Moved(r, "start", turns[r].response)
      BY <2>1, <2>2, MovesSo DEF TurnAt
    <2>4. turns[r].at = "identity"  BY DEF Identity
    <2>5. Onward /\ Steady
      BY <1>1, <1>2, <2>2, <2>3, <2>4, MovedIdle DEF AtWork
    <2>. QED  BY <1>1, <1>2, <2>5, IdleLinked DEF IInv, Idle
  <1>. QED  BY <1>3, <1>4 DEF Identity

\* Abort keeps the invariant.
LEMMA AbortKeeps ==
    ASSUME IInv, NEW r \in DOMAIN turns, Abort(r)
    PROVE  IInv'
  <1>1. TypeOK /\ TypeOK' /\ Honestly' /\ Numbered' /\ Once' /\ NoneQueued
    BY AbortTyped, AbortHonest DEF IInv
  <1>2. UNCHANGED <<conv, history, mail, tools, approved, requests>>
    BY DEF Abort, store, chat
  <1>3. turns[r].at \in {"model", "tool"} /\ Moved(r, "save", turns[r].response)
    BY <1>1, AbortDoes
  <1>4. Onward /\ Steady  BY <1>1, <1>2, <1>3, MovedIdle DEF AtWork
  <1>. QED  BY <1>1, <1>2, <1>4, IdleLinked DEF IInv, Idle

\* StopWhen keeps the invariant.
LEMMA StopWhenKeeps ==
    ASSUME IInv, NEW r \in DOMAIN turns, StopWhen(r)
    PROVE  IInv'
  <1>1. TypeOK /\ TypeOK' /\ Honestly' /\ Numbered' /\ Once' /\ NoneQueued
    BY StopWhenTyped, StopWhenHonest DEF IInv
  <1>2. UNCHANGED <<history, mail, tools, approved, requests>> /\ conv' = Renewed(r)
    BY DEF StopWhen, chat
  <1>3. turns[r].at = "stopWhen" /\ \E at \in {"model", "save"} : Moved(r, at, turns[r].response)
    BY <1>1, StopWhenDoes
  <1>4. Onward /\ Steady  BY <1>1, <1>2, <1>3, MovedIdle DEF AtWork
  <1>5. conv'.owner = conv.owner  BY <1>1, <1>2, ConvTyped DEF Renewed
  <1>. QED  BY <1>1, <1>2, <1>4, <1>5, IdleLinked DEF IInv, Idle

\* End keeps the invariant.
LEMMA EndKeeps ==
    ASSUME IInv, NEW r \in DOMAIN turns, End(r)
    PROVE  IInv'
  <1>1. TypeOK /\ TypeOK' /\ Honestly' /\ Numbered' /\ Once' /\ NoneQueued
    BY EndTyped, EndHonest DEF IInv
  <1>2. UNCHANGED <<conv, history, mail, tools, approved, requests>>
    BY DEF End, store
  <1>3. Over(r) \/ Moved(r, "finish", turns[r].response)  BY <1>1, EndDoes
  <1>4. Onward /\ Steady
    <2>1. CASE Over(r)  BY <1>1, <1>2, <2>1, OverIdle DEF Over
    <2>2. CASE Moved(r, "finish", turns[r].response)
      BY <1>1, <1>2, <2>2, MovedIdle DEF AtWork
    <2>. QED  BY <1>3, <2>1, <2>2
  <1>. QED  BY <1>1, <1>2, <1>4, IdleLinked DEF IInv, Idle

\* Finish keeps the invariant.
LEMMA FinishKeeps ==
    ASSUME IInv, NEW r \in DOMAIN turns, Finish(r)
    PROVE  IInv'
  <1>1. TypeOK /\ TypeOK' /\ Honestly' /\ Numbered' /\ Once' /\ NoneQueued
    BY FinishTyped, FinishHonest DEF IInv
  <1>2. UNCHANGED <<history, mail, tools, approved, requests>> /\ conv' = Released(r) /\ Vanish(r)
    BY DEF Finish, Over
  <1>3. Onward /\ Steady  BY <1>1, <1>2, OverIdle
  <1>4. conv'.owner \in {conv.owner, 0}  BY <1>1, <1>2, ConvTyped DEF Released
  <1>. QED  BY <1>1, <1>2, <1>3, <1>4, IdleLinked DEF IInv, Idle

\* Throw keeps the invariant.
LEMMA ThrowKeeps ==
    ASSUME IInv, NEW r \in DOMAIN turns, Throw(r)
    PROVE  IInv'
  <1>1. TypeOK /\ TypeOK' /\ Honestly' /\ Numbered' /\ Once' /\ NoneQueued
    BY ThrowTyped, ThrowHonest DEF IInv
  <1>2. UNCHANGED <<conv, history, mail, tools, approved, requests>>
    BY DEF Throw, store
  <1>3. Over(r) \/ Moved(r, "finish", turns[r].response)  BY <1>1, ThrowDoes
  <1>4. Onward /\ Steady
    <2>1. CASE Over(r)  BY <1>1, <1>2, <2>1, OverIdle DEF Over
    <2>2. CASE Moved(r, "finish", turns[r].response)
      BY <1>1, <1>2, <2>2, MovedIdle DEF AtWork
    <2>. QED  BY <1>3, <2>1, <2>2
  <1>. QED  BY <1>1, <1>2, <1>4, IdleLinked DEF IInv, Idle

\* Crash keeps the invariant.
LEMMA CrashKeeps ==
    ASSUME IInv, NEW r \in DOMAIN turns, Crash(r)
    PROVE  IInv'
  <1>1. TypeOK /\ TypeOK' /\ Honestly' /\ Numbered' /\ Once' /\ NoneQueued
    BY CrashTyped, CrashHonest DEF IInv
  <1>2. UNCHANGED <<conv, history, mail, approved, requests>> /\ Vanish(r)
    BY DEF Crash, store
  <1>3. \A q \in Run : tools'[q] = tools[q] \/ tools'[q] = NoTool
    BY <1>1 DEF Crash, TypeOK
  <1>4. Onward /\ Steady  BY <1>1, <1>2, OverIdle
  <1>. QED  BY <1>1, <1>2, <1>3, <1>4, IdleLinked DEF IInv, Idle

\* Lapse keeps the invariant.
LEMMA LapseKeeps ==
    ASSUME IInv, Lapse
    PROVE  IInv'
  <1>1. TypeOK /\ TypeOK'  BY LapseTyped DEF IInv
  <1>2. UNCHANGED <<history, mail, tools, chat>> /\ conv' = [conv EXCEPT !.lapsed = TRUE]
    BY DEF Lapse
  <1>3. DOMAIN turns' = DOMAIN turns /\ \A q \in DOMAIN turns : Kept(turns'[q], turns[q])
    <2>1. \A q \in DOMAIN turns : /\ turns[q] \in Turn /\ Kept([turns[q] EXCEPT !.lapsed = TRUE], turns[q])
                                  /\ Kept(turns[q], turns[q])
      BY <1>1, TurnTyped DEF TypeOK, Kept
    <2>. QED  BY <2>1 DEF Lapse
  <1>4. Honestly' /\ Numbered' /\ Once' /\ NoneQueued
    BY <1>1, <1>2, <1>3, AsideHonest DEF IInv
  <1>5. requests' = requests /\ approved' = approved  BY <1>2 DEF chat
  <1>6. Onward /\ Steady  BY <1>1, <1>3, <1>4, <1>5, FewerIdle
  <1>7. conv'.owner = conv.owner  BY <1>1, <1>2, ConvTyped
  <1>. QED  BY <1>1, <1>2, <1>4, <1>5, <1>6, <1>7, IdleLinked DEF IInv, Idle

\* Delete keeps the invariant.
LEMMA DeleteKeeps ==
    ASSUME IInv, Delete
    PROVE  IInv'
  <1>1. TypeOK /\ TypeOK'  BY DeleteTyped DEF IInv
  <1>2. /\ UNCHANGED <<mail, tools, turns, chat>> /\ history' = <<>>
        /\ conv' = [conv EXCEPT !.exists = FALSE, !.owner = 0, !.lapsed = FALSE]
    BY DEF Delete
  <1>3. DOMAIN turns' = DOMAIN turns /\ \A q \in DOMAIN turns : Kept(turns'[q], turns[q])
    BY <1>2 DEF Kept
  <1>4. Honestly' /\ Numbered' /\ Once' /\ NoneQueued
    BY <1>1, <1>2, <1>3, AsideHonest DEF IInv
  <1>5. requests' = requests /\ approved' = approved  BY <1>2 DEF chat
  <1>6. Onward /\ Steady  BY <1>1, <1>3, <1>4, <1>5, FewerIdle
  <1>7. conv'.owner = 0  BY <1>1, <1>2, ConvTyped
  <1>. QED  BY <1>1, <1>2, <1>4, <1>5, <1>6, <1>7, IdleLinked DEF IInv, Idle

\* SignOut keeps the invariant.
LEMMA SignOutKeeps ==
    ASSUME IInv, SignOut
    PROVE  IInv'
  <1>1. TypeOK /\ TypeOK'  BY SignOutTyped DEF IInv
  <1>2. UNCHANGED <<store, mail, tools, turns, chat>>  BY DEF SignOut
  <1>3. /\ DOMAIN turns' = DOMAIN turns /\ \A q \in DOMAIN turns : Kept(turns'[q], turns[q])
        /\ UNCHANGED <<conv, history>>
    BY <1>2 DEF Kept, store
  <1>4. Honestly' /\ Numbered' /\ Once' /\ NoneQueued
    BY <1>1, <1>2, <1>3, AsideHonest DEF IInv
  <1>5. requests' = requests /\ approved' = approved  BY <1>2 DEF chat
  <1>6. Onward /\ Steady  BY <1>1, <1>3, <1>4, <1>5, FewerIdle
  <1>. QED  BY <1>1, <1>2, <1>3, <1>4, <1>5, <1>6, IdleLinked DEF IInv, Idle

\* What is stored after a message is saved.
LEMMA SavedHistory ==
    ASSUME TypeOK, NEW m \in Message, history' = Saved(m)
    PROVE  /\ \A k \in DOMAIN history' :
                 history'[k] = m \/ (k \in DOMAIN history /\ history'[k] = history[k])
           /\ \A k \in DOMAIN history :
                 /\ k \in DOMAIN history' /\ history'[k].id = history[k].id
                 /\ history[k].id # m.id => history'[k] = history[k]
                 /\ history[k].id = m.id => history'[k] = m
           /\ \E k \in DOMAIN history' : history'[k] = m
  <1> DEFINE s == Saved(m)
  <1>1. /\ \E n \in DOMAIN s : s[n] = m
        /\ \A n \in DOMAIN s :
              s[n] = m \/ (n \in DOMAIN history /\ s[n] = history[n])
        /\ \A n \in DOMAIN history :
              /\ n \in DOMAIN s /\ s[n].id = history[n].id
              /\ history[n].id # m.id => s[n] = history[n]
              /\ history[n].id = m.id => s[n] = m
    BY SavedIs DEF TypeOK
  <1>2. history' = s  OBVIOUS
  <1>. HIDE DEF s
  <1>. QED  BY <1>1, <1>2

\* A turn at work is numbered once and has claimed.
LEMMA Claimed ==
    ASSUME TypeOK, TypeOK', Numbered', NEW r \in DOMAIN turns', turns'[r].at \notin {"identity", "start"}
    PROVE  r \in Run /\ ~Unclaimed(r)' /\ ~Queued(r)' /\ r # 0
  <1>1. r \in Run /\ r # 0 /\ r \in Nat /\ requests' \in Nat
    <2>1. DOMAIN turns' \subseteq Run /\ requests' \in 0 .. MaxRequests
      BY DEF TypeOK
    <2>2. requests' \in Nat  BY <2>1, BoundsTyped
    <2>3. r \in Run  BY <2>1
    <2>. QED  BY <2>2, <2>3, BoundsTyped
  <1>2. r <= requests' /\ ~Queued(r)'  BY DEF Numbered
  <1>3. ~(r > requests')  BY <1>1, <1>2
  <1>. QED  BY <1>1, <1>2, <1>3 DEF Unclaimed

\* One turn that moves on, away from its first phases, leaves the runs as they were.
LEMMA MovedOnward ==
    ASSUME TypeOK, NoneQueued, requests' = requests, NEW r \in DOMAIN turns,
           DOMAIN turns' = DOMAIN turns, turns'[r].at \notin {"identity", "start"},
           turns[r].at \notin {"end", "finish"}, \A q \in DOMAIN turns : q # r => turns'[q] = turns[q]
    PROVE  Onward
  <1>1. requests <= requests'  BY BoundsTyped DEF TypeOK
  <1>. QED  BY <1>1 DEF Onward, NoneQueued

\* Start keeps the invariant.
LEMMA StartKeeps ==
    ASSUME IInv, NEW r \in DOMAIN turns, Start(r)
    PROVE  IInv' /\ Stands
  <1>1. TypeOK /\ TypeOK' /\ Honestly' /\ Numbered' /\ Once' /\ NoneQueued
    BY StartTyped, StartHonest DEF IInv
  <1>2. UNCHANGED <<mail, tools, approved, requests>> /\ turns[r].at = "start" /\ r \in Run
    BY <1>1 DEF Start, TypeOK
  <1>3. CASE ~Claims(r)
    <2>1. Over(r) /\ UNCHANGED <<conv, history>>
      BY <1>1, <1>3, StartDoes DEF store
    <2>2. Onward /\ Steady  BY <1>1, <1>2, <2>1, OverIdle DEF Over
    <2>. QED  BY <1>1, <1>2, <2>1, <2>2, IdleLinked, SameStands DEF IInv, Idle
  <1>4. CASE Claims(r)
    <2>1. /\ conv' = [exists |-> TRUE, owner |-> r, lapsed |-> FALSE, claims |-> conv.claims + 1]
          /\ \/ /\ turns[r].frame.type = "message"
                /\ \E m \in Message : m.id = turns[r].frame.id /\ m.send = "none" /\ history' = Saved(m)
             \/ history' = history
          /\ \E t \in Turn : /\ turns' = [turns EXCEPT ![r] = t]
                             /\ t.at = "prepare" /\ t.view = history' /\ t.frame = turns[r].frame
                             /\ t.response = turns[r].response
      BY <1>1, <1>4, StartDoes
    <2>2. PICK t \in Turn : /\ turns' = [turns EXCEPT ![r] = t]
                            /\ t.at = "prepare" /\ t.view = history'
                            /\ t.response = turns[r].response
      BY <2>1
    <2>3. /\ DOMAIN turns' = DOMAIN turns /\ turns'[r].at = "prepare" /\ turns'[r].view = history'
          /\ turns'[r].response = turns[r].response
          /\ \A q \in DOMAIN turns : q # r => turns'[q] = turns[q]
      BY <1>1, <2>2, OneTurnTyped
    <2>4. conv'.owner = r  BY <2>1
    <2>5. Onward  BY <1>1, <1>2, <2>3, MovedOnward
    <2>6. \A q \in Run : (Unclaimed(q)' => Unclaimed(q)) /\ (Writing(q)' => Writing(q))
      BY <1>1, <2>5, OnwardIs
    <2>7. ~Unclaimed(r)'  BY <1>1, <2>3, Claimed
    <2>8. \A k \in DOMAIN history' : history'[k].id \in Call =>
             k \in DOMAIN history /\ history'[k] = history[k]
      <3>1. CASE history' = history  BY <3>1
      <3>2. CASE /\ turns[r].frame.type = "message"
                 /\ \E m \in Message : m.id = turns[r].frame.id /\ m.send = "none" /\ history' = Saved(m)
        <4>1. PICK m \in Message : m.id = turns[r].frame.id /\ history' = Saved(m)
          BY <3>2
        <4>2. m.id \notin Call  BY <3>2, <4>1 DEF IInv, Honestly, Truthful
        <4>. QED  BY <1>1, <4>1, <4>2, SavedHistory
      <3>. QED  BY <2>1, <3>1, <3>2
    <2>9. \A i \in Call : Authorized(i)' => Authorized(i)
      BY <1>2 DEF Authorized, mail
    <2>10. Untouched'  BY <1>2, <2>4, <2>6, <2>7 DEF IInv, Linked, Untouched
    <2>11. Fresh'  BY <1>2, <2>3 DEF IInv, Linked, Fresh, Begins
    <2>12. Viewed'  BY <2>3, <2>4 DEF Viewed, Owns
    <2>13. Answered'  BY <2>3, <2>4 DEF Answered, Owns, AtWork
    <2>14. Resumable'  BY <1>2, <2>3 DEF IInv, Linked, Resumable
    <2>15. Approved'  BY <1>2, <2>8, <2>9 DEF IInv, Linked, Approved
    <2>16. Unasked'
      <3>1. \A q \in Run : <<"agent", q>> \in Call
        BY BoundsTyped, ConstantsTyped
      <3>. QED  BY <2>6, <2>8, <2>9, <3>1 DEF IInv, Linked, Unasked
    <2>17. Sending' /\ Equipped'
      BY <1>2 DEF IInv, Linked, Sending, Equipped, mail
    <2>18. Overtaken'
      <3>1. Unclaimed(r)  BY <1>2 DEF Unclaimed
      <3>2. tools[r].late = 0  BY <1>2, <3>1 DEF IInv, Linked, Untouched, NoTool
      <3>. QED  BY <1>2, <2>4, <3>2 DEF IInv, Linked, Overtaken
    <2>19. Stands
      <3>1. \A k \in DOMAIN history : history[k].id \notin Call => history[k].send = "none"
        BY DEF IInv, Honestly, Honest
      <3>2. \A x : SameSide(x, x) /\ SameSide("none", x)
        BY DEF SameSide, Yes, No
      <3>. QED  BY <2>8, <3>1, <3>2 DEF Stands
    <2>. QED  BY <1>1, <2>10, <2>11, <2>12, <2>13, <2>14, <2>15, <2>16, <2>17, <2>18, <2>19 DEF IInv, Linked
  <1>. QED  BY <1>3, <1>4

\* A turn works on: what a step that keeps the mail leaves as it is.
LEMMA WorksOn ==
    ASSUME TypeOK, TypeOK', Linked, Numbered', NoneQueued, UNCHANGED <<mail, requests, approved>>,
           NEW r \in DOMAIN turns, NEW at, NEW m, Moved(r, at, m), at \notin Begins,
           turns[r].at \notin {"end", "finish"},
           \A q \in Run : q # r => tools'[q] = tools[q], conv'.owner \in {conv.owner, 0},
           history' = history \/ Owns(r)
    PROVE  /\ Untouched' /\ Fresh' /\ Viewed'
           /\ \A q \in Run : Writing(q)' => Writing(q)
           /\ \A q \in DOMAIN turns : q # r => turns'[q] = turns[q]
           /\ DOMAIN turns' = DOMAIN turns /\ turns'[r].at = at /\ turns'[r].response = m
           /\ r \in Run /\ ~Queued(r)'
  <1>1. /\ DOMAIN turns' = DOMAIN turns /\ turns'[r].at = at /\ turns'[r].response = m
        /\ \A q \in DOMAIN turns : q # r => turns'[q] = turns[q]
    BY MovedTyped
  <1>2. turns'[r].at \notin {"identity", "start"} /\ r \in DOMAIN turns'
    BY <1>1 DEF Begins
  <1>3. Onward  BY <1>1, <1>2, MovedOnward
  <1>4. \A q \in Run : (Unclaimed(q)' => Unclaimed(q)) /\ (Writing(q)' => Writing(q))
    BY <1>3, OnwardIs
  <1>5. r \in Run /\ ~Unclaimed(r)' /\ ~Queued(r)'  BY <1>2, Claimed
  <1>6. \A q \in Run : q # 0  BY BoundsTyped
  <1>7. Untouched'  BY <1>4, <1>5, <1>6 DEF Linked, Untouched
  <1>8. Fresh'  BY <1>1 DEF Linked, Fresh
  <1>9. Viewed'
    <2>1. ASSUME NEW q \in DOMAIN turns', turns'[q].at = "prepare", conv'.owner = q
          PROVE  turns'[q].view = history'
      <3>1. q # r /\ q # 0 /\ q \in Run  BY <1>1, <1>6, <2>1 DEF Begins, TypeOK
      <3>2. conv.owner = q /\ turns'[q] = turns[q] /\ history' = history
        BY <1>1, <2>1, <3>1 DEF Owns
      <3>. QED  BY <1>1, <2>1, <3>2 DEF Linked, Viewed, Owns
    <2>. QED  BY <2>1 DEF Viewed, Owns
  <1>. QED  BY <1>1, <1>4, <1>5, <1>7, <1>8, <1>9

\* A preparation that stores a decision on an open request.
LEMMA PrepareDecides ==
    ASSUME IInv, TypeOK', Honestly', Numbered', Once', NoneQueued, NEW r \in DOMAIN turns,
           turns[r].at = "prepare", UNCHANGED <<mail, requests, approved>>, Decides(r)
    PROVE  IInv' /\ Stands
  <1> DEFINE n == Len(turns[r].view)
  <1>1. /\ TypeOK /\ Linked /\ turns[r].frame.type = "approval" /\ n > 0 /\ Owns(r)
        /\ Decidable(turns[r].view[n], turns[r].frame)
    BY DEF IInv, Decides, Stores
  <1>2. turns[r].view = history /\ history \in Seq(Message)
    BY <1>1 DEF Linked, Viewed, TypeOK
  <1>3. n \in DOMAIN history  BY <1>1, <1>2
  <1>4. /\ history[n].id \in Call /\ history[n].id = turns[r].frame.id
        /\ turns[r].frame.approve => history[n].id \in approved
        /\ ~turns[r].frame.approve => history[n].send \in {"requested", "declined"}
    <2>1. Honest(history[n], approved) /\ Truthful(turns[r].frame, approved)
      BY <1>3 DEF IInv, Honestly
    <2>. QED  BY <1>1, <1>2, <2>1 DEF Honest, Truthful, Decidable
  <1>5. PICK m \in Message :
             /\ Stores(r, m) /\ m.id = turns[r].view[n].id
             /\ \/ /\ turns[r].frame.approve /\ m.send = "approved" /\ Moved(r, "tool", m)
                   /\ tools' = [tools EXCEPT ![r] = [NoTool EXCEPT !.at = "check", !.call = m.id]]
                \/ /\ ~turns[r].frame.approve /\ m.send = "declined"
                   /\ \E d \in Message : d.id = m.id /\ d.send = "denied" /\ Moved(r, "model", d)
                   /\ UNCHANGED tools
    BY DEF Decides
  <1>. HIDE DEF n
  <1>6. m.id = history[n].id /\ m.id \in Call /\ m.id \in Id
    BY <1>2, <1>4, <1>5, MessageTyped
  <1>7. conv' = [conv EXCEPT !.lapsed = FALSE] /\ conv'.owner = conv.owner /\ conv.owner = r
    BY <1>1, <1>5, ConvTyped DEF Stores, Owns
  <1>8. /\ \A k \in DOMAIN history' :
              history'[k] = m \/ (k \in DOMAIN history /\ history'[k] = history[k])
        /\ \A k \in DOMAIN history :
              /\ k \in DOMAIN history' /\ history'[k].id = history[k].id
              /\ history[k].id # m.id => history'[k] = history[k]
              /\ history[k].id = m.id => history'[k] = m
        /\ \E k \in DOMAIN history' : history'[k] = m
    BY <1>1, <1>5, SavedHistory DEF Stores
  <1>9. \A k \in DOMAIN history' :
           \/ history'[k] = m
           \/ k \in DOMAIN history /\ history'[k] = history[k] /\ history[k].id # m.id
    BY <1>8
  <1>10. \A k \in DOMAIN history' : \E l \in DOMAIN history : history'[k].id = history[l].id
    BY <1>3, <1>6, <1>8
  <1>11. r \in Run /\ \A q \in Run : q # r => tools'[q] = tools[q]
    BY <1>1, <1>5 DEF TypeOK
  <1>12. PICK at \in {"tool", "model"}, d \in Message :
             /\ Moved(r, at, d) /\ d.id = m.id
             /\ m.send = "approved" => d.send = "approved"
             /\ m.send = "declined" => d.send = "denied"
             /\ m.send \in {"approved", "declined"}
             /\ at = "tool" => m.send = "approved"
    BY <1>5
  <1>13. conv'.owner \in {conv.owner, 0} /\ (history' = history \/ Owns(r)) /\ at \notin Begins
    BY <1>1, <1>7, <1>12 DEF Begins
  <1>14. /\ Untouched' /\ Fresh' /\ Viewed'
         /\ \A q \in Run : Writing(q)' => Writing(q)
         /\ \A q \in DOMAIN turns : q # r => turns'[q] = turns[q]
         /\ DOMAIN turns' = DOMAIN turns /\ turns'[r].at = at /\ turns'[r].response = d
    BY <1>1, <1>11, <1>12, <1>13, WorksOn
  <1>15. Answered'
    <2>1. SameSide(m.send, d.send)  BY <1>12 DEF SameSide, Yes, No
    <2>2. \E k \in DOMAIN history' : history'[k].id = d.id /\ SameSide(history'[k].send, d.send)
      BY <1>8, <1>12, <2>1
    <2>. QED  BY <1>7, <1>14, <2>2 DEF Answered, Owns
  <1>16. Resumable'
    <2>1. at = "tool" => d.send = "approved"  BY <1>12
    <2>2. \A q \in DOMAIN turns : q \in Run  BY <1>1 DEF TypeOK
    <2>. QED  BY <1>1, <1>11, <1>14, <2>1, <2>2 DEF Linked, Resumable
  <1>17. tools'[r] = tools[r] \/ (tools'[r].call = m.id /\ tools'[r].at = "check" /\ tools'[r].late = 0)
    <2>1. CASE UNCHANGED tools  BY <2>1
    <2>2. CASE tools' = [tools EXCEPT ![r] = [NoTool EXCEPT !.at = "check", !.call = m.id]]
      <3> DEFINE t == [NoTool EXCEPT !.at = "check", !.call = m.id]
      <3>1. t.call = m.id /\ t.at = "check" /\ t.late = 0
        BY <1>1, <1>6, <1>11, NoToolTyped
      <3>2. tools' = [tools EXCEPT ![r] = t] /\ tools \in [Run -> Tool]
        BY <1>1, <2>2 DEF TypeOK
      <3>. HIDE DEF t
      <3>3. tools'[r] = t  BY <1>11, <3>2
      <3>. QED  BY <3>1, <3>3
    <2>. QED  BY <1>5, <2>1, <2>2
  <1>18. \A i \in Call : Authorized(i)' => Authorized(i) \/ (i = m.id /\ m.send = "approved")
    <2>1. CASE m.send = "approved"  BY <1>11, <1>17, <2>1 DEF Authorized, mail
    <2>2. CASE UNCHANGED tools  BY <2>2 DEF Authorized, mail
    <2>. QED  BY <1>5, <2>1, <2>2
  <1>19. Approved'
    <2>1. ASSUME NEW i \in Call, Authorized(i)'
          PROVE  i \in approved' /\ \A k \in DOMAIN history' : history'[k].id = i => history'[k].send \in Yes
      <3>1. CASE i = m.id /\ m.send = "approved"
        <4>1. i \in approved'  BY <1>4, <1>5, <1>6, <3>1
        <4>. QED  BY <1>9, <3>1, <4>1 DEF Yes
      <3>2. CASE Authorized(i)
        <4>1. i \in approved' /\ \A k \in DOMAIN history : history[k].id = i => history[k].send \in Yes
          BY <1>1, <3>2 DEF Linked, Approved
        <4>2. i = m.id => m.send = "approved"
          <5>1. history[n].send \in Yes => history[n].send \notin {"requested", "declined"}
            BY DEF Yes
          <5>. QED  BY <1>3, <1>4, <1>5, <1>6, <4>1, <5>1
        <4>. QED  BY <1>9, <4>1, <4>2 DEF Yes
      <3>. QED  BY <1>18, <2>1, <3>1, <3>2
    <2>. QED  BY <2>1 DEF Approved
  <1>20. Unasked'
    <2>1. \A q \in Run : <<"agent", q>> \in Call  BY BoundsTyped, ConstantsTyped
    <2>2. \A q \in Run : Writing(q) => \A k \in DOMAIN history : history[k].id # <<"agent", q>>
      BY <1>1 DEF Linked, Unasked
    <2>3. \A q \in Run : Writing(q) => ~Authorized(<<"agent", q>>)
      BY <1>1 DEF Linked, Unasked
    <2>4. \A q \in Run : Writing(q) => m.id # <<"agent", q>>
      BY <1>3, <1>6, <2>2
    <2>5. \A q \in Run : Writing(q)' => ~Authorized(<<"agent", q>>)'
      BY <1>14, <1>18, <2>1, <2>3, <2>4
    <2>6. \A q \in Run : Writing(q)' => \A k \in DOMAIN history' : history'[k].id # <<"agent", q>>
      BY <1>10, <1>14, <2>2
    <2>. QED  BY <2>5, <2>6 DEF Unasked
  <1>21. Sending'  BY <1>1, <1>11, <1>17 DEF Linked, Sending, mail
  <1>22. Equipped'  BY <1>1, <1>6, <1>11, <1>17 DEF Linked, Equipped
  <1>23. Overtaken'  BY <1>1, <1>7, <1>11, <1>17 DEF Linked, Overtaken
  <1>24. Stands
    <2>1. SameSide(history[n].send, m.send)
      BY <1>1, <1>2, <1>5 DEF SameSide, Yes, No, Decidable, n
    <2>2. \A k \in DOMAIN history : history[k].id = history[n].id => k = n
      BY <1>1, <1>3 DEF TypeOK, IsInjective
    <2>3. \A x : SameSide(x, x)  BY DEF SameSide
    <2>. QED  BY <1>6, <1>8, <2>1, <2>2, <2>3 DEF Stands
  <1>. QED  BY <1>14, <1>15, <1>16, <1>19, <1>20, <1>21, <1>22, <1>23, <1>24 DEF IInv, Linked

\* A preparation that declines the requests left open.
LEMMA PrepareCloses ==
    ASSUME IInv, TypeOK', Honestly', Numbered', Once', NoneQueued, NEW r \in DOMAIN turns,
           turns[r].at = "prepare", UNCHANGED <<mail, requests, approved>>, Closes(r)
    PROVE  IInv' /\ Stands
  <1> DEFINE n == Len(turns[r].view) - 1
  <1>1. /\ TypeOK /\ Linked /\ n > 0 /\ Owns(r) /\ turns[r].view[n].send \in OpenApproval
        /\ Moved(r, "model", NoMessage) /\ UNCHANGED tools
    <2>1. Len(turns[r].view) \in Nat  BY TurnFields DEF IInv, TypeOK
    <2>. QED  BY <2>1 DEF IInv, Closes, Stores
  <1>2. turns[r].view = history /\ history \in Seq(Message)
    BY <1>1 DEF Linked, Viewed, TypeOK
  <1>3. n \in DOMAIN history  BY <1>1, <1>2
  <1>4. history[n].id \in Call
    BY <1>1, <1>2, <1>3 DEF IInv, Honestly, Honest, OpenApproval
  <1>5. PICK m \in Message :
             /\ Stores(r, m) /\ m.id = turns[r].view[n].id
             /\ m.send = IF turns[r].view[n].send = "approved" THEN "unconfirmed" ELSE "denied"
    BY DEF Closes
  <1>. HIDE DEF n
  <1>6. m.id = history[n].id  BY <1>2, <1>5
  <1>7. conv'.owner = conv.owner /\ conv.owner = r
    BY <1>1, <1>5, ConvTyped DEF Stores, Owns
  <1>8. /\ \A k \in DOMAIN history' :
              history'[k] = m \/ (k \in DOMAIN history /\ history'[k] = history[k])
        /\ \A k \in DOMAIN history :
              /\ k \in DOMAIN history' /\ history'[k].id = history[k].id
              /\ history[k].id # m.id => history'[k] = history[k]
              /\ history[k].id = m.id => history'[k] = m
    BY <1>1, <1>5, SavedHistory DEF Stores
  <1>9. \A k \in DOMAIN history' : \E l \in DOMAIN history : history'[k].id = history[l].id
    BY <1>3, <1>6, <1>8
  <1>10. conv'.owner \in {conv.owner, 0} /\ (history' = history \/ Owns(r)) /\ "model" \notin Begins
    BY <1>1, <1>7 DEF Begins
  <1>11. /\ Untouched' /\ Fresh' /\ Viewed'
         /\ \A q \in Run : Writing(q)' => Writing(q)
         /\ \A q \in DOMAIN turns : q # r => turns'[q] = turns[q]
         /\ DOMAIN turns' = DOMAIN turns /\ turns'[r].at = "model" /\ turns'[r].response = NoMessage
    BY <1>1, <1>10, WorksOn
  <1>12. SameSide(history[n].send, m.send)
    BY <1>1, <1>2, <1>5 DEF SameSide, Yes, No, OpenApproval
  <1>13. Answered'  BY <1>7, <1>11, ConstantsTyped DEF Answered, Owns
  <1>14. Resumable'  BY <1>1, <1>11 DEF Linked, Resumable
  <1>15. \A i \in Call : Authorized(i)' => Authorized(i)
    BY <1>1 DEF Authorized, mail
  <1>16. Approved'
    <2>1. ASSUME NEW i \in Call, Authorized(i)', NEW k \in DOMAIN history', history'[k].id = i
          PROVE  history'[k].send \in Yes
      <3>1. \A l \in DOMAIN history : history[l].id = i => history[l].send \in Yes
        BY <1>1, <1>15, <2>1 DEF Linked, Approved
      <3>2. CASE history'[k] = m
        BY <1>3, <1>6, <1>12, <2>1, <3>1, <3>2 DEF SameSide
      <3>3. CASE k \in DOMAIN history /\ history'[k] = history[k]
        BY <2>1, <3>1, <3>3
      <3>. QED  BY <1>8, <3>2, <3>3
    <2>. QED  BY <1>1, <1>15, <2>1 DEF Linked, Approved
  <1>17. Unasked'
    <2>1. \A q \in Run : <<"agent", q>> \in Call  BY BoundsTyped, ConstantsTyped
    <2>. QED  BY <1>1, <1>9, <1>11, <1>15, <2>1 DEF Linked, Unasked
  <1>18. Sending' /\ Equipped'  BY <1>1 DEF Linked, Sending, Equipped, mail
  <1>19. Overtaken'  BY <1>1, <1>7 DEF Linked, Overtaken
  <1>20. Stands
    <2>1. \A k \in DOMAIN history : history[k].id = history[n].id => k = n
      BY <1>1, <1>3 DEF TypeOK, IsInjective
    <2>2. \A x : SameSide(x, x)  BY DEF SameSide
    <2>. QED  BY <1>6, <1>8, <1>12, <2>1, <2>2 DEF Stands
  <1>. QED  BY <1>11, <1>13, <1>14, <1>16, <1>17, <1>18, <1>19, <1>20 DEF IInv, Linked

\* Prepare keeps the invariant.
LEMMA PrepareKeeps ==
    ASSUME IInv, NEW r \in DOMAIN turns, Prepare(r)
    PROVE  IInv' /\ Stands
  <1>1. TypeOK /\ TypeOK' /\ Honestly' /\ Numbered' /\ Once' /\ NoneQueued
    BY PrepareTyped, PrepareHonest DEF IInv, Linked
  <1>2. UNCHANGED <<mail, requests, approved>> /\ turns[r].at = "prepare"
    BY <1>1, PrepareDoes
  <1>3. CASE Decides(r)  BY <1>1, <1>2, <1>3, PrepareDecides
  <1>4. CASE Closes(r)  BY <1>1, <1>2, <1>4, PrepareCloses
  <1>5. CASE Moved(r, "finish", turns[r].response) /\ UNCHANGED <<store, tools>>
    <2>1. UNCHANGED <<conv, history, tools>>  BY <1>5 DEF store
    <2>2. Onward /\ Steady  BY <1>1, <1>2, <1>5, MovedIdle DEF AtWork
    <2>. QED  BY <1>1, <1>2, <2>1, <2>2, IdleLinked, SameStands DEF IInv, Idle
  <1>6. CASE Moved(r, "model", turns[r].response) /\ UNCHANGED <<store, tools>>
    <2>1. UNCHANGED <<conv, history, tools>> /\ Linked  BY <1>6 DEF store, IInv
    <2>2. turns[r].response = NoMessage  BY <1>2, <2>1 DEF Linked, Fresh, Begins
    <2>3. "model" \notin Begins  BY DEF Begins
    <2>4. /\ Untouched' /\ Fresh' /\ Viewed'
          /\ \A q \in Run : Writing(q)' => Writing(q)
          /\ \A q \in DOMAIN turns : q # r => turns'[q] = turns[q]
          /\ DOMAIN turns' = DOMAIN turns /\ turns'[r].at = "model" /\ turns'[r].response = turns[r].response
      BY <1>1, <1>2, <1>6, <2>1, <2>3, WorksOn
    <2>5. Answered'
      BY <2>1, <2>2, <2>4, ConstantsTyped DEF Linked, Answered, Owns
    <2>6. Resumable'  BY <2>1, <2>4 DEF Linked, Resumable
    <2>7. \A i \in Call : Authorized(i)' => Authorized(i)
      BY <1>2, <2>1 DEF Authorized, mail
    <2>8. Approved'  BY <1>2, <2>1, <2>7 DEF Linked, Approved
    <2>9. Unasked'
      <3>1. \A q \in Run : <<"agent", q>> \in Call
        BY BoundsTyped, ConstantsTyped
      <3>. QED  BY <2>1, <2>4, <2>7, <3>1 DEF Linked, Unasked
    <2>10. Sending' /\ Equipped' /\ Overtaken'
      BY <1>2, <2>1 DEF Linked, Sending, Equipped, Overtaken, mail
    <2>. QED  BY <1>1, <2>1, <2>4, <2>5, <2>6, <2>8, <2>9, <2>10, SameStands DEF IInv, Linked
  <1>. QED  BY <1>1, <1>3, <1>4, <1>5, <1>6, PrepareDoes

\* A turn that works on without a call to send leaves what is stored to others.
LEMMA WorksApart ==
    ASSUME TypeOK, TypeOK', Linked, Numbered', NoneQueued,
           UNCHANGED <<mail, requests, approved, conv, history>>,
           NEW r \in DOMAIN turns, NEW at \in AtWork, NEW m, Moved(r, at, m), turns[r].at \in AtWork,
           \A q \in Run : q # r => tools'[q] = tools[q],
           tools'[r] = tools[r] \/ (/\ tools'[r].call = <<"none", 0>> /\ tools'[r].at \in {"none", "check"}
                                    /\ tools'[r].late = tools[r].late),
           at = "tool" => tools'[r].call = <<"none", 0>>,
           Owns(r) => \/ m.id \in {<<"agent", r>>, <<"none", 0>>}
                      \/ \E n \in DOMAIN history : history[n].id = m.id /\ SameSide(history[n].send, m.send)
    PROVE  Linked'
  <1>1. /\ at \notin Begins /\ turns[r].at \notin {"end", "finish"}
        /\ conv'.owner = conv.owner /\ history' = history
    BY DEF AtWork, Begins
  <1>2. /\ Untouched' /\ Fresh' /\ Viewed'
        /\ \A q \in Run : Writing(q)' => Writing(q)
        /\ \A q \in DOMAIN turns : q # r => turns'[q] = turns[q]
        /\ DOMAIN turns' = DOMAIN turns /\ turns'[r].at = at /\ turns'[r].response = m
        /\ r \in Run
    BY <1>1, WorksOn
  <1>3. Answered'  BY <1>1, <1>2 DEF Linked, Answered, Owns
  <1>4. Resumable'
    <2>1. \A q \in DOMAIN turns : q \in Run  BY DEF TypeOK
    <2>. QED  BY <1>2, <2>1 DEF Linked, Resumable
  <1>5. \A i \in Call : Authorized(i)' => Authorized(i)
    <2>1. \A i \in Call : i # <<"none", 0>>  BY ConstantsTyped
    <2>. QED  BY <1>2, <2>1 DEF Authorized, mail
  <1>6. Approved'  BY <1>1, <1>5 DEF Linked, Approved
  <1>7. Unasked'
    <2>1. \A q \in Run : <<"agent", q>> \in Call  BY BoundsTyped, ConstantsTyped
    <2>. QED  BY <1>1, <1>2, <1>5, <2>1 DEF Linked, Unasked
  <1>8. Sending'  BY <1>2 DEF Linked, Sending, mail
  <1>9. Equipped'  BY <1>2, ConstantsTyped DEF Linked, Equipped
  <1>10. Overtaken'  BY <1>1, <1>2 DEF Linked, Overtaken
  <1>. QED  BY <1>2, <1>3, <1>4, <1>6, <1>7, <1>8, <1>9, <1>10 DEF Linked

\* Model keeps the invariant.
LEMMA ModelKeeps ==
    ASSUME IInv, NEW r \in DOMAIN turns, Model(r)
    PROVE  IInv'
  <1>1. TypeOK /\ Linked /\ TypeOK' /\ Honestly' /\ Numbered' /\ Once' /\ NoneQueued
    BY ModelTyped, ModelHonest DEF IInv
  <1>2. UNCHANGED <<mail, requests, approved, conv, history>> /\ turns[r].at = "model" /\ r \in Run
    BY <1>1 DEF Model, store, TypeOK
  <1>3. CASE Moved(r, "save", turns[r].response) /\ UNCHANGED tools
    <2>1. Onward /\ Steady  BY <1>1, <1>2, <1>3, MovedIdle DEF AtWork
    <2>. QED  BY <1>1, <1>2, <1>3, <2>1, IdleLinked DEF IInv, Idle
  <1>4. CASE \E m \in Message :
                /\ Continues(r, m)
                /\ \/ m.send = turns[r].response.send /\ Moved(r, "save", m) /\ UNCHANGED tools
                   \/ /\ turns[r].response.send = "none" /\ m.send = "requested"
                      /\ Moved(r, "save", m) /\ UNCHANGED tools
                   \/ /\ m.send = turns[r].response.send /\ Moved(r, "tool", m)
                      /\ tools' = [tools EXCEPT ![r] = [NoTool EXCEPT !.at = "check", !.late = tools[r].late]]
    <2>1. PICK m \in Message :
                /\ Continues(r, m)
                /\ \/ m.send = turns[r].response.send /\ Moved(r, "save", m) /\ UNCHANGED tools
                   \/ /\ turns[r].response.send = "none" /\ m.send = "requested"
                      /\ Moved(r, "save", m) /\ UNCHANGED tools
                   \/ /\ m.send = turns[r].response.send /\ Moved(r, "tool", m)
                      /\ tools' = [tools EXCEPT ![r] = [NoTool EXCEPT !.at = "check", !.late = tools[r].late]]
      BY <1>4
    <2>2. PICK at \in {"save", "tool"} :
                /\ Moved(r, at, m)
                /\ m.send = turns[r].response.send
                     \/ (turns[r].response.send = "none" /\ m.send = "requested")
                /\ at = "save" => UNCHANGED tools
                /\ at = "tool" =>
                      tools' = [tools EXCEPT ![r] = [NoTool EXCEPT !.at = "check", !.late = tools[r].late]]
      BY <2>1
    <2>3. at \in AtWork /\ turns[r].at \in AtWork  BY <1>2 DEF AtWork
    <2>4. /\ \A q \in Run : q # r => tools'[q] = tools[q]
          /\ \/ at = "save" /\ tools'[r] = tools[r]
             \/ /\ tools'[r].call = <<"none", 0>> /\ tools'[r].at = "check"
                /\ tools'[r].late = tools[r].late
      <3> DEFINE t == [NoTool EXCEPT !.at = "check", !.late = tools[r].late]
      <3>1. t.call = <<"none", 0>> /\ t.at = "check" /\ t.late = tools[r].late
        BY <1>1, <1>2, NoToolTyped
      <3>2. tools \in [Run -> Tool] /\ (at = "tool" => tools' = [tools EXCEPT ![r] = t])
        BY <1>1, <2>2 DEF TypeOK
      <3>. HIDE DEF t
      <3>. QED  BY <1>2, <2>2, <3>1, <3>2
    <2>5. Owns(r) => \/ m.id \in {<<"agent", r>>, <<"none", 0>>}
                     \/ \E n \in DOMAIN history : history[n].id = m.id /\ SameSide(history[n].send, m.send)
      <3>1. \A x : SameSide(x, "none") => SameSide(x, "requested")
        BY DEF SameSide, Yes, No
      <3>2. Owns(r) => \/ turns[r].response.id \in {<<"agent", r>>, <<"none", 0>>}
                       \/ \E n \in DOMAIN history :
                             /\ history[n].id = turns[r].response.id
                             /\ SameSide(history[n].send, turns[r].response.send)
        BY <1>1, <2>3 DEF Linked, Answered
      <3>. QED  BY <2>1, <2>2, <3>1, <3>2 DEF Continues
    <2>6. at = "tool" => tools'[r].call = <<"none", 0>>  BY <2>4
    <2>7. Linked'  BY <1>1, <1>2, <2>2, <2>3, <2>4, <2>5, <2>6, WorksApart
    <2>. QED  BY <1>1, <2>7 DEF IInv
  <1>. QED  BY <1>1, <1>3, <1>4, ModelDoes

\* Resume keeps the invariant.
LEMMA ResumeKeeps ==
    ASSUME IInv, NEW r \in DOMAIN turns, Resume(r)
    PROVE  IInv'
  <1>1. TypeOK /\ Linked /\ TypeOK' /\ Honestly' /\ Numbered' /\ Once' /\ NoneQueued /\ Equipped
    BY ResumeTyped, ResumeHonest DEF IInv, Linked
  <1>2. UNCHANGED <<mail, requests, approved, conv, history>> /\ r \in Run
    BY <1>1 DEF Resume, store, TypeOK
  <1>3. /\ turns[r].at = "tool"
        /\ tools' = [tools EXCEPT ![r] = [NoTool EXCEPT !.late = tools[r].late]]
    BY <1>1, ResumeDoes
  <1>4. PICK m \in Message :
                 /\ m.id = turns[r].response.id
                 /\ \/ m = turns[r].response /\ Moved(r, "stopWhen", m)
                    \/ /\ tools[r].call # <<"none", 0>> /\ m.send \in {"sent", "failed"}
                       /\ Moved(r, "model", m)
    BY <1>1, ResumeDoes
  <1>5. PICK at \in {"stopWhen", "model"} : Moved(r, at, m)  BY <1>4
  <1>6. at \in AtWork /\ turns[r].at \in AtWork /\ at # "tool"
    BY <1>3, <1>5 DEF AtWork
  <1>7. /\ \A q \in Run : q # r => tools'[q] = tools[q]
        /\ tools'[r].call = <<"none", 0>> /\ tools'[r].at = "none" /\ tools'[r].late = tools[r].late
    <2> DEFINE t == [NoTool EXCEPT !.late = tools[r].late]
    <2>1. t.call = <<"none", 0>> /\ t.at = "none" /\ t.late = tools[r].late
      BY <1>1, <1>2, NoToolTyped
    <2>2. tools \in [Run -> Tool] /\ tools' = [tools EXCEPT ![r] = t]
      BY <1>1, <1>3 DEF TypeOK
    <2>. HIDE DEF t
    <2>. QED  BY <1>2, <2>1, <2>2
  <1>8. Owns(r) => \/ m.id \in {<<"agent", r>>, <<"none", 0>>}
                   \/ \E n \in DOMAIN history : history[n].id = m.id /\ SameSide(history[n].send, m.send)
    <2>1. Owns(r) => \/ turns[r].response.id \in {<<"agent", r>>, <<"none", 0>>}
                     \/ \E n \in DOMAIN history :
                           /\ history[n].id = turns[r].response.id
                           /\ SameSide(history[n].send, turns[r].response.send)
      BY <1>1, <1>6 DEF Linked, Answered
    <2>2. SameSide(turns[r].response.send, m.send)
      <3>1. CASE m = turns[r].response  BY <3>1 DEF SameSide
      <3>2. CASE tools[r].call # <<"none", 0>> /\ m.send \in {"sent", "failed"}
        <4>1. turns[r].response.send = "approved"
          BY <1>1, <1>3, <3>2 DEF Linked, Resumable
        <4>. QED  BY <3>2, <4>1 DEF SameSide, Yes, No
      <3>. QED  BY <1>4, <3>1, <3>2
    <2>3. \A x, y, z : SameSide(x, y) /\ SameSide(y, z) => SameSide(x, z)
      BY DEF SameSide
    <2>. QED  BY <1>4, <2>1, <2>2, <2>3
  <1>9. Linked'  BY <1>1, <1>2, <1>5, <1>6, <1>7, <1>8, WorksApart
  <1>. QED  BY <1>1, <1>9 DEF IInv

\* Save keeps the invariant.
LEMMA SaveKeeps ==
    ASSUME IInv, NEW r \in DOMAIN turns, Save(r)
    PROVE  IInv' /\ Stands
  <1>1. TypeOK /\ Linked /\ TypeOK' /\ Honestly' /\ Numbered' /\ Once' /\ NoneQueued
    BY SaveTyped, SaveHonest DEF IInv
  <1>2. UNCHANGED <<mail, tools, requests, approved>> /\ turns[r].at = "save" /\ r \in Run
    BY <1>1 DEF Save, chat, TypeOK
  <1>3. Moved(r, "end", turns[r].response)  BY <1>1, SaveDoes
  <1>4. CASE UNCHANGED store
    <2>1. UNCHANGED <<conv, history>>  BY <1>4 DEF store
    <2>2. Onward /\ Steady  BY <1>1, <1>2, <1>3, MovedIdle DEF AtWork
    <2>. QED  BY <1>1, <1>2, <2>1, <2>2, IdleLinked, SameStands DEF IInv, Idle
  <1>5. CASE /\ Owns(r) /\ turns[r].response # NoMessage
             /\ conv' = [conv EXCEPT !.owner = 0, !.lapsed = FALSE]
             /\ \E m \in Message : /\ m.id = turns[r].response.id /\ m.send = turns[r].response.send
                                   /\ history' = Saved(m)
    <2>1. PICK m \in Message : /\ m.id = turns[r].response.id /\ m.send = turns[r].response.send
                               /\ history' = Saved(m)
      BY <1>5
    <2>2. m.id \in Call  BY <1>5, <2>1 DEF IInv, Honestly, Proper
    <2>3. conv'.owner = 0 /\ 0 \notin Run  BY <1>1, <1>5, ConvTyped, BoundsTyped
    <2>4. "end" \notin Begins /\ conv'.owner \in {conv.owner, 0} /\ (history' = history \/ Owns(r))
      BY <1>5, <2>3 DEF Begins
    <2>5. /\ Untouched' /\ Fresh' /\ Viewed'
          /\ \A q \in Run : Writing(q)' => Writing(q)
          /\ \A q \in DOMAIN turns : q # r => turns'[q] = turns[q]
          /\ DOMAIN turns' = DOMAIN turns /\ turns'[r].at = "end"
          /\ ~Queued(r)'
      BY <1>1, <1>2, <1>3, <2>4, WorksOn
    <2>6. ~Writing(r)' /\ Writing(r)
      <3>1. r <= requests /\ r \in Nat /\ requests \in Nat /\ requests' = requests
        BY <1>1, <1>2, BoundsTyped DEF IInv, Numbered, TypeOK
      <3>2. ~(r > requests')  BY <3>1
      <3>. QED  BY <1>2, <2>5, <3>2 DEF Writing
    <2>7. m.id = <<"agent", r>>
          \/ \E n \in DOMAIN history : history[n].id = m.id /\ SameSide(history[n].send, m.send)
      BY <1>1, <1>2, <1>5, <2>1, <2>2, ConstantsTyped DEF Linked, Answered, AtWork
    <2>8. /\ ~Authorized(<<"agent", r>>)
          /\ \A n \in DOMAIN history : history[n].id # <<"agent", r>>
      BY <1>1, <1>2, <2>6 DEF Linked, Unasked
    <2>9. \A k \in DOMAIN history' :
              history'[k] = m \/ (k \in DOMAIN history /\ history'[k] = history[k])
      BY <1>1, <2>1, SavedHistory
    <2>10. \A k \in DOMAIN history :
              /\ history[k].id # m.id => history'[k] = history[k]
              /\ history[k].id = m.id => history'[k] = m
      BY <1>1, <2>1, SavedHistory
    <2>11. \A i \in Call : Authorized(i)' => Authorized(i)
      BY <1>2 DEF Authorized, mail
    <2>12. Answered'  BY <2>3, <1>1 DEF Answered, Owns, TypeOK
    <2>13. Resumable'  BY <1>1, <1>2, <2>5 DEF Linked, Resumable
    <2>14. Approved'
      <3>1. ASSUME NEW i \in Call, Authorized(i)', NEW k \in DOMAIN history', history'[k].id = i
            PROVE  history'[k].send \in Yes
        <4>1. Authorized(i) /\ \A l \in DOMAIN history : history[l].id = i => history[l].send \in Yes
          BY <1>1, <2>11, <3>1 DEF Linked, Approved
        <4>2. CASE history'[k] = m  BY <2>7, <2>8, <3>1, <4>1, <4>2 DEF SameSide
        <4>3. CASE k \in DOMAIN history /\ history'[k] = history[k]
          BY <3>1, <4>1, <4>3
        <4>. QED  BY <2>9, <4>2, <4>3
      <3>. QED  BY <1>1, <1>2, <2>11, <3>1 DEF Linked, Approved
    <2>15. Unasked'
      <3>1. \A q \in Run : <<"agent", q>> \in Call
        BY BoundsTyped, ConstantsTyped
      <3>2. ASSUME NEW q \in Run, Writing(q)', NEW k \in DOMAIN history'
            PROVE  history'[k].id # <<"agent", q>>
        <4>1. q # r /\ Writing(q) /\ \A n \in DOMAIN history : history[n].id # <<"agent", q>>
          BY <1>1, <2>5, <2>6, <3>2 DEF Linked, Unasked
        <4>2. m.id # <<"agent", q>>  BY <2>7, <4>1
        <4>. QED  BY <2>9, <4>1, <4>2
      <3>. QED  BY <1>1, <2>5, <2>11, <3>1, <3>2 DEF Linked, Unasked
    <2>16. Sending' /\ Equipped'
      BY <1>1, <1>2 DEF Linked, Sending, Equipped, mail
    <2>17. Overtaken'  BY <1>1, <1>2, <2>3 DEF Linked, Overtaken
    <2>18. Stands
      <3>1. \A k, l \in DOMAIN history : history[k].id = history[l].id => k = l
        BY <1>1 DEF TypeOK, IsInjective
      <3>2. \A x : SameSide(x, x)  BY DEF SameSide
      <3>3. ASSUME NEW k \in DOMAIN history, history[k].id = m.id
            PROVE  SameSide(history[k].send, m.send)
        BY <2>7, <2>8, <3>1, <3>3
      <3>. QED  BY <2>10, <3>2, <3>3 DEF Stands
    <2>. QED  BY <1>1, <2>5, <2>12, <2>13, <2>14, <2>15, <2>16, <2>17, <2>18 DEF IInv, Linked
  <1>. QED  BY <1>1, <1>4, <1>5, SaveDoes

\* A tool works on its call.
LEMMA ToolWorks ==
    ASSUME TypeOK, TypeOK', Honestly, Numbered, Once, Linked, NEW r \in Run, tools[r].at # "none",
           NEW at, NEW late, NEW result, Works(r, at, late, result),
           UNCHANGED <<history, chat>>, conv'.owner = conv.owner, Aborted(r),
           \A i \in Call : emails'[i] > 0 => emails[i] > 0 \/ i = tools[r].call
    PROVE  /\ Honestly' /\ Numbered' /\ Once'
           /\ Untouched' /\ Fresh' /\ Viewed' /\ Answered' /\ Resumable' /\ Approved' /\ Unasked'
  <1>1. /\ tools'[r].call = tools[r].call
        /\ \A q \in Run : q # r => tools'[q] = tools[q]
    BY WorksTyped
  <1>2. DOMAIN turns' = DOMAIN turns /\ \A q \in DOMAIN turns : Kept(turns'[q], turns[q])
    BY DEF Aborted
  <1>3. Honestly' /\ Numbered' /\ Once' /\ NoneQueued  BY <1>2, AsideHonest
  <1>4. requests' = requests /\ approved' = approved  BY DEF chat
  <1>5. Onward  BY <1>2, <1>3, <1>4, FewerIdle
  <1>6. \A q \in Run : (Unclaimed(q)' => Unclaimed(q)) /\ (Writing(q)' => Writing(q))
    BY <1>5, OnwardIs
  <1>7. Untouched'
    <2>1. ~Unclaimed(r)  BY DEF Linked, Untouched, NoTool
    <2>. QED  BY <1>1, <1>6, <2>1 DEF Linked, Untouched
  <1>8. Fresh' /\ Viewed' /\ Answered'
    BY <1>2 DEF Linked, Fresh, Viewed, Answered, Owns, Kept
  <1>9. Resumable'
    <2>1. \A q \in DOMAIN turns : q \in Run  BY DEF TypeOK
    <2>. QED  BY <1>1, <1>2, <2>1 DEF Linked, Resumable, Kept
  <1>10. \A i \in Call : Authorized(i)' => Authorized(i)  BY <1>1 DEF Authorized
  <1>11. Approved'  BY <1>4, <1>10 DEF Linked, Approved
  <1>12. Unasked'
    <2>1. \A q \in Run : <<"agent", q>> \in Call  BY BoundsTyped, ConstantsTyped
    <2>. QED  BY <1>6, <1>10, <2>1 DEF Linked, Unasked
  <1>. QED  BY <1>3, <1>7, <1>8, <1>9, <1>11, <1>12

\* A step that leaves every turn alone.
LEMMA AbortedNone ==
    ASSUME TypeOK, NEW r, UNCHANGED turns
    PROVE  Aborted(r)
BY DEF Aborted, Kept, TypeOK

\* CheckActive keeps the invariant.
LEMMA CheckActiveKeeps ==
    ASSUME IInv, NEW r \in Run, CheckActive(r)
    PROVE  IInv'
  <1>1. TypeOK /\ TypeOK' /\ Linked /\ Honestly /\ Numbered /\ Once
    BY CheckActiveTyped DEF IInv
  <1>2. /\ conv' = Renewed(r) /\ Aborted(r) /\ tools[r].at \in {"check", "recheck"}
        /\ UNCHANGED <<history, mail, chat>>
    BY <1>1, CheckActiveDoes
  <1>3. PICK at, result :
           /\ at \in {"draft", "send", "done"}
           /\ Works(r, at, tools[r].late, result)
           /\ at # "done" => Owns(r)
           /\ at = "send" => tools[r].at = "recheck"
           /\ at = "done" => result = "failed"
    BY <1>1, CheckActiveDoes
  <1>4. conv'.owner = conv.owner  BY <1>1, <1>2, ConvTyped DEF Renewed
  <1>5. /\ Honestly' /\ Numbered' /\ Once'
        /\ Untouched' /\ Fresh' /\ Viewed' /\ Answered' /\ Resumable' /\ Approved' /\ Unasked'
    <2>1. tools[r].at # "none" /\ emails' = emails  BY <1>2 DEF mail
    <2>. QED  BY <1>1, <1>2, <1>3, <1>4, <2>1, ToolWorks
  <1>6. /\ tools'[r].at = at /\ tools'[r].call = tools[r].call /\ tools'[r].late = tools[r].late
        /\ tools'[r].result = result
        /\ \A q \in Run : q # r => tools'[q] = tools[q]
    BY <1>1, <1>3, WorksTyped
  <1>7. Sending'  BY <1>1, <1>2, <1>3, <1>6 DEF Linked, Sending, mail
  <1>8. Equipped'  BY <1>1, <1>3, <1>6 DEF Linked, Equipped
  <1>9. Overtaken'
    <2>1. tools[r].late \in Nat  BY <1>1, ToolTyped DEF TypeOK
    <2>2. at # "done" => tools[r].late = 0
      BY <1>1, <1>3, <2>1 DEF Linked, Overtaken, Owns
    <2>. QED  BY <1>1, <1>3, <1>4, <1>6, <2>2 DEF Linked, Overtaken
  <1>. QED  BY <1>1, <1>5, <1>7, <1>8, <1>9 DEF IInv, Linked

\* A write counts as late when its turn has lost the conversation.
LEMMA LateIs == ASSUME NEW r PROVE Late(r) \in {0, 1} /\ (Late(r) = 1 <=> conv.owner # r)
BY DEF Late, Owns

\* WriteDraft keeps the invariant.
LEMMA WriteDraftKeeps ==
    ASSUME IInv, NEW r \in Run, WriteDraft(r)
    PROVE  IInv'
  <1>1. TypeOK /\ TypeOK' /\ Linked /\ Honestly /\ Numbered /\ Once
    BY WriteDraftTyped DEF IInv
  <1>2. UNCHANGED <<conv, history, mail, turns, chat>> /\ tools[r].at = "draft"
    BY <1>1, WriteDraftDoes DEF store
  <1>3. tools[r].late = 0 /\ Late(r) \in {0, 1} /\ (Late(r) = 1 => conv.owner # r)
    BY <1>1, <1>2, LateIs DEF Linked, Overtaken
  <1>4. PICK at, late, result :
           /\ at \in {"recheck", "done"} /\ late \in {0, Late(r)}
           /\ Works(r, at, late, result)
           /\ at = "recheck" => tools[r].call # <<"none", 0>>
           /\ at = "done" => result = "failed" \/ tools[r].call = <<"none", 0>>
    <2>1. tools[r].late = 0 /\ tools[r].late + Late(r) = Late(r)  BY <1>3
    <2>. QED  BY <1>1, <2>1, WriteDraftDoes
  <1>5. /\ Honestly' /\ Numbered' /\ Once'
        /\ Untouched' /\ Fresh' /\ Viewed' /\ Answered' /\ Resumable' /\ Approved' /\ Unasked'
    <2>1. tools[r].at # "none" /\ emails' = emails /\ Aborted(r) /\ conv'.owner = conv.owner
      BY <1>1, <1>2, AbortedNone DEF mail
    <2>. QED  BY <1>1, <1>2, <1>4, <2>1, ToolWorks
  <1>6. /\ tools'[r].at = at /\ tools'[r].call = tools[r].call /\ tools'[r].late = late
        /\ tools'[r].result = result
        /\ \A q \in Run : q # r => tools'[q] = tools[q]
    BY <1>1, <1>4, WorksTyped
  <1>7. Sending'  BY <1>1, <1>2, <1>4, <1>6 DEF Linked, Sending, mail
  <1>8. Equipped'  BY <1>1, <1>4, <1>6, ConstantsTyped DEF Linked, Equipped
  <1>9. Overtaken'  BY <1>1, <1>2, <1>3, <1>4, <1>6 DEF Linked, Overtaken
  <1>. QED  BY <1>1, <1>5, <1>7, <1>8, <1>9 DEF IInv, Linked

\* SendDraft keeps the invariant.
LEMMA SendDraftKeeps ==
    ASSUME IInv, NEW r \in Run, SendDraft(r)
    PROVE  IInv'
  <1>1. TypeOK /\ TypeOK' /\ Linked /\ Honestly /\ Numbered /\ Once
    BY SendDraftTyped DEF IInv, Linked
  <1>2. UNCHANGED <<conv, history, emails, turns, chat>> /\ tools[r].at = "send"
    BY <1>1, SendDraftDoes DEF store
  <1>3. tools[r].late = 0 /\ Late(r) \in {0, 1} /\ (Late(r) = 1 => conv.owner # r)
    BY <1>1, <1>2, LateIs DEF Linked, Overtaken
  <1> DEFINE i == tools[r].call
  <1>4. i \in Call  BY <1>1, <1>2 DEF Linked, Equipped
  <1>5. PICK at, late, result :
           /\ at \in {"call", "done", "confirm"} /\ late \in {0, Late(r)}
           /\ Works(r, at, late, result)
           /\ at = "call" => rows[i] = "none" /\ rows' = [rows EXCEPT ![i] = "pending"]
           /\ at # "call" => UNCHANGED rows
           /\ at = "done" => result = "failed"
           /\ at = "confirm" => rows[i] = "complete" \/ emails[i] > 0
    <2>1. tools[r].late = 0 /\ tools[r].late + Late(r) = Late(r)  BY <1>3
    <2>. QED  BY <1>1, <2>1, SendDraftDoes
  <1>6. /\ Honestly' /\ Numbered' /\ Once'
        /\ Untouched' /\ Fresh' /\ Viewed' /\ Answered' /\ Resumable' /\ Approved' /\ Unasked'
    <2>1. tools[r].at # "none" /\ Aborted(r) /\ conv'.owner = conv.owner
      BY <1>1, <1>2, AbortedNone
    <2>. QED  BY <1>1, <1>2, <1>5, <2>1, ToolWorks
  <1>7. /\ tools'[r].at = at /\ tools'[r].call = i /\ tools'[r].late = late
        /\ tools'[r].result = result
        /\ \A q \in Run : q # r => tools'[q] = tools[q]
    BY <1>1, <1>5, WorksTyped
  <1>8. \A j \in Call : emails[j] \in Nat /\ emails[j] <= 1
    BY <1>1 DEF Linked, Sending, TypeOK
  <1>9. Sending'
    <2>1. CASE at = "call"
      <3>1. rows[i] = "none" /\ rows'[i] = "pending" /\ \A j \in Call : j # i => rows'[j] = rows[j]
        BY <1>1, <1>4, <1>5, <2>1 DEF TypeOK
      <3>2. emails[i] = 0  BY <1>1, <1>4, <1>8, <3>1 DEF Linked, Sending
      <3>3. \A q \in Run : tools[q].at = "call" => tools[q].call # i /\ tools[q].call \in Call
        BY <1>1, <3>1 DEF Linked, Sending, Equipped
      <3>4. \A q \in Run : tools[q].at = "confirm" => emails[tools[q].call] = 1
        BY <1>1 DEF Linked, Sending
      <3>5. \A j \in Call : /\ emails'[j] <= 1
                            /\ emails'[j] = 1 => rows'[j] # "none"
                            /\ rows'[j] = "complete" => emails'[j] = 1
        BY <1>1, <1>2, <3>1, <3>2 DEF Linked, Sending
      <3>6. \A q \in Run :
               /\ tools'[q].at = "call" => rows'[tools'[q].call] = "pending" /\ emails'[tools'[q].call] = 0
               /\ tools'[q].at = "confirm" => emails'[tools'[q].call] = 1
        BY <1>1, <1>2, <1>7, <2>1, <3>1, <3>2, <3>3, <3>4 DEF Linked, Sending
      <3>7. \A p, q \in Run :
               tools'[p].at = "call" /\ tools'[q].at = "call" /\ tools'[p].call = tools'[q].call => p = q
        BY <1>1, <1>7, <3>3 DEF Linked, Sending
      <3>. QED  BY <3>5, <3>6, <3>7 DEF Sending
    <2>2. CASE at # "call"
      <3>1. rows' = rows /\ emails' = emails /\ (at = "confirm" => emails[i] = 1)
        BY <1>1, <1>2, <1>4, <1>5, <1>8, <2>2 DEF Linked, Sending
      <3>. QED  BY <1>1, <1>7, <2>2, <3>1 DEF Linked, Sending
    <2>. QED  BY <2>1, <2>2
  <1>10. Equipped'  BY <1>1, <1>4, <1>5, <1>7 DEF Linked, Equipped
  <1>11. Overtaken'  BY <1>1, <1>2, <1>3, <1>5, <1>7 DEF Linked, Overtaken
  <1>. QED  BY <1>1, <1>6, <1>9, <1>10, <1>11 DEF IInv, Linked

\* CallGmail keeps the invariant.
LEMMA CallGmailKeeps ==
    ASSUME IInv, NEW r \in Run, CallGmail(r)
    PROVE  IInv'
  <1>1. TypeOK /\ TypeOK' /\ Linked /\ Honestly /\ Numbered /\ Once
    BY CallGmailTyped DEF IInv
  <1>2. UNCHANGED <<conv, history, turns, chat>> /\ tools[r].at = "call"
    BY <1>1, CallGmailDoes DEF store
  <1> DEFINE i == tools[r].call
  <1>3. i \in Call /\ rows[i] = "pending" /\ emails[i] = 0
    BY <1>1, <1>2 DEF Linked, Equipped, Sending
  <1>4. PICK at, result :
           /\ at \in {"confirm", "done"}
           /\ Works(r, at, tools[r].late, result)
           /\ at = "done" => result = "failed"
           /\ \/ emails' = [emails EXCEPT ![i] = @ + 1] /\ UNCHANGED rows
              \/ rows' = [rows EXCEPT ![i] = "none"] /\ UNCHANGED emails /\ at = "done"
              \/ UNCHANGED <<rows, emails>> /\ at = "done"
    BY <1>1, CallGmailDoes DEF mail
  <1>5. /\ \A j \in Call : j # i => rows'[j] = rows[j] /\ emails'[j] = emails[j]
        /\ \/ emails'[i] = 1 /\ rows'[i] = "pending"
           \/ emails'[i] = 0 /\ rows'[i] \in {"none", "pending"} /\ at = "done"
    BY <1>1, <1>3, <1>4 DEF TypeOK
  <1>6. /\ Honestly' /\ Numbered' /\ Once'
        /\ Untouched' /\ Fresh' /\ Viewed' /\ Answered' /\ Resumable' /\ Approved' /\ Unasked'
    <2>1. /\ tools[r].at # "none" /\ Aborted(r) /\ conv'.owner = conv.owner
          /\ \A j \in Call : emails'[j] > 0 => emails[j] > 0 \/ j = tools[r].call
      BY <1>1, <1>2, <1>5, AbortedNone
    <2>. QED  BY <1>1, <1>2, <1>4, <2>1, ToolWorks
  <1>7. /\ tools'[r].at = at /\ tools'[r].call = i /\ tools'[r].late = tools[r].late
        /\ tools'[r].result = result
        /\ \A q \in Run : q # r => tools'[q] = tools[q]
    BY <1>1, <1>4, WorksTyped
  <1>8. Sending'
    <2>1. \A q \in Run : q # r /\ tools[q].at = "call" => tools[q].call # i /\ tools[q].call \in Call
      BY <1>1, <1>2 DEF Linked, Sending, Equipped
    <2>2. \A q \in Run : tools[q].at = "confirm" => tools[q].call # i /\ tools[q].call \in Call
      BY <1>1, <1>3 DEF Linked, Sending, Equipped
    <2>3. \A j \in Call : /\ emails'[j] <= 1
                          /\ emails'[j] = 1 => rows'[j] # "none"
                          /\ rows'[j] = "complete" => emails'[j] = 1
      BY <1>1, <1>5 DEF Linked, Sending
    <2>4. \A q \in Run :
             /\ tools'[q].at = "call" => rows'[tools'[q].call] = "pending" /\ emails'[tools'[q].call] = 0
             /\ tools'[q].at = "confirm" => emails'[tools'[q].call] = 1
      BY <1>1, <1>4, <1>5, <1>7, <2>1, <2>2 DEF Linked, Sending
    <2>5. \A p, q \in Run :
             tools'[p].at = "call" /\ tools'[q].at = "call" /\ tools'[p].call = tools'[q].call => p = q
      BY <1>1, <1>4, <1>7 DEF Linked, Sending
    <2>. QED  BY <2>3, <2>4, <2>5 DEF Sending
  <1>9. Equipped'  BY <1>1, <1>3, <1>4, <1>7 DEF Linked, Equipped
  <1>10. Overtaken'  BY <1>1, <1>2, <1>4, <1>7 DEF Linked, Overtaken
  <1>. QED  BY <1>1, <1>6, <1>8, <1>9, <1>10 DEF IInv, Linked

\* ConfirmSent keeps the invariant.
LEMMA ConfirmSentKeeps ==
    ASSUME IInv, NEW r \in Run, ConfirmSent(r)
    PROVE  IInv'
  <1>1. TypeOK /\ TypeOK' /\ Linked /\ Honestly /\ Numbered /\ Once
    BY ConfirmSentTyped DEF IInv
  <1>2. UNCHANGED <<conv, history, emails, turns, chat>> /\ tools[r].at = "confirm"
    BY <1>1, ConfirmSentDoes DEF store
  <1> DEFINE i == tools[r].call
  <1>3. i \in Call /\ emails[i] = 1  BY <1>1, <1>2 DEF Linked, Equipped, Sending
  <1>4. rows' = [rows EXCEPT ![i] = "complete"] /\ Works(r, "done", tools[r].late, "sent")
    BY <1>1, ConfirmSentDoes
  <1>5. rows'[i] = "complete" /\ \A j \in Call : j # i => rows'[j] = rows[j]
    BY <1>1, <1>3, <1>4 DEF TypeOK
  <1>6. /\ Honestly' /\ Numbered' /\ Once'
        /\ Untouched' /\ Fresh' /\ Viewed' /\ Answered' /\ Resumable' /\ Approved' /\ Unasked'
    <2>1. tools[r].at # "none" /\ Aborted(r) /\ conv'.owner = conv.owner
      BY <1>1, <1>2, AbortedNone
    <2>. QED  BY <1>1, <1>2, <1>4, <2>1, ToolWorks
  <1>7. /\ tools'[r].at = "done" /\ tools'[r].call = i /\ tools'[r].late = tools[r].late
        /\ tools'[r].result = "sent"
        /\ \A q \in Run : q # r => tools'[q] = tools[q]
    BY <1>1, <1>4, WorksTyped
  <1>8. Sending'
    <2>1. \A q \in Run : tools[q].at = "call" => tools[q].call # i /\ tools[q].call \in Call
      BY <1>1, <1>3 DEF Linked, Sending, Equipped
    <2>2. \A j \in Call : /\ emails'[j] <= 1
                          /\ emails'[j] = 1 => rows'[j] # "none"
                          /\ rows'[j] = "complete" => emails'[j] = 1
      BY <1>1, <1>2, <1>3, <1>5 DEF Linked, Sending
    <2>3. \A q \in Run :
             /\ tools'[q].at = "call" => rows'[tools'[q].call] = "pending" /\ emails'[tools'[q].call] = 0
             /\ tools'[q].at = "confirm" => emails'[tools'[q].call] = 1
      BY <1>1, <1>2, <1>5, <1>7, <2>1 DEF Linked, Sending
    <2>4. \A p, q \in Run :
             tools'[p].at = "call" /\ tools'[q].at = "call" /\ tools'[p].call = tools'[q].call => p = q
      BY <1>1, <1>7 DEF Linked, Sending
    <2>. QED  BY <2>2, <2>3, <2>4 DEF Sending
  <1>9. Equipped'  BY <1>1, <1>3, <1>7 DEF Linked, Equipped
  <1>10. Overtaken'  BY <1>1, <1>2, <1>7 DEF Linked, Overtaken
  <1>. QED  BY <1>1, <1>6, <1>8, <1>9, <1>10 DEF IInv, Linked

-----------------------------------------------------------------------------
(* The invariant and what follows from it.                                 *)

LEMMA Initial == Init => IInv
  <1> SUFFICES ASSUME Init PROVE IInv
    OBVIOUS
  <1> DEFINE u == [NoMessage EXCEPT !.id = <<"user", 0>>]
             a == [NoMessage EXCEPT !.id = <<"agent", 0>>, !.send = "requested"]
             s == [status |-> "ready", open |-> FALSE, last |-> NoMessage, unsent |-> NoFrame, run |-> 0]
  <1>1. u \in Message /\ u.id = <<"user", 0>> /\ u.send = "none"
    BY ConstantsTyped, BoundsTyped DEF NoMessage, Message
  <1>2. a \in Message /\ a.id = <<"agent", 0>> /\ a.send = "requested"
    BY ConstantsTyped, BoundsTyped DEF NoMessage, Message, SendState
  <1>3. s \in TabState /\ s.last = NoMessage /\ s.unsent = NoFrame
    BY ConstantsTyped, BoundsTyped DEF TabState
  <1>4. /\ signedIn = TRUE /\ history \in {<<>>, <<u, a>>}
        /\ conv = [exists |-> history # <<>>, owner |-> 0, lapsed |-> FALSE, claims |-> 0]
        /\ rows = [i \in Call |-> "none"] /\ emails = [i \in Call |-> 0]
        /\ turns = <<>> /\ tools = [r \in Run |-> NoTool] /\ tab = [c \in Tab |-> s]
        /\ up = [c \in Tab |-> <<>>] /\ down = [c \in Tab |-> <<>>]
        /\ serving = [c \in Tab |-> 0] /\ requests = 0 /\ approved = {}
        /\ spent = [c \in Counters |-> 0]
    BY DEF Init
  <1>. HIDE DEF u, a, s
  <1>5. DOMAIN turns = {} /\ \A c \in Tab : DOMAIN up[c] = {} /\ DOMAIN down[c] = {}
    BY <1>4
  <1>6. /\ history \in Seq(Message)
        /\ \A n \in DOMAIN history : history[n] = u \/ history[n] = a
    <2>1. CASE history = <<>>  BY <2>1
    <2>2. CASE history = <<u, a>>
      <3>1. <<u, a>> \in Seq(Message)  BY <1>1, <1>2
      <3>2. DOMAIN history = {1, 2} /\ history[1] = u /\ history[2] = a  BY <2>2
      <3>. QED  BY <2>2, <3>1, <3>2
    <2>. QED  BY <1>4, <2>1, <2>2
  <1>7. IsInjective([i \in DOMAIN history |-> history[i].id])
    <2>1. CASE history = <<>>  BY <2>1 DEF IsInjective
    <2>2. CASE history = <<u, a>>
      <3>1. DOMAIN history = {1, 2} /\ history[1].id = <<"user", 0>> /\ history[2].id = <<"agent", 0>>
        BY <1>1, <1>2, <2>2
      <3>2. <<"user", 0>> # <<"agent", 0>>  OBVIOUS
      <3>. QED  BY <3>1, <3>2 DEF IsInjective
    <2>. QED  BY <1>4, <2>1, <2>2
  <1>8. TypeOK
    <2>1. conv \in [exists : BOOLEAN, owner : 0 .. MaxRequests, lapsed : BOOLEAN, claims : Nat]
      BY <1>4, BoundsTyped
    <2>2. /\ rows \in [Call -> {"none", "pending", "complete"}] /\ emails \in [Call -> Nat]
          /\ tools \in [Run -> Tool] /\ tab \in [Tab -> TabState] /\ serving \in [Tab -> 0 .. MaxRequests]
          /\ spent \in [Counters -> Nat] /\ requests \in 0 .. MaxRequests
      BY <1>3, <1>4, ConstantsTyped, BoundsTyped
    <2>3. <<>> \in Seq(Frame) /\ <<>> \in Seq(Answer)  OBVIOUS
    <2>4. up \in [Tab -> Seq(Frame)] /\ down \in [Tab -> Seq(Answer)]
      BY <1>4, <2>3
    <2>. QED  BY <1>4, <1>5, <1>6, <1>7, <2>1, <2>2, <2>4 DEF TypeOK
  <1>9. \A c \in Tab : tab[c].last = NoMessage /\ tab[c].unsent = NoFrame
    BY <1>3, <1>4
  <1>10. Honestly
    <2>1. <<"agent", 0>> \in Call  BY ConstantsTyped, BoundsTyped
    <2>2. Honest(u, approved) /\ Honest(a, approved)
      BY <1>1, <1>2, <2>1 DEF Honest
    <2>. QED  BY <1>5, <1>6, <1>9, <2>2, HonestTyped DEF Honestly
  <1>11. Numbered /\ Once
    BY <1>4, <1>5, <1>9, ConstantsTyped DEF Numbered, Once
  <1>12. \A r \in Run : tools[r] = NoTool /\ conv.owner # r /\ r # 0
    BY <1>4, BoundsTyped
  <1>13. NoTool.at = "none" /\ NoTool.call = <<"none", 0>> /\ NoTool.late = 0
    BY DEF NoTool
  <1>14. \A i \in Call : ~Authorized(i)
    BY <1>4, <1>12, <1>13, ConstantsTyped DEF Authorized
  <1>15. Untouched /\ Fresh /\ Viewed /\ Answered /\ Resumable
    BY <1>5, <1>12 DEF Untouched, Fresh, Viewed, Answered, Resumable
  <1>16. Approved  BY <1>14 DEF Approved
  <1>17. Unasked
    <2>1. \A r \in Run : <<"agent", r>> \in Call /\ <<"agent", r>> # <<"agent", 0>> /\ <<"agent", r>> # <<"user", 0>>
      BY <1>12, ConstantsTyped, BoundsTyped
    <2>. QED  BY <1>1, <1>2, <1>6, <1>14, <2>1 DEF Unasked
  <1>18. Sending /\ Equipped /\ Overtaken
    BY <1>4, <1>12, <1>13 DEF Sending, Equipped, Overtaken
  <1>. QED  BY <1>8, <1>10, <1>11, <1>15, <1>16, <1>17, <1>18 DEF IInv, Linked

\* Every step keeps the invariant and every decision that is stored.
LEMMA Preserved == IInv /\ [Next]_vars => IInv' /\ Stands
  <1> SUFFICES ASSUME IInv, [Next]_vars PROVE IInv' /\ Stands
    OBVIOUS
  <1>1. CASE UNCHANGED vars
    <2>1. UNCHANGED <<signedIn, conv, history, rows, emails, turns, tools, tab, up, down, serving,
                      requests, approved, spent>>
      BY <1>1 DEF vars, store, mail, chat
    <2>2. TypeOK'  BY <2>1 DEF IInv, TypeOK
    <2>3. Honestly' /\ Numbered' /\ Once'
      BY <2>1 DEF IInv, Honestly, Numbered, Once, Queued, InUp
    <2>4. /\ Untouched' /\ Fresh' /\ Viewed' /\ Answered' /\ Resumable' /\ Approved' /\ Unasked'
      BY <2>1 DEF IInv, Linked, Untouched, Fresh, Viewed, Answered, Resumable, Approved, Unasked,
                  Unclaimed, Writing, Owns, Authorized, Queued, InUp
    <2>5. Sending' /\ Equipped' /\ Overtaken'
      BY <2>1 DEF IInv, Linked, Sending, Equipped, Overtaken
    <2>. QED  BY <2>1, <2>2, <2>3, <2>4, <2>5, SameStands DEF IInv, Linked
  \* The steps of the chat.
  <1>2. ASSUME NEW c \in Tab, Connect(c) \/ Deliver(c) \/ Receive(c)
        PROVE  IInv' /\ Stands
    <2>1. IInv'  BY <1>2, ConnectKeeps, DeliverKeeps, ReceiveKeeps
    <2>2. history' = history  BY <1>2 DEF Connect, Deliver, Receive, store
    <2>. QED  BY <2>1, <2>2, SameStands
  <1>3. ASSUME NEW c \in Tab, User(c)
        PROVE  IInv' /\ Stands
    <2>1. CASE Ask(c)  BY <2>1, AskKeeps, SameStands DEF Ask, Request, store
    <2>2. CASE \E yes \in BOOLEAN : Decide(c, yes)
      BY <2>2, DecideKeeps, SameStands DEF Decide, Request, store
    <2>3. CASE Retry(c)
      BY <2>3, RetryKeeps, SameStands DEF Retry, Request, store
    <2>4. CASE Stop(c)  BY <2>4, StopKeeps, SameStands DEF Stop, store
    <2>5. CASE Reload(c)  BY <2>5, ReloadKeeps, SameStands DEF Reload, store
    <2>. QED  BY <1>3, <2>1, <2>2, <2>3, <2>4, <2>5 DEF User
  <1>4. ASSUME NEW c \in Tab, Disconnect(c)
        PROVE  IInv' /\ Stands
    BY <1>4, DisconnectKeeps, SameStands DEF Disconnect, store
  \* The steps of a turn and of its tool.
  <1>5. ASSUME NEW r \in DOMAIN turns, TurnStep(r)
        PROVE  IInv' /\ Stands
    <2>1. CASE Identity(r)
      BY <2>1, IdentityKeeps, SameStands DEF Identity, store
    <2>2. CASE Start(r)  BY <2>2, StartKeeps
    <2>3. CASE Prepare(r)  BY <2>3, PrepareKeeps
    <2>4. CASE Model(r)  BY <2>4, ModelKeeps, SameStands DEF Model, store
    <2>5. CASE Abort(r)  BY <2>5, AbortKeeps, SameStands DEF Abort, store
    <2>6. CASE Resume(r)  BY <2>6, ResumeKeeps, SameStands DEF Resume, store
    <2>7. CASE StopWhen(r)  BY <2>7, StopWhenKeeps, SameStands DEF StopWhen
    <2>8. CASE Save(r)  BY <2>8, SaveKeeps
    <2>9. CASE End(r)  BY <2>9, EndKeeps, SameStands DEF End, store
    <2>10. CASE Finish(r)  BY <2>10, FinishKeeps, SameStands DEF Finish
    <2>. QED  BY <1>5, <2>1, <2>2, <2>3, <2>4, <2>5, <2>6, <2>7, <2>8, <2>9, <2>10 DEF TurnStep
  <1>6. ASSUME NEW r \in Run, ToolStep(r)
        PROVE  IInv' /\ Stands
    <2>1. CASE CheckActive(r)
      BY <2>1, CheckActiveKeeps, SameStands DEF CheckActive
    <2>2. CASE WriteDraft(r)
      BY <2>2, WriteDraftKeeps, SameStands DEF WriteDraft, store
    <2>3. CASE SendDraft(r)
      BY <2>3, SendDraftKeeps, SameStands DEF SendDraft, store
    <2>4. CASE CallGmail(r)
      BY <2>4, CallGmailKeeps, SameStands DEF CallGmail, store
    <2>5. CASE ConfirmSent(r)
      BY <2>5, ConfirmSentKeeps, SameStands DEF ConfirmSent, store
    <2>. QED  BY <1>6, <2>1, <2>2, <2>3, <2>4, <2>5 DEF ToolStep
  \* Faults, time and the user elsewhere.
  <1>7. ASSUME NEW r \in DOMAIN turns, Throw(r) \/ Crash(r)
        PROVE  IInv' /\ Stands
    <2>1. CASE Throw(r)  BY <2>1, ThrowKeeps, SameStands DEF Throw, store
    <2>2. CASE Crash(r)  BY <2>2, CrashKeeps, SameStands DEF Crash, store
    <2>. QED  BY <1>7, <2>1, <2>2
  <1>8. CASE Lapse  BY <1>8, LapseKeeps, SameStands DEF Lapse
  <1>9. CASE Delete  BY <1>9, DeleteKeeps, SameStands DEF Delete
  <1>10. CASE SignOut  BY <1>10, SignOutKeeps, SameStands DEF SignOut, store
  <1>. QED  BY <1>1, <1>2, <1>3, <1>4, <1>5, <1>6, <1>7, <1>8, <1>9, <1>10 DEF Next, Runs

\* The invariant holds throughout.
THEOREM Invariant == Spec => []IInv
  <1>1. Init => IInv  BY Initial
  <1>2. IInv /\ [Next]_vars => IInv'  BY Preserved
  <1>. QED  BY <1>1, <1>2, PTL DEF Spec

\* Every state of a conversation, of its turns and of its tabs is well formed
\* (agentConversations, runAgentTurn, serveAgentSocket).
THEOREM WellFormed == Spec => []TypeOK
  <1>1. IInv => TypeOK  BY DEF IInv
  <1>. QED  BY <1>1, Invariant, PTL

\* However many tabs decide, repeat and delete, and whichever turns overlap, lapse
\* or die: Gmail sends only what the user has approved, and what is stored never
\* says otherwise (runAgentTurn, applyAgentApprovalDecisions, startAgentRun).
THEOREM OnlyApproved == Spec => []NeverUnapproved
  <1>1. IInv => NeverUnapproved
    <2> SUFFICES ASSUME IInv, NEW i \in Call, emails[i] > 0
                 PROVE  /\ i \in approved
                        /\ \A n \in DOMAIN history :
                              history[n].id = i => history[n].send \notin {"requested", "declined", "denied"}
      BY DEF NeverUnapproved
    <2>1. Authorized(i)  BY DEF Authorized
    <2>2. i \in approved /\ \A n \in DOMAIN history : history[n].id = i => history[n].send \in Yes
      BY <2>1 DEF IInv, Linked, Approved
    <2>. QED  BY <2>2 DEF Yes
  <1>. QED  BY <1>1, Invariant, PTL

\* An email is sent once for each call: turns that resume it one after another or
\* at the same time find the row of its write key (createAgentCapabilities).
THEOREM EmailsOnce == Spec => []SentOnce
  <1>1. IInv => SentOnce  BY DEF IInv, Linked, Sending, SentOnce
  <1>. QED  BY <1>1, Invariant, PTL

\* A turn that has lost the conversation begins at most the one write it was
\* confirmed for (ensureRunActive, renewAgentRun).
THEOREM OvertakenStops == Spec => []StopsWriting
  <1>1. IInv => StopsWriting  BY DEF IInv, Linked, Overtaken, StopsWriting
  <1>. QED  BY <1>1, Invariant, PTL

\* No step of any turn reverses a decision that is stored: only the owner of the
\* conversation writes, and it has seen every decision before its own
\* (applyAgentApprovalDecisions, closeOpenApprovals, saveAgentRunMessages).
THEOREM DecisionsStand == Spec => DecisionKept
  <1>1. IInv /\ [Next]_vars =>
           [\A n \in DOMAIN history \intersect DOMAIN history' :
              history'[n].id = history[n].id =>
                  /\ history[n].send \in Yes => history'[n].send \in Yes
                  /\ history[n].send \in No => history'[n].send \in No]_vars
    BY Preserved DEF Stands, SameSide
  <1>. QED  BY <1>1, Invariant, PTL DEF Spec, DecisionKept
=============================================================================
