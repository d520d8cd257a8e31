--------------------------- MODULE GmailMailbox ---------------------------
(***************************************************************************)
(* One Gmail mailbox, as the synchronization code of Invook uses it: the   *)
(* messages and their labels, the history that users.history.list serves   *)
(* and the history id that users.getProfile and every history page report. *)
(* Gmail is not part of the repository.  What is assumed of it is what     *)
(* packages/gmail/src/client.ts and the activities of                      *)
(* apps/worker/src/activities/gmail rely on.                               *)
(***************************************************************************)
EXTENDS Naturals

CONSTANTS Message,      \* provider message ids
          Thread,       \* provider thread ids
          ThreadOf,     \* the thread each message belongs to
          Label,        \* the label sets that are told apart
          Absent,       \* "no such message"
          MaxHistory    \* bound: the highest history id of a behaviour

ASSUME MailboxAssumption ==
    /\ ThreadOf \in [Message -> Thread]
    /\ Absent \notin Label
    /\ MaxHistory \in Nat \ {0}

VARIABLES mail,         \* mail[m]: the labels of m, or Absent
          log,          \* log[m]: the latest history record of each kind about m
          head,         \* the current history id of the mailbox
          horizon       \* the oldest startHistoryId that is still served

mailboxVars == <<mail, log, head, horizon>>

Content == Label \union {Absent}
HistoryId == 0 .. MaxHistory

\* 0 stands for "no record of this kind".
Records == [added : HistoryId, labelled : HistoryId, removed : HistoryId]
NoRecords == [added |-> 0, labelled |-> 0, removed |-> 0]

MailboxTypeOK ==
    /\ mail \in [Message -> Content]
    /\ log \in [Message -> Records]
    /\ head \in HistoryId \ {0}
    /\ horizon \in HistoryId \ {0}

\* The mailbox a connection finds holds any mail, and history starts at 1.
MailboxInit ==
    /\ mail \in [Message -> Content]
    /\ log = [m \in Message |-> NoRecords]
    /\ head = 1
    /\ horizon = 1

ThreadMessages(t) == {m \in Message : ThreadOf[m] = t}
Present(t) == \E m \in ThreadMessages(t) : mail[m] # Absent

\* Records about m that a history list from `start` returns: ids after start.
AddedSince(m, start) == log[m].added > start
LabelledSince(m, start) == log[m].labelled > start
RemovedSince(m, start) == log[m].removed > start
TouchedSince(m, start) ==
    AddedSince(m, start) \/ LabelledSince(m, start) \/ RemovedSince(m, start)

-----------------------------------------------------------------------------
\* A provider message id is never used again once its message is gone.
Arrive(m, l) ==
    /\ head < MaxHistory
    /\ mail[m] = Absent
    /\ log[m].removed = 0
    /\ head' = head + 1
    /\ mail' = [mail EXCEPT ![m] = l]
    /\ log' = [log EXCEPT ![m].added = head']
    /\ UNCHANGED horizon

Relabel(m, l) ==
    /\ head < MaxHistory
    /\ mail[m] \notin {Absent, l}
    /\ head' = head + 1
    /\ mail' = [mail EXCEPT ![m] = l]
    /\ log' = [log EXCEPT ![m].labelled = head']
    /\ UNCHANGED horizon

Remove(m) ==
    /\ head < MaxHistory
    /\ mail[m] # Absent
    /\ head' = head + 1
    /\ mail' = [mail EXCEPT ![m] = Absent]
    /\ log' = [log EXCEPT ![m].removed = head']
    /\ UNCHANGED horizon

\* Gmail drops old history; a list that starts before the horizon gets a 404.
ForgetHistory ==
    /\ horizon < head
    /\ horizon' = head
    /\ UNCHANGED <<mail, log, head>>
=============================================================================
