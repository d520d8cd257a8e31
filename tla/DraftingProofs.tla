------------------------- MODULE DraftingProofs -------------------------
(***************************************************************************)
(* Theorems about the drafts a thread shows (DraftResources) and those a    *)
(* tab writes (Composer), for every set of drafts and accounts and every    *)
(* bound.                                                                   *)
(***************************************************************************)
EXTENDS Composer, DraftResources, FiniteSetTheorems, WellFoundedInduction, TLAPS

-----------------------------------------------------------------------------
(* The inductive invariant of DraftResources.                              *)

\* Where the next range begins, or before.
From == IF replica.cursor >= replica.base THEN replica.cursor ELSE replica.base
\* What the next range will say of message m: anything, that it left its draft,
\* that it came.
Pending == From + 1 .. Len(history)
Touched(m) == \E i \in Pending : history[i].message = m
Ended(m) == \E i \in Pending : history[i].message = m /\ history[i].op \in {"labels", "delete"}
Came(m) == \E i \in Pending : history[i].message = m /\ history[i].op = "upsert"
\* What Gmail has written of it since the range was read.
Later(m) == \E i \in pass.upto + 1 .. Len(history) : history[i].message = m

Of(m, d) == m \in DOMAIN mail /\ mail[m].draft = d
\* Message m holds its draft, or the next range says that it does not.
StillIn(m) == mail[m].label = "draft" \/ Ended(m)

\* A draft has one message, and the history says nothing that is not so.
Witnessed(r) ==
    /\ r.message \in DOMAIN mail
    /\ r.op = "delete" => mail[r.message].label = "gone"
    /\ r.op = "labels" => r.label = "sent" /\ r.related /\ mail[r.message].label = "sent"
    /\ r.op = "upsert" /\ mail[r.message].label = "draft" => r.related
MailboxRight ==
    /\ \A m, n \in DOMAIN mail :
          mail[m].label = "draft" /\ mail[n].label = "draft" /\ mail[m].draft = mail[n].draft
          => m = n
    /\ \A i \in DOMAIN history : Witnessed(history[i])
    /\ \A m \in DOMAIN mail : mail[m].label = "gone" =>
          \E i \in DOMAIN history : history[i].message = m /\ history[i].op = "delete"

\* Where an attempt is, and how its range lies to the cursor.
StagesRight ==
    /\ pass.at = "idle" => pass = Idle
    /\ pass.at # "idle" => pass.kind \in {"catchup", "final"}
    /\ pass.kind = "catchup" => replica.ready /\ ~pass.syncing
    /\ pass.kind = "final" => ~replica.ready /\ replica.owed = {}
    /\ pass.at \in {"read", "fetch", "apply"} => pass.start <= From /\ ~pass.syncing
    /\ pass.at \in {"fetch", "apply"} =>
          From <= pass.upto /\ pass.upto <= Len(history)
    /\ pass.at \in {"list", "refresh", "store", "save", "replace", "ready"} =>
          pass.upto = From
    /\ pass.at \in {"replace", "ready"} => pass.syncing
    /\ pass.at = "replace" => pass.todo = <<>>
    /\ pass.at \in {"refresh", "store", "save"} => pass.todo # <<>>
    /\ pass.at = "list" /\ ~pass.syncing => pass.todo # <<>>

\* The changes that a range has become.
Ranged == pass.start + 1 .. pass.upto
ChangeRight(m) ==
    /\ pass.batch[m].op = "keep" => \A i \in Ranged : history[i].message # m
    /\ pass.batch[m].op # "keep" => m \in DOMAIN mail
    /\ pass.batch[m].op = "delete" => mail[m].label = "gone"
    /\ pass.batch[m].op = "labels" => pass.batch[m].label = "sent" /\ mail[m].label = "sent"
    /\ \A i \in Ranged : history[i].message = m /\ history[i].op = "delete" =>
          pass.batch[m].op = "delete"
    /\ \A i \in Ranged : history[i].message = m /\ history[i].related => m \in Range(pass.todo)
    /\ pass.at = "apply" /\ pass.batch[m].op = "upsert" =>
          pass.batch[m].label = LabelOf(m) \/ Later(m)
BatchRight == pass.at \in {"fetch", "apply"} => \A m \in Message : ChangeRight(m)

\* A message is refreshed once, and a draft is listed once; a message that is
\* still in a draft was listed.
TodoRight ==
    /\ Range(pass.todo) \subseteq DOMAIN mail
    /\ \A i, j \in DOMAIN pass.todo : i # j => pass.todo[i] # pass.todo[j]
ReferencesRight ==
    /\ \A r \in pass.references : Of(r.message, r.draft)
    /\ \A r, s \in pass.references : r.draft = s.draft => r = s
    /\ pass.at \in {"refresh", "store", "save"} =>
          \A m \in Range(pass.todo) : mail[m].label = "draft" =>
              [message |-> m, draft |-> mail[m].draft] \in pass.references

\* The draft in hand: the message it holds by now is this one, or a later one.
InHand(g) ==
    /\ pass.got = {g}
    /\ [message |-> Head(pass.todo), draft |-> g.draft] \in pass.references
    /\ Of(g.message, g.draft) /\ StillIn(g.message)
    /\ \A m \in MessagesOf(g.draft) : m = g.message \/ Came(m)
    /\ pass.at = "save" => stored[g.message] = "draft"
GotRight == pass.at \in {"store", "save"} => \E g \in pass.got : InHand(g)

\* What a finalization has collected, and that it goes through all drafts.
Collects(c, d) ==
    \/ Came(c)
    \/ [message |-> c, draft |-> d] \in pass.found
    \/ c \in Range(pass.todo) /\ [message |-> c, draft |-> d] \in pass.references
FoundRight ==
    /\ ~pass.syncing \/ pass.at = "list" => pass.found = {}
    /\ \A f \in pass.found :
          Of(f.message, f.draft) /\ StillIn(f.message) /\ stored[f.message] = "draft"
    /\ \A f, g \in pass.found : f.draft = g.draft => f = g
    /\ \A f \in pass.found, r \in pass.references : f.draft # r.draft
    /\ pass.syncing /\ pass.at \in {"refresh", "store", "save", "replace"} =>
          \A d \in Draft : \A c \in MessagesOf(d) : Collects(c, d)

\* What is stored is so, or the next range says otherwise, or the walk of a repair
\* will put it right, or no repair ever looks at it again.
Unwalked(m) == m \in DOMAIN mail /\ mail[m].draft \in replica.owed
StoresRight(m) == stored[m] = LabelOf(m) \/ Touched(m) \/ Unwalked(m) \/ Forgotten(m)
StoredRight ==
    /\ replica.ready => replica.owed = {}
    /\ replica.owed # {} => replica.cursor <= replica.base
    /\ \A m \in Message : StoresRight(m)
RowsNamed == \A d \in Draft : rows[d].message # 0 => Of(rows[d].message, d)

\* A row that is not right is owed: to the next range, to the refresh that is
\* under way, or to one that was cut off.
Owed(m) == m \in missed \/ m \in CutOff
RowsHold == replica.ready \/ (pass.at = "ready" /\ connected)
RowRight(d) ==
    /\ \A m \in MessagesOf(d) : ShownOf(d) = m \/ Came(m) \/ Owed(m)
    /\ \A m \in Message : ShownOf(d) = m => StillIn(m) \/ Owed(m)
RowsRight == RowsHold => \A d \in Draft : RowRight(d)

PassRight ==
    StagesRight /\ BatchRight /\ TodoRight /\ ReferencesRight /\ GotRight /\ FoundRight
DraftsInv ==
    DraftsTypeOK /\ MailboxRight /\ PassRight /\ StoredRight /\ RowsNamed /\ RowsRight

-----------------------------------------------------------------------------
(* Places and orders.                                                      *)

LEMMA Lowest ==
    ASSUME NEW T \in SUBSET Nat, T # {}
    PROVE  \E x \in T : \A y \in T : x <= y
  <1>. DEFINE R == OpToRel(<, Nat)
  <1>1. IsWellFoundedOn(R, Nat)  BY NatLessThanWellFounded
  <1>2. \A x, y \in Nat : x < y => <<x, y>> \in R  BY DEF OpToRel
  <1>. HIDE DEF R
  <1>3. PICK x \in T : \A y \in T : ~(<<y, x>> \in R)  BY <1>1, WFMin
  <1>4. \A y \in T : ~(y < x)  BY <1>2, <1>3
  <1>. QED  BY <1>3, <1>4

LEMMA Highest ==
    ASSUME NEW n \in Nat, NEW T \in SUBSET (1..n), T # {}
    PROVE  \E x \in T : \A y \in T : x >= y
  <1>. DEFINE U == {n - x : x \in T}
  <1>1. U \in SUBSET Nat /\ U # {}
    <2>1. \A x \in T : x \in Int /\ n - x \in Nat  OBVIOUS
    <2>2. PICK x \in T : TRUE  OBVIOUS
    <2>3. n - x \in U  OBVIOUS
    <2>. QED  BY <2>1, <2>3
  <1>2. PICK u \in U : \A v \in U : u <= v
    <2>. HIDE DEF U
    <2>. QED  BY <1>1, Lowest
  <1>3. PICK x \in T : u = n - x  BY <1>2
  <1>4. \A y \in T : n - x <= n - y  BY <1>2, <1>3
  <1>5. \A y \in T : x >= y  BY <1>3, <1>4
  <1>. QED  BY <1>3, <1>5

LEMMA AppendIs ==
    ASSUME NEW S, NEW s \in Seq(S), NEW x \in S
    PROVE  /\ Append(s, x) \in Seq(S) /\ Len(Append(s, x)) = Len(s) + 1
           /\ DOMAIN Append(s, x) = 1..Len(s) + 1
           /\ \A i \in DOMAIN s : Append(s, x)[i] = s[i]
           /\ Append(s, x)[Len(s) + 1] = x
  <1>1. Append(s, x) \in Seq(S) /\ Len(Append(s, x)) = Len(s) + 1  OBVIOUS
  <1>2. DOMAIN Append(s, x) = 1..Len(s) + 1  BY <1>1
  <1>3. \A i \in DOMAIN s : Append(s, x)[i] = s[i]  OBVIOUS
  <1>4. Append(s, x)[Len(s) + 1] = x  OBVIOUS
  <1>. QED  BY <1>1, <1>2, <1>3, <1>4

LEMMA TwoMoreAre ==
    ASSUME NEW S, NEW s \in Seq(S), NEW x \in S, NEW y \in S
    PROVE  /\ s \o <<x, y>> \in Seq(S) /\ Len(s \o <<x, y>>) = Len(s) + 2
           /\ \A i \in DOMAIN s : (s \o <<x, y>>)[i] = s[i]
           /\ (s \o <<x, y>>)[Len(s) + 1] = x
           /\ (s \o <<x, y>>)[Len(s) + 2] = y
  <1>1. s \o <<x, y>> \in Seq(S) /\ Len(s \o <<x, y>>) = Len(s) + 2  OBVIOUS
  <1>2. \A i \in DOMAIN s : (s \o <<x, y>>)[i] = s[i]  OBVIOUS
  <1>3. (s \o <<x, y>>)[Len(s) + 1] = x  OBVIOUS
  <1>4. (s \o <<x, y>>)[Len(s) + 2] = y  OBVIOUS
  <1>. QED  BY <1>1, <1>2, <1>3, <1>4

LEMMA UpdateIs ==
    ASSUME NEW S, NEW s \in Seq(S), NEW i \in 1..Len(s), NEW x \in S
    PROVE  /\ [s EXCEPT ![i] = x] \in Seq(S) /\ Len([s EXCEPT ![i] = x]) = Len(s)
           /\ DOMAIN [s EXCEPT ![i] = x] = DOMAIN s
           /\ [s EXCEPT ![i] = x][i] = x
           /\ \A j \in DOMAIN s : j # i => [s EXCEPT ![i] = x][j] = s[j]
  <1>. DEFINE t == [s EXCEPT ![i] = x]
  <1>1. Len(s) \in Nat /\ DOMAIN s = 1..Len(s) /\ s \in [1..Len(s) -> S]
    OBVIOUS
  <1>2. t \in [1..Len(s) -> S] /\ t[i] = x /\ \A j \in DOMAIN s : j # i => t[j] = s[j]
    BY <1>1
  <1>. HIDE DEF t
  <1>3. t \in Seq(S) /\ Len(t) = Len(s) /\ DOMAIN t = DOMAIN s  BY <1>1, <1>2
  <1>. QED  BY <1>2, <1>3 DEF t

\* The elements that come before another, and how many.
Before(messages, place, m) == {n \in messages : place[n] < place[m]}
Number(messages, place) == [m \in messages |-> 1 + Cardinality(Before(messages, place, m))]

LEMMA Numbers ==
    ASSUME NEW messages \in SUBSET Message, NEW place \in [messages -> Nat],
           \A m, n \in messages : place[m] = place[n] => m = n
    PROVE  /\ IsFiniteSet(messages) /\ Cardinality(messages) \in Nat
           /\ Number(messages, place) \in Injection(messages, 1..Cardinality(messages))
           /\ \A m, n \in messages :
                Number(messages, place)[m] < Number(messages, place)[n] => place[m] < place[n]
  <1>. DEFINE c == Cardinality(messages)
              r == Number(messages, place)
              B(m) == Before(messages, place, m)
  <1>1. IsFiniteSet(messages) /\ c \in Nat
    <2>1. IsFiniteSet(Message)
      BY DraftResourcesAssumption, FS_Interval DEF Message
    <2>. QED  BY <2>1, FS_Subset, FS_CardinalityType
  <1>2. ASSUME NEW m \in messages
        PROVE  IsFiniteSet(B(m)) /\ Cardinality(B(m)) \in Nat /\ Cardinality(B(m)) < c
    <2>1. B(m) \in SUBSET messages /\ m \notin B(m)  BY DEF Before
    <2>2. IsFiniteSet(B(m)) /\ Cardinality(B(m)) <= c /\ (c = Cardinality(B(m)) => messages = B(m))
      BY <1>1, <2>1, FS_Subset
    <2>3. Cardinality(B(m)) \in Nat  BY <2>2, FS_CardinalityType
    <2>4. messages # B(m)  BY <2>1
    <2>. QED  BY <1>1, <2>2, <2>3, <2>4
  <1>3. ASSUME NEW m \in messages, NEW n \in messages, place[m] < place[n]
        PROVE  Cardinality(B(m)) < Cardinality(B(n))
    <2>1. B(m) \in SUBSET B(n)  BY <1>3 DEF Before
    <2>2. m \in B(n) /\ m \notin B(m)  BY <1>3 DEF Before
    <2>3. Cardinality(B(m)) <= Cardinality(B(n)) /\ (Cardinality(B(n)) = Cardinality(B(m)) => B(n) = B(m))
      BY <1>2, <2>1, FS_Subset
    <2>4. B(n) # B(m)  BY <2>2
    <2>. QED  BY <1>2, <2>3, <2>4
  <1>4. \A m \in messages : r[m] = 1 + Cardinality(B(m))  BY DEF Number
  <1>5. r \in [messages -> 1..c]
    <2>1. \A m \in messages : 1 + Cardinality(B(m)) \in 1..c  BY <1>1, <1>2
    <2>. QED  BY <2>1 DEF Number
  <1>6. ASSUME NEW m \in messages, NEW n \in messages, m # n PROVE r[m] # r[n]
    <2>1. place[m] \in Nat /\ place[n] \in Nat /\ place[m] # place[n]  BY <1>6
    <2>2. place[m] < place[n] \/ place[n] < place[m]  BY <2>1
    <2>3. Cardinality(B(m)) # Cardinality(B(n))  BY <2>2, <1>2, <1>3
    <2>. QED  BY <1>2, <1>4, <2>3
  <1>7. r \in Injection(messages, 1..c)
    <2>1. \A m, n \in DOMAIN r : r[m] = r[n] => m = n  BY <1>5, <1>6
    <2>. QED  BY <1>5, <2>1 DEF Injection, IsInjective
  <1>8. ASSUME NEW m \in messages, NEW n \in messages, r[m] < r[n]
        PROVE  place[m] < place[n]
    <2>1. Cardinality(B(m)) < Cardinality(B(n))  BY <1>2, <1>4, <1>8
    <2>2. m # n /\ ~(place[n] < place[m])  BY <2>1, <1>2, <1>3
    <2>3. place[m] \in Nat /\ place[n] \in Nat /\ place[m] # place[n]  BY <2>2
    <2>. QED  BY <2>2, <2>3
  <1>. QED  BY <1>1, <1>7, <1>8

\* Each of the messages is in the order once, and nothing else.
LEMMA InOrderIs ==
    ASSUME NEW messages \in SUBSET Message, NEW place \in [messages -> Nat],
           \A m, n \in messages : place[m] = place[n] => m = n
    PROVE  /\ InOrder(messages, place) \in Seq(Message)
           /\ Range(InOrder(messages, place)) = messages
           /\ \A i, j \in DOMAIN InOrder(messages, place) :
                i # j => InOrder(messages, place)[i] # InOrder(messages, place)[j]
  <1>. DEFINE c == Cardinality(messages)
              r == Number(messages, place)
              P(s) == \A i, j \in DOMAIN s : i < j => place[s[i]] < place[s[j]]
              q == [i \in 1..c |-> CHOOSE m \in messages : r[m] = i]
  <1>1. IsFiniteSet(messages) /\ c \in Nat /\ r \in Injection(messages, 1..c)
    BY Numbers
  <1>2. IsFiniteSet(1..c) /\ Cardinality(1..c) = c  BY <1>1, FS_Interval
  <1>3. r \in Surjection(messages, 1..c)  BY <1>1, <1>2, FS_Injection
  <1>4. \A i \in 1..c : \E m \in messages : r[m] = i  BY <1>3 DEF Surjection
  <1>5. \A i \in 1..c : q[i] \in messages /\ r[q[i]] = i  BY <1>4
  <1>6. q \in SetToSeqs(messages)
    <2>1. q \in [1..c -> messages]  BY <1>5
    <2>2. \A i, j \in 1..c : i # j => q[i] # q[j]  BY <1>5
    <2>. QED  BY <2>1, <2>2 DEF SetToSeqs
  <1>7. P(q)
    <2>1. DOMAIN q = 1..c  OBVIOUS
    <2>2. \A i, j \in 1..c : i < j => place[q[i]] < place[q[j]]
      BY <1>5, Numbers
    <2>. QED  BY <2>1, <2>2
  <1>. DEFINE s == InOrder(messages, place)
  <1>8. s \in SetToSeqs(messages)
    <2>1. s = CHOOSE x \in SetToSeqs(messages) : P(x)  BY DEF InOrder
    <2>. HIDE DEF s, P, q
    <2>. QED  BY <1>6, <1>7, <2>1
  <1>9. s \in [1..c -> messages] /\ \A i, j \in 1..c : i # j => s[i] # s[j]
    BY <1>8 DEF SetToSeqs
  <1>10. s \in Injection(1..c, messages)
    <2>. HIDE DEF s
    <2>. QED  BY <1>9 DEF Injection, IsInjective
  <1>11. s \in Surjection(1..c, messages)
    <2>. HIDE DEF s
    <2>. QED  BY <1>1, <1>2, <1>10, FS_Injection
  <1>12. DOMAIN s = 1..c
    <2>. HIDE DEF s
    <2>. QED  BY <1>9
  <1>13. Range(s) = messages
    <2>. HIDE DEF s
    <2>1. \A m \in messages : \E i \in 1..c : s[i] = m  BY <1>11 DEF Surjection
    <2>. QED  BY <1>9, <1>12, <2>1 DEF Range
  <1>14. s \in Seq(Message)
    <2>. HIDE DEF s
    <2>1. s \in Seq(messages)  BY <1>1, <1>9
    <2>. QED  BY <2>1
  <1>. QED  BY <1>9, <1>12, <1>13, <1>14

-----------------------------------------------------------------------------
(* Gmail.                                                                  *)

Entry == [draft : Draft, label : Label]

LEMMA MailTyped ==
    ASSUME DraftsTypeOK
    PROVE  /\ mail \in Seq(Entry) /\ Len(mail) \in Nat /\ Len(mail) <= MaxMessages
           /\ DOMAIN mail = 1..Len(mail) /\ DOMAIN mail \subseteq Message
           /\ Message \subseteq Nat /\ 0 \notin Message /\ MaxMessages \in Nat
           /\ \A m \in DOMAIN mail : mail[m] \in Entry /\ mail[m].draft \in Draft
                                     /\ mail[m].label \in Label
           /\ history \in Seq(Record) /\ Len(history) \in Nat /\ DOMAIN history = 1..Len(history)
           /\ \A i \in 1..Len(history) : history[i] \in Record /\ history[i].message \in Message
                                         /\ history[i].op \in {"upsert", "labels", "delete"}
                                         /\ history[i].label \in Label
  <1>1. mail \in Seq(Entry) /\ Len(mail) <= MaxMessages /\ history \in Seq(Record)
    BY DEF DraftsTypeOK, Entry
  <1>2. MaxMessages \in Nat  BY DraftResourcesAssumption
  <1>3. Message \subseteq Nat /\ 0 \notin Message  BY <1>2 DEF Message
  <1>4. Len(mail) \in Nat /\ DOMAIN mail = 1..Len(mail)  BY <1>1
  <1>5. DOMAIN mail \subseteq Message  BY <1>1, <1>2, <1>4 DEF Message
  <1>6. ASSUME NEW m \in DOMAIN mail
        PROVE  mail[m] \in Entry /\ mail[m].draft \in Draft /\ mail[m].label \in Label
    <2>1. mail[m] \in Entry  BY <1>1, <1>4
    <2>. QED  BY <2>1 DEF Entry
  <1>7. Len(history) \in Nat /\ DOMAIN history = 1..Len(history)  BY <1>1
  <1>8. ASSUME NEW i \in 1..Len(history)
        PROVE  history[i] \in Record /\ history[i].message \in Message
               /\ history[i].op \in {"upsert", "labels", "delete"} /\ history[i].label \in Label
    <2>1. history[i] \in Record  BY <1>1, <1>7
    <2>. QED  BY <2>1 DEF Record
  <1>. QED  BY <1>1, <1>2, <1>3, <1>4, <1>5, <1>6, <1>7, <1>8

LEMMA MessagesOfIs ==
    ASSUME DraftsTypeOK, NEW d, NEW m
    PROVE  m \in MessagesOf(d) <=>
           m \in DOMAIN mail /\ mail[m].draft = d /\ mail[m].label = "draft"
  <1>1. ASSUME m \in DOMAIN mail
        PROVE  mail[m] = [draft |-> d, label |-> "draft"] <=>
               mail[m].draft = d /\ mail[m].label = "draft"
    <2>1. mail[m] \in Entry  BY <1>1, MailTyped
    <2>. QED  BY <2>1 DEF Entry
  <1>. QED  BY <1>1 DEF MessagesOf

LEMMA CurrentIs ==
    ASSUME DraftsTypeOK, MailboxRight, NEW d
    PROVE  /\ Current(d) \in 0..MaxMessages
           /\ Current(d) = 0 <=> MessagesOf(d) = {}
           /\ \A m \in MessagesOf(d) : m = Current(d)
           /\ Current(d) # 0 => /\ Current(d) \in MessagesOf(d) /\ Current(d) \in DOMAIN mail
                                /\ mail[Current(d)].draft = d /\ mail[Current(d)].label = "draft"
  <1>1. ASSUME NEW m \in MessagesOf(d)
        PROVE  m \in DOMAIN mail /\ mail[m].draft = d /\ mail[m].label = "draft" /\ m # 0
               /\ m \in 0..MaxMessages
    <2>1. m \in DOMAIN mail /\ mail[m].draft = d /\ mail[m].label = "draft"
      BY MessagesOfIs
    <2>2. m \in Message  BY <2>1, MailTyped
    <2>. QED  BY <2>1, <2>2, MailTyped DEF Message
  <1>2. \A m, n \in MessagesOf(d) : m = n  BY <1>1 DEF MailboxRight
  <1>3. CASE MessagesOf(d) = {}
    <2>1. Current(d) = 0  BY <1>3 DEF Current
    <2>. QED  BY <1>3, <2>1, MailTyped
  <1>4. CASE MessagesOf(d) # {}
    <2>1. Current(d) \in MessagesOf(d)  BY <1>4 DEF Current
    <2>. QED  BY <1>1, <1>2, <1>4, <2>1
  <1>. QED  BY <1>3, <1>4

\* What a step of Gmail does to the messages there are.
Ages ==
    /\ DOMAIN mail \subseteq DOMAIN mail'
    /\ \A m \in DOMAIN mail :
          /\ mail'[m].draft = mail[m].draft
          /\ mail'[m].label = mail[m].label
             \/ (mail[m].label = "draft" /\ mail'[m].label # "draft")
\* It leaves a record of every one that it changes or adds.
Records(m, ops) ==
    \E i \in Len(history) + 1 .. Len(history') : history'[i].message = m /\ history'[i].op \in ops
Tells ==
    /\ Len(history) <= Len(history')
    /\ \A i \in DOMAIN history : history'[i] = history[i]
    /\ \A m \in DOMAIN mail : mail'[m].label # mail[m].label => Records(m, {"labels", "delete"})
    /\ \A m \in DOMAIN mail' \ DOMAIN mail : Records(m, {"upsert"})
Grows ==
    /\ UNCHANGED <<connected, replica, stored, rows, pass, retry, missed, mishaps>>
    /\ mail' \in Seq(Entry) /\ Len(mail') <= MaxMessages /\ history' \in Seq(Record)
    /\ Ages /\ Tells /\ MailboxRight'

LEMMA OldWitnessed ==
    ASSUME DraftsTypeOK, MailboxRight, Ages, NEW i \in DOMAIN history, history'[i] = history[i]
    PROVE  Witnessed(history[i])'
  <1>. DEFINE r == history[i]
  <1>1. Witnessed(r)  BY DEF MailboxRight
  <1>. HIDE DEF r
  <1>2. r.message \in DOMAIN mail /\ r.message \in DOMAIN mail'
    BY <1>1 DEF Witnessed, Ages
  <1>3. mail'[r.message].label = mail[r.message].label
        \/ (mail[r.message].label = "draft" /\ mail'[r.message].label # "draft")
    BY <1>2 DEF Ages
  <1>4. /\ r.message \in DOMAIN mail'
        /\ r.op = "delete" => mail'[r.message].label = "gone"
        /\ r.op = "labels" => r.label = "sent" /\ r.related /\ mail'[r.message].label = "sent"
        /\ r.op = "upsert" /\ mail'[r.message].label = "draft" => r.related
    BY <1>1, <1>2, <1>3 DEF Witnessed
  <1>. QED  BY <1>4 DEF Witnessed, r

\* Every message that is gone by now has its record.
LEMMA GoneTold ==
    ASSUME DraftsTypeOK, MailboxRight, Tells, NEW c \in DOMAIN mail', mail'[c].label = "gone",
           /\ DOMAIN history' = 1 .. Len(history') /\ Len(history') \in Nat
           /\ \A m \in DOMAIN mail' : mail'[m].label = "gone" =>
                 \/ m \in DOMAIN mail /\ mail[m].label = "gone"
                 \/ Records(m, {"delete"})
    PROVE  \E i \in DOMAIN history' : history'[i].message = c /\ history'[i].op = "delete"
  <1>1. /\ DOMAIN history = 1 .. Len(history) /\ Len(history) \in Nat
        /\ Len(history) <= Len(history')
    BY MailTyped DEF Tells
  <1>2. CASE c \in DOMAIN mail /\ mail[c].label = "gone"
    <2>1. PICK i \in DOMAIN history : history[i].message = c /\ history[i].op = "delete"
      BY <1>2 DEF MailboxRight
    <2>2. i \in DOMAIN history' /\ history'[i] = history[i]  BY <1>1 DEF Tells
    <2>. QED  BY <2>1, <2>2
  <1>3. CASE Records(c, {"delete"})
    <2>1. PICK i \in Len(history) + 1 .. Len(history') :
            history'[i].message = c /\ history'[i].op \in {"delete"}
      BY <1>3 DEF Records
    <2>2. i \in DOMAIN history'  BY <1>1
    <2>. QED  BY <2>1, <2>2
  <1>. QED  BY <1>2, <1>3

LEMMA RecordsTyped ==
    ASSUME NEW m \in Message, NEW label \in Label, NEW labelled \in BOOLEAN
    PROVE  /\ Added(m, label) \in Record /\ Gone(m, labelled) \in Record /\ Relabelled(m) \in Record
           /\ Added(m, label).message = m /\ Added(m, label).op = "upsert"
           /\ Added(m, label).label = label /\ (label = "draft" => Added(m, label).related)
           /\ Gone(m, labelled).message = m /\ Gone(m, labelled).op = "delete"
           /\ Relabelled(m).message = m /\ Relabelled(m).op = "labels"
           /\ Relabelled(m).label = "sent" /\ Relabelled(m).related
BY DEF Added, Gone, Relabelled, Record, Label

LEMMA ComposeGrows ==
    ASSUME DraftsTypeOK, MailboxRight, NEW d \in Draft, ComposeDraft(d)
    PROVE  Grows
  <1>. DEFINE n == NextMessage
              e == [draft |-> d, label |-> "draft"]
              r == Added(n, "draft")
  <1>1. n = Len(mail) + 1 /\ n \in Message /\ n \notin DOMAIN mail
    BY MailTyped DEF NextMessage, ComposeDraft, Message
  <1>2. e \in Entry  BY DEF Entry, Label
  <1>3. mail' = Append(mail, e) /\ history' = Append(history, r)
    BY DEF ComposeDraft, Written
  <1>4. r \in Record /\ r.message = n /\ r.op = "upsert" /\ r.related
    BY <1>1, RecordsTyped DEF Label
  <1>. HIDE DEF n, e, r
  <1>5. /\ mail' \in Seq(Entry) /\ Len(mail') = Len(mail) + 1 /\ DOMAIN mail' = DOMAIN mail \union {n}
        /\ \A m \in DOMAIN mail : mail'[m] = mail[m]
        /\ mail'[n] = e
    <2>1. mail \in Seq(Entry) /\ Len(mail) \in Nat /\ DOMAIN mail = 1..Len(mail)
      BY MailTyped
    <2>2. 1..Len(mail) + 1 = DOMAIN mail \union {n}  BY <1>1, <2>1
    <2>. QED  BY <1>1, <1>2, <1>3, <2>1, <2>2, AppendIs
  <1>6. /\ history' \in Seq(Record) /\ Len(history') = Len(history) + 1
        /\ \A i \in DOMAIN history : history'[i] = history[i]
        /\ history'[Len(history) + 1] = r
    BY <1>3, <1>4, MailTyped, AppendIs
  <1>7. Len(mail') <= MaxMessages  BY <1>5, MailTyped DEF ComposeDraft
  <1>8. Ages
    <2>1. DOMAIN mail \subseteq DOMAIN mail'  BY <1>5
    <2>2. ASSUME NEW m \in DOMAIN mail
          PROVE  mail'[m].draft = mail[m].draft /\ mail'[m].label = mail[m].label
      BY <1>5
    <2>. QED  BY <2>1, <2>2 DEF Ages
  <1>9. Tells
    <2>1. Records(n, {"upsert"})  BY <1>4, <1>6, MailTyped DEF Records
    <2>2. \A m \in DOMAIN mail' \ DOMAIN mail : m = n  BY <1>5
    <2>3. Len(history) <= Len(history')  BY <1>6, MailTyped
    <2>. QED  BY <1>5, <1>6, <2>1, <2>2, <2>3 DEF Tells
  <1>10. MailboxRight'
    <2>1. ASSUME NEW m \in DOMAIN mail, mail[m].draft = d PROVE FALSE
      BY <2>1 DEF ComposeDraft
    <2>2. ASSUME NEW m \in DOMAIN mail', NEW k \in DOMAIN mail', mail'[m].label = "draft",
                 mail'[k].label = "draft", mail'[m].draft = mail'[k].draft
          PROVE  m = k
      <3>1. e.draft = d  BY DEF e
      <3>2. CASE m \in DOMAIN mail /\ k \in DOMAIN mail
        BY <1>5, <2>2, <3>2 DEF MailboxRight
      <3>3. CASE m = n /\ k \in DOMAIN mail  BY <1>5, <2>1, <2>2, <3>1, <3>3
      <3>4. CASE k = n /\ m \in DOMAIN mail  BY <1>5, <2>1, <2>2, <3>1, <3>4
      <3>. QED  BY <1>5, <3>2, <3>3, <3>4
    <2>3. ASSUME NEW i \in DOMAIN history' PROVE Witnessed(history[i])'
      <3>1. CASE i \in DOMAIN history  BY <1>6, <1>8, <3>1, OldWitnessed
      <3>2. CASE i \notin DOMAIN history
        <4>1. i = Len(history) + 1  BY <1>6, <3>2, MailTyped
        <4>. QED  BY <1>4, <1>5, <1>6, <4>1 DEF Witnessed
      <3>. QED  BY <3>1, <3>2
    <2>4. \A m \in DOMAIN mail' : mail'[m].label = "gone" =>
              m \in DOMAIN mail /\ mail[m].label = "gone"
      <3>1. e.label # "gone"  BY DEF e
      <3>. QED  BY <1>5, <3>1
    <2>5. DOMAIN history' = 1 .. Len(history') /\ Len(history') \in Nat  BY <1>6
    <2>. QED  BY <1>9, <2>2, <2>3, <2>4, <2>5, GoneTold DEF MailboxRight
  <1>. QED  BY <1>5, <1>6, <1>7, <1>8, <1>9, <1>10 DEF Grows, ComposeDraft

\* A draft that is written over, or that is sent as another message.
LEMMA ReplacingGrows ==
    ASSUME DraftsTypeOK, MailboxRight, NEW d \in Draft, NEW label \in {"draft", "sent"},
           NEW labelled \in BOOLEAN, Len(mail) < MaxMessages, Current(d) # 0,
           mail' = [Written(d, label) EXCEPT ![Current(d)].label = "gone"],
           history' = history \o <<Added(NextMessage, label), Gone(Current(d), labelled)>>,
           UNCHANGED <<connected, replica, stored, rows, pass, retry, missed, mishaps>>
    PROVE  Grows
  <1>. DEFINE n == NextMessage
              c == Current(d)
              e == [draft |-> d, label |-> label]
              r == Added(n, label)
              s == Gone(c, labelled)
              w == Append(mail, e)
  <1>1. n = Len(mail) + 1 /\ n \in Message /\ n \notin DOMAIN mail
    BY MailTyped DEF NextMessage, Message
  <1>2. /\ c \in DOMAIN mail /\ mail[c].draft = d /\ mail[c].label = "draft" /\ c # n
        /\ c \in Message
    BY <1>1, CurrentIs, MailTyped
  <1>3. e \in Entry /\ e.draft = d /\ e.label = label  BY DEF Entry, Label
  <1>4. mail' = [w EXCEPT ![c].label = "gone"] /\ history' = history \o <<r, s>>
    BY DEF Written
  <1>5. r \in Record /\ r.message = n /\ r.op = "upsert" /\ (label = "draft" => r.related)
    BY <1>1, RecordsTyped DEF Label
  <1>6. s \in Record /\ s.message = c /\ s.op = "delete"
    BY <1>2, RecordsTyped DEF Label
  <1>. HIDE DEF n, c, e, r, s
  <1>7. /\ w \in Seq(Entry) /\ Len(w) = Len(mail) + 1 /\ DOMAIN w = DOMAIN mail \union {n}
        /\ \A m \in DOMAIN mail : w[m] = mail[m]
        /\ w[n] = e
    <2>1. mail \in Seq(Entry) /\ Len(mail) \in Nat /\ DOMAIN mail = 1..Len(mail)
      BY MailTyped
    <2>2. 1..Len(mail) + 1 = DOMAIN mail \union {n}  BY <1>1, <2>1
    <2>. QED  BY <1>1, <1>3, <2>1, <2>2, AppendIs
  <1>. HIDE DEF w
  <1>8. c \in 1..Len(w) /\ w[c] \in Entry  BY <1>2, <1>7, MailTyped
  <1>9. [w[c] EXCEPT !.label = "gone"] \in Entry  BY <1>8 DEF Entry, Label
  <1>10. /\ mail' \in Seq(Entry) /\ Len(mail') = Len(mail) + 1 /\ DOMAIN mail' = DOMAIN mail \union {n}
         /\ \A m \in DOMAIN mail : m # c => mail'[m] = mail[m]
         /\ mail'[n] = e
         /\ mail'[c] = [mail[c] EXCEPT !.label = "gone"]
    <2>1. mail' = [w EXCEPT ![c] = [w[c] EXCEPT !.label = "gone"]]  BY <1>4
    <2>. DEFINE x == [w[c] EXCEPT !.label = "gone"]
    <2>2. x \in Entry  BY <1>9
    <2>. HIDE DEF x
    <2>3. /\ mail' \in Seq(Entry) /\ Len(mail') = Len(w) /\ DOMAIN mail' = DOMAIN w
          /\ mail'[c] = x
          /\ \A m \in DOMAIN w : m # c => mail'[m] = w[m]
      <3>1. mail' = [w EXCEPT ![c] = x]  BY <2>1 DEF x
      <3>2. w \in Seq(Entry) /\ c \in 1..Len(w)  BY <1>7, <1>8
      <3>. DEFINE t == [w EXCEPT ![c] = x]
      <3>3. /\ t \in Seq(Entry) /\ Len(t) = Len(w) /\ DOMAIN t = DOMAIN w /\ t[c] = x
            /\ \A m \in DOMAIN w : m # c => t[m] = w[m]
        BY <2>2, <3>2, UpdateIs
      <3>4. mail' = t  BY <3>1
      <3>. HIDE DEF t
      <3>. QED  BY <3>3, <3>4
    <2>. USE DEF x
    <2>. QED  BY <1>1, <1>2, <1>7, <2>3
  <1>11. mail'[c].draft = d /\ mail'[c].label = "gone"
    BY <1>2, <1>10, MailTyped DEF Entry
  <1>12. /\ history' \in Seq(Record) /\ Len(history') = Len(history) + 2
         /\ \A i \in DOMAIN history : history'[i] = history[i]
         /\ history'[Len(history) + 1] = r /\ history'[Len(history) + 2] = s
    BY <1>4, <1>5, <1>6, MailTyped, TwoMoreAre
  <1>13. Len(mail') <= MaxMessages  BY <1>10, MailTyped
  <1>14. Ages
    <2>1. DOMAIN mail \subseteq DOMAIN mail'  BY <1>10
    <2>2. ASSUME NEW m \in DOMAIN mail, m # c
          PROVE  mail'[m].draft = mail[m].draft /\ mail'[m].label = mail[m].label
      BY <1>10, <2>2
    <2>3. mail'[c].draft = mail[c].draft /\ mail[c].label = "draft" /\ mail'[c].label # "draft"
      BY <1>2, <1>11
    <2>. QED  BY <2>1, <2>2, <2>3 DEF Ages
  <1>15. Tells
    <2>1. Len(history) + 1 \in Len(history) + 1 .. Len(history')
          /\ Len(history) + 2 \in Len(history) + 1 .. Len(history')
      BY <1>12, MailTyped
    <2>5. Records(n, {"upsert"})  BY <1>5, <1>12, <2>1 DEF Records
    <2>6. Records(c, {"labels", "delete"})  BY <1>6, <1>12, <2>1 DEF Records
    <2>2. \A m \in DOMAIN mail' \ DOMAIN mail : m = n  BY <1>10
    <2>3. Len(history) <= Len(history')  BY <1>12, MailTyped
    <2>4. \A m \in DOMAIN mail : mail'[m].label # mail[m].label => m = c
      BY <1>10
    <2>. QED  BY <1>12, <2>2, <2>3, <2>4, <2>5, <2>6 DEF Tells
  <1>16. MailboxRight'
    <2>1. ASSUME NEW m \in DOMAIN mail', mail'[m].label = "draft", mail'[m].draft = d
          PROVE  m = n
      <3>1. m \in DOMAIN mail => m = c  BY <1>2, <1>10, <2>1 DEF MailboxRight
      <3>. QED  BY <1>10, <1>11, <2>1, <3>1
    <2>2. ASSUME NEW m \in DOMAIN mail', NEW k \in DOMAIN mail', mail'[m].label = "draft",
                 mail'[k].label = "draft", mail'[m].draft = mail'[k].draft
          PROVE  m = k
      <3>1. CASE mail'[m].draft = d  BY <2>1, <2>2, <3>1
      <3>2. CASE mail'[m].draft # d
        <4>1. m # n /\ k # n /\ m # c /\ k # c
          BY <1>3, <1>10, <1>11, <2>2, <3>2
        <4>2. m \in DOMAIN mail /\ k \in DOMAIN mail /\ mail'[m] = mail[m] /\ mail'[k] = mail[k]
          BY <1>10, <4>1
        <4>. QED  BY <2>2, <4>2 DEF MailboxRight
      <3>. QED  BY <3>1, <3>2
    <2>3. ASSUME NEW i \in DOMAIN history' PROVE Witnessed(history[i])'
      <3>1. CASE i \in DOMAIN history  BY <1>12, <1>14, <3>1, OldWitnessed
      <3>2. CASE i = Len(history) + 1
        BY <1>3, <1>5, <1>10, <1>12, <3>2 DEF Witnessed
      <3>3. CASE i = Len(history) + 2
        BY <1>2, <1>6, <1>10, <1>11, <1>12, <3>3 DEF Witnessed
      <3>4. i \in 1..Len(history) + 2  BY <1>12
      <3>. QED  BY <3>1, <3>2, <3>3, <3>4, MailTyped
    <2>4. Records(c, {"delete"})
      <3>1. Len(history) + 2 \in Len(history) + 1 .. Len(history')  BY <1>12, MailTyped
      <3>. QED  BY <1>6, <1>12, <3>1 DEF Records
    <2>5. \A m \in DOMAIN mail' : mail'[m].label = "gone" =>
              m = c \/ (m \in DOMAIN mail /\ mail[m].label = "gone")
      <3>1. e.label # "gone"  BY <1>3
      <3>. QED  BY <1>10, <3>1
    <2>6. DOMAIN history' = 1 .. Len(history') /\ Len(history') \in Nat  BY <1>12
    <2>7. ASSUME NEW m \in DOMAIN mail', mail'[m].label = "gone"
          PROVE  \E i \in DOMAIN history' : history'[i].message = m /\ history'[i].op = "delete"
      <3>1. \A k \in DOMAIN mail' : mail'[k].label = "gone" =>
               (k \in DOMAIN mail /\ mail[k].label = "gone") \/ Records(k, {"delete"})
        BY <2>4, <2>5
      <3>. QED  BY <1>15, <2>6, <2>7, <3>1, GoneTold
    <2>. QED  BY <2>2, <2>3, <2>7 DEF MailboxRight
  <1>. QED  BY <1>10, <1>12, <1>13, <1>14, <1>15, <1>16 DEF Grows

\* A draft that is sent as it is, or discarded.
LEMMA RelabellingGrows ==
    ASSUME DraftsTypeOK, MailboxRight, NEW d \in Draft, NEW label \in {"sent", "gone"},
           NEW r \in Record, Current(d) # 0, r.message = Current(d),
           \/ r.op = "labels" /\ r.label = "sent" /\ r.related /\ label = "sent"
           \/ r.op = "delete" /\ label = "gone",
           mail' = [mail EXCEPT ![Current(d)].label = label], history' = Append(history, r),
           UNCHANGED <<connected, replica, stored, rows, pass, retry, missed, mishaps>>
    PROVE  Grows
  <1>. DEFINE c == Current(d)
  <1>1. c \in DOMAIN mail /\ mail[c].draft = d /\ mail[c].label = "draft" /\ mail[c] \in Entry
    BY CurrentIs, MailTyped
  <1>2. mail' = [mail EXCEPT ![c] = [mail[c] EXCEPT !.label = label]] /\ r.message = c
    OBVIOUS
  <1>. HIDE DEF c
  <1>3. /\ [mail[c] EXCEPT !.label = label] \in Entry
        /\ [mail[c] EXCEPT !.label = label].draft = d
        /\ [mail[c] EXCEPT !.label = label].label = label
    BY <1>1 DEF Entry, Label
  <1>4. /\ mail' \in Seq(Entry) /\ Len(mail') = Len(mail) /\ DOMAIN mail' = DOMAIN mail
        /\ \A m \in DOMAIN mail : m # c => mail'[m] = mail[m]
        /\ mail'[c].draft = d /\ mail'[c].label = label
    <2>. DEFINE x == [mail[c] EXCEPT !.label = label]
    <2>1. x \in Entry /\ x.draft = d /\ x.label = label /\ mail' = [mail EXCEPT ![c] = x]
      BY <1>2, <1>3
    <2>. HIDE DEF x
    <2>2. mail \in Seq(Entry) /\ c \in 1..Len(mail)  BY <1>1, MailTyped
    <2>. DEFINE t == [mail EXCEPT ![c] = x]
    <2>3. /\ t \in Seq(Entry) /\ Len(t) = Len(mail) /\ DOMAIN t = DOMAIN mail /\ t[c] = x
          /\ \A m \in DOMAIN mail : m # c => t[m] = mail[m]
      BY <2>1, <2>2, UpdateIs
    <2>4. mail' = t  BY <2>1
    <2>. HIDE DEF t
    <2>. QED  BY <2>1, <2>3, <2>4
  <1>5. /\ history' \in Seq(Record) /\ Len(history') = Len(history) + 1
        /\ \A i \in DOMAIN history : history'[i] = history[i]
        /\ history'[Len(history) + 1] = r
    BY MailTyped, AppendIs
  <1>6. Ages
    <2>1. DOMAIN mail \subseteq DOMAIN mail'  BY <1>4
    <2>2. ASSUME NEW m \in DOMAIN mail, m # c
          PROVE  mail'[m].draft = mail[m].draft /\ mail'[m].label = mail[m].label
      BY <1>4, <2>2
    <2>3. mail'[c].draft = mail[c].draft /\ mail[c].label = "draft" /\ mail'[c].label # "draft"
      BY <1>1, <1>4
    <2>. QED  BY <2>1, <2>2, <2>3 DEF Ages
  <1>7. Tells
    <2>1. Records(c, {"labels", "delete"})  BY <1>2, <1>5, MailTyped DEF Records
    <2>2. Len(history) <= Len(history')  BY <1>5, MailTyped
    <2>. QED  BY <1>4, <1>5, <2>1, <2>2 DEF Tells
  <1>8. MailboxRight'
    <2>1. ASSUME NEW m \in DOMAIN mail', NEW k \in DOMAIN mail', mail'[m].label = "draft",
                 mail'[k].label = "draft", mail'[m].draft = mail'[k].draft
          PROVE  m = k
      <3>1. m # c /\ k # c  BY <1>4, <2>1
      <3>2. m \in DOMAIN mail /\ k \in DOMAIN mail /\ mail'[m] = mail[m] /\ mail'[k] = mail[k]
        BY <1>4, <3>1
      <3>. QED  BY <2>1, <3>2 DEF MailboxRight
    <2>2. ASSUME NEW i \in DOMAIN history' PROVE Witnessed(history[i])'
      <3>1. CASE i \in DOMAIN history  BY <1>5, <1>6, <3>1, OldWitnessed
      <3>2. CASE i = Len(history) + 1
        BY <1>1, <1>2, <1>4, <1>5, <3>2 DEF Witnessed
      <3>3. i \in 1..Len(history) + 1  BY <1>5
      <3>. QED  BY <3>1, <3>2, <3>3, MailTyped
    <2>3. label = "gone" => Records(c, {"delete"})
      <3>1. Len(history) + 1 \in Len(history) + 1 .. Len(history')  BY <1>5, MailTyped
      <3>. QED  BY <1>2, <1>5, <3>1 DEF Records
    <2>4. \A m \in DOMAIN mail' : mail'[m].label = "gone" =>
              (m = c /\ label = "gone") \/ (m \in DOMAIN mail /\ mail[m].label = "gone")
      BY <1>4
    <2>5. DOMAIN history' = 1 .. Len(history') /\ Len(history') \in Nat  BY <1>5
    <2>. QED  BY <1>7, <2>1, <2>2, <2>3, <2>4, <2>5, GoneTold DEF MailboxRight
  <1>. QED  BY <1>4, <1>5, <1>6, <1>7, <1>8, MailTyped DEF Grows

LEMMA GmailGrows ==
    ASSUME DraftsTypeOK, MailboxRight, Gmail
    PROVE  Grows
  <1>1. PICK d \in Draft : ComposeDraft(d) \/ RewriteDraft(d) \/ SendDraft(d) \/ DiscardDraft(d)
    BY DEF Gmail
  <1>2. CASE ComposeDraft(d)  BY <1>2, ComposeGrows
  <1>3. CASE RewriteDraft(d)  BY <1>3, ReplacingGrows DEF RewriteDraft
  <1>4. ASSUME Current(d) # 0 PROVE Current(d) \in Message
    BY <1>4, CurrentIs, MailTyped
  <1>5. CASE SendDraft(d)
    <2>1. Current(d) # 0  BY <1>5 DEF SendDraft
    <2>2. CASE /\ mail' = [mail EXCEPT ![Current(d)].label = "sent"]
               /\ history' = Append(history, Relabelled(Current(d)))
      <3>1. Relabelled(Current(d)) \in Record /\ Relabelled(Current(d)).message = Current(d)
            /\ Relabelled(Current(d)).op = "labels" /\ Relabelled(Current(d)).label = "sent"
            /\ Relabelled(Current(d)).related
        BY <1>4, <2>1, RecordsTyped DEF Label
      <3>. QED  BY <1>5, <2>1, <2>2, <3>1, RelabellingGrows DEF SendDraft
    <2>3. CASE /\ Len(mail) < MaxMessages
               /\ mail' = [Written(d, "sent") EXCEPT ![Current(d)].label = "gone"]
               /\ \E labelled \in BOOLEAN :
                     history' = history \o <<Added(NextMessage, "sent"), Gone(Current(d), labelled)>>
      BY <1>5, <2>1, <2>3, ReplacingGrows DEF SendDraft
    <2>. QED  BY <1>5, <2>2, <2>3 DEF SendDraft
  <1>6. CASE DiscardDraft(d)
    <2>1. Current(d) # 0  BY <1>6 DEF DiscardDraft
    <2>2. PICK labelled \in BOOLEAN : history' = Append(history, Gone(Current(d), labelled))
      BY <1>6 DEF DiscardDraft
    <2>3. Gone(Current(d), labelled) \in Record /\ Gone(Current(d), labelled).message = Current(d)
          /\ Gone(Current(d), labelled).op = "delete"
      BY <1>4, <2>1, RecordsTyped DEF Label
    <2>. QED  BY <1>6, <2>1, <2>2, <2>3, RelabellingGrows DEF DiscardDraft
  <1>. QED  BY <1>1, <1>2, <1>3, <1>5, <1>6

-----------------------------------------------------------------------------
(* What a step of Gmail leaves as it is.                                   *)

LEMMA CursorTyped ==
    ASSUME DraftsTypeOK
    PROVE  /\ From \in Nat /\ From <= Len(history) /\ replica.cursor <= From /\ replica.base <= From
           /\ replica.cursor \in Nat /\ replica.base \in Nat /\ replica.owed \subseteq Draft
           /\ replica.cursor <= Len(history) /\ replica.base <= Len(history)
           /\ replica.ready \in BOOLEAN /\ connected \in BOOLEAN
           /\ replica = [ready |-> replica.ready, cursor |-> replica.cursor,
                         base |-> replica.base, owed |-> replica.owed]
           /\ replica' = replica => From' = From
           /\ \A n \in Nat : /\ replica' = [replica EXCEPT !.cursor = n]
                              /\ replica.base <= n
                              => From' = n
  <1>1. Len(history) \in Nat  BY MailTyped
  <1>2. /\ replica.cursor \in 0 .. Len(history) /\ replica.base \in 0 .. Len(history)
        /\ replica.owed \subseteq Draft /\ replica.ready \in BOOLEAN /\ connected \in BOOLEAN
        /\ replica = [ready |-> replica.ready, cursor |-> replica.cursor,
                      base |-> replica.base, owed |-> replica.owed]
    BY DEF DraftsTypeOK
  <1>3. replica' = replica => From' = From  BY DEF From
  <1>4. ASSUME NEW n \in Nat, replica' = [replica EXCEPT !.cursor = n], replica.base <= n
        PROVE  From' = n
    BY <1>2, <1>4 DEF From
  <1>. QED  BY <1>1, <1>2, <1>3, <1>4 DEF From

LEMMA PassTyped ==
    ASSUME DraftsTypeOK
    PROVE  /\ pass.kind \in {"none", "catchup", "final"}
           /\ pass.at \in {"idle", "read", "fetch", "apply", "list", "refresh", "store", "save",
                           "replace", "ready", "repair"}
           /\ pass.start \in Nat /\ pass.upto \in Nat
           /\ pass.batch \in [Message -> Change] /\ pass.todo \in Seq(Message)
           /\ pass.references \subseteq Reference /\ pass.got \subseteq Reference
           /\ pass.syncing \in BOOLEAN /\ pass.found \subseteq Reference
           /\ \A m \in Message : pass.batch[m].op \in {"keep", "upsert", "labels", "delete"}
                                 /\ pass.batch[m].label \in Label
BY DEF DraftsTypeOK, Pass, Change

LEMMA GrowsSays ==
    ASSUME DraftsTypeOK, Grows
    PROVE  /\ \A m : Touched(m) => Touched(m)'
           /\ \A m : Ended(m) => Ended(m)'
           /\ \A m : Came(m) => Came(m)'
           /\ \A m : Later(m) => Later(m)'
           /\ \A m \in DOMAIN mail : mail'[m].label # mail[m].label => Ended(m)' /\ Touched(m)'
           /\ pass.upto <= Len(history) =>
                \A m \in DOMAIN mail : mail'[m].label # mail[m].label => Later(m)'
           /\ \A m \in DOMAIN mail' \ DOMAIN mail : Came(m)' /\ Touched(m)'
           /\ \A m : (Unwalked(m) => Unwalked(m)') /\ (Forgotten(m) => Forgotten(m)')
  <1>1. replica' = replica /\ pass' = pass /\ From' = From /\ From \in Nat /\ pass.upto \in Nat
        /\ From <= Len(history)
    BY CursorTyped, PassTyped DEF Grows
  <1>2. Len(history) \in Nat /\ Len(history') \in Nat /\ Len(history) <= Len(history')
        /\ DOMAIN history = 1..Len(history)
    BY MailTyped DEF Grows, Tells
  <1>3. \A i \in 1..Len(history) : history'[i] = history[i]
    BY <1>2 DEF Grows, Tells
  <1>4. \A i \in Pending : i \in Pending' /\ history'[i] = history[i]
    BY <1>1, <1>2, <1>3 DEF Pending
  <1>5. \A i \in pass.upto + 1 .. Len(history) :
            i \in pass'.upto + 1 .. Len(history') /\ history'[i] = history[i]
    BY <1>1, <1>2, <1>3
  <1>6. \A m : (Touched(m) => Touched(m)') /\ (Ended(m) => Ended(m)') /\ (Came(m) => Came(m)')
    BY <1>4 DEF Touched, Ended, Came
  <1>7. \A m : Later(m) => Later(m)'  BY <1>5 DEF Later
  <1>8. \A i \in Len(history) + 1 .. Len(history') : i \in Pending'
    BY <1>1, <1>2 DEF Pending
  <1>9. pass.upto <= Len(history) =>
            \A i \in Len(history) + 1 .. Len(history') : i \in pass'.upto + 1 .. Len(history')
    BY <1>1, <1>2
  <1>10. ASSUME NEW m \in DOMAIN mail, mail'[m].label # mail[m].label
         PROVE  Ended(m)' /\ Touched(m)' /\ (pass.upto <= Len(history) => Later(m)')
    <2>1. Records(m, {"labels", "delete"})  BY <1>10 DEF Grows, Tells
    <2>2. PICK i \in Len(history) + 1 .. Len(history') :
            history'[i].message = m /\ history'[i].op \in {"labels", "delete"}
      BY <2>1 DEF Records
    <2>3. Ended(m)' /\ Touched(m)'  BY <1>8, <2>2 DEF Ended, Touched
    <2>4. pass.upto <= Len(history) => Later(m)'  BY <1>9, <2>2 DEF Later
    <2>. QED  BY <2>3, <2>4
  <1>11. ASSUME NEW m \in DOMAIN mail' \ DOMAIN mail PROVE Came(m)' /\ Touched(m)'
    <2>1. Records(m, {"upsert"})  BY DEF Grows, Tells
    <2>2. PICK i \in Len(history) + 1 .. Len(history') :
            history'[i].message = m /\ history'[i].op = "upsert"
      BY <2>1 DEF Records
    <2>. QED  BY <1>8, <2>2 DEF Came, Touched
  <1>12. \A m : Unwalked(m) => Unwalked(m)'  BY <1>1 DEF Unwalked, Grows, Ages
  <1>13. \A m : Forgotten(m) => Forgotten(m)'
    <2>1. replica.base <= Len(history) /\ replica.base \in Nat  BY CursorTyped
    <2>. QED  BY <1>1, <1>2, <1>3, <2>1 DEF Forgotten
  <1>. QED  BY <1>6, <1>7, <1>10, <1>11, <1>12, <1>13

LEMMA LabelOfIs ==
    ASSUME NEW m
    PROVE  /\ m \in DOMAIN mail => LabelOf(m) = mail[m].label
           /\ m \notin DOMAIN mail => LabelOf(m) = "gone"
           /\ m \in DOMAIN mail' => LabelOf(m)' = mail'[m].label
           /\ m \notin DOMAIN mail' => LabelOf(m)' = "gone"
BY DEF LabelOf, Exists

LEMMA GrowsMessages ==
    ASSUME DraftsTypeOK, Grows
    PROVE  /\ \A m, d : Of(m, d) => Of(m, d)'
           /\ \A d : \A m \in MessagesOf(d)' : m \in MessagesOf(d) \/ Came(m)'
           /\ \A m \in DOMAIN mail : StillIn(m) => StillIn(m)'
           /\ \A m \in DOMAIN mail : mail[m].label # "draft" => mail'[m].label = mail[m].label
           /\ \A m : LabelOf(m)' = LabelOf(m) \/ Touched(m)'
           /\ pass.upto <= Len(history) =>
                \A m \in DOMAIN mail : LabelOf(m)' = LabelOf(m) \/ Later(m)'
  <1>1. DOMAIN mail \subseteq DOMAIN mail'  BY DEF Grows, Ages
  <1>2. ASSUME NEW m \in DOMAIN mail
        PROVE  /\ mail'[m].draft = mail[m].draft
               /\ mail'[m].label = mail[m].label
                  \/ (mail[m].label = "draft" /\ mail'[m].label # "draft")
    BY DEF Grows, Ages
  <1>3. ASSUME NEW m, NEW d, Of(m, d) PROVE Of(m, d)'
    BY <1>1, <1>2, <1>3 DEF Of
  <1>4. ASSUME NEW d, NEW m \in MessagesOf(d)'
        PROVE  m \in MessagesOf(d) \/ Came(m)'
    <2>1. m \in DOMAIN mail' /\ mail'[m].draft = d /\ mail'[m].label = "draft"
      BY DEF MessagesOf
    <2>2. CASE m \in DOMAIN mail
      <3>1. mail[m].draft = d /\ mail[m].label = "draft"  BY <1>2, <2>1, <2>2
      <3>. QED  BY <2>2, <3>1, MessagesOfIs
    <2>3. CASE m \notin DOMAIN mail  BY <2>1, <2>3, GrowsSays
    <2>. QED  BY <2>2, <2>3
  <1>5. ASSUME NEW m \in DOMAIN mail, StillIn(m) PROVE StillIn(m)'
    <2>1. CASE mail'[m].label = mail[m].label
      BY <1>5, <2>1, GrowsSays DEF StillIn
    <2>2. CASE mail'[m].label # mail[m].label  BY <2>2, GrowsSays DEF StillIn
    <2>. QED  BY <2>1, <2>2
  <1>6. ASSUME NEW m PROVE LabelOf(m)' = LabelOf(m) \/ Touched(m)'
    <2>1. CASE m \in DOMAIN mail  BY <1>1, <2>1, LabelOfIs, GrowsSays
    <2>2. CASE m \notin DOMAIN mail /\ m \in DOMAIN mail'  BY <2>2, GrowsSays
    <2>3. CASE m \notin DOMAIN mail /\ m \notin DOMAIN mail'  BY <2>3, LabelOfIs
    <2>. QED  BY <2>1, <2>2, <2>3
  <1>7. ASSUME pass.upto <= Len(history), NEW m \in DOMAIN mail
        PROVE  LabelOf(m)' = LabelOf(m) \/ Later(m)'
    BY <1>1, <1>7, LabelOfIs, GrowsSays
  <1>. QED  BY <1>2, <1>3, <1>4, <1>5, <1>6, <1>7

LEMMA GrowsTyped ==
    ASSUME DraftsTypeOK, Grows
    PROVE  DraftsTypeOK'
  <1>1. mail' \in Seq([draft : Draft, label : Label]) /\ Len(mail') <= MaxMessages
        /\ history' \in Seq(Record)
    BY DEF Grows, Entry
  <1>2. replica' = replica  BY DEF Grows
  <1>3. replica' \in [ready : BOOLEAN, cursor : 0 .. Len(history'), base : 0 .. Len(history'),
                      owed : SUBSET Draft]
    <2>1. Len(history) <= Len(history') /\ Len(history) \in Nat /\ Len(history') \in Nat
      BY <1>1, MailTyped DEF Grows, Tells
    <2>2. replica.cursor \in 0 .. Len(history') /\ replica.base \in 0 .. Len(history')
      BY <2>1, CursorTyped
    <2>. QED  BY <1>2, <2>2, CursorTyped
  <1>4. UNCHANGED <<connected, stored, rows, pass, retry, missed, mishaps>>
    BY DEF Grows
  <1>. QED  BY <1>1, <1>3, <1>4 DEF DraftsTypeOK

LEMMA GrowsStages ==
    ASSUME DraftsTypeOK, StagesRight, Grows
    PROVE  StagesRight'
  <1>1. pass' = pass /\ replica' = replica /\ From' = From  BY CursorTyped DEF Grows
  <1>2. Len(history) <= Len(history') /\ Len(history) \in Nat /\ Len(history') \in Nat
    BY MailTyped DEF Grows, Tells
  <1>3. pass.upto \in Nat  BY PassTyped
  <1>4. pass.upto <= Len(history) => pass.upto <= Len(history')  BY <1>2, <1>3
  <1>5. pass' = Idle <=> pass = Idle  BY <1>1
  <1>. QED  BY <1>1, <1>4, <1>5 DEF StagesRight, Idle

LEMMA GrowsBatch ==
    ASSUME DraftsTypeOK, StagesRight, BatchRight, Grows
    PROVE  BatchRight'
  <1>1. pass' = pass /\ DOMAIN mail \subseteq DOMAIN mail'  BY DEF Grows, Ages
  <1>. SUFFICES ASSUME pass.at \in {"fetch", "apply"}, NEW m \in Message PROVE ChangeRight(m)'
    BY <1>1 DEF BatchRight
  <1>2. ChangeRight(m) /\ pass.upto <= Len(history)
    BY DEF BatchRight, StagesRight
  <1>3. \A i \in Ranged : history'[i] = history[i]
    <2>1. pass.start \in Nat /\ pass.upto \in Nat /\ DOMAIN history = 1..Len(history)
          /\ Len(history) \in Nat
      BY PassTyped, MailTyped
    <2>2. Ranged \subseteq DOMAIN history  BY <1>2, <2>1 DEF Ranged
    <2>. QED  BY <2>2 DEF Grows, Tells
  <1>4. Ranged' = Ranged  BY <1>1 DEF Ranged
  <1>5. m \in DOMAIN mail /\ mail[m].label # "draft" => mail'[m].label = mail[m].label
    BY GrowsMessages
  <1>6. pass.batch[m].op = "keep" => \A i \in Ranged' : history'[i].message # m
    BY <1>2, <1>3, <1>4 DEF ChangeRight
  <1>7. pass.batch[m].op # "keep" => m \in DOMAIN mail'
    BY <1>1, <1>2 DEF ChangeRight
  <1>8. pass.batch[m].op = "delete" => mail'[m].label = "gone"
    BY <1>2, <1>5 DEF ChangeRight
  <1>9. pass.batch[m].op = "labels" => pass.batch[m].label = "sent" /\ mail'[m].label = "sent"
    BY <1>2, <1>5 DEF ChangeRight
  <1>10. \A i \in Ranged' : history'[i].message = m /\ history'[i].op = "delete" =>
            pass.batch[m].op = "delete"
    BY <1>2, <1>3, <1>4 DEF ChangeRight
  <1>11. \A i \in Ranged' : history'[i].message = m /\ history'[i].related =>
            m \in Range(pass.todo)
    BY <1>2, <1>3, <1>4 DEF ChangeRight
  <1>12. pass.at = "apply" /\ pass.batch[m].op = "upsert" =>
            pass.batch[m].label = LabelOf(m)' \/ Later(m)'
    <2>. SUFFICES ASSUME pass.at = "apply", pass.batch[m].op = "upsert"
                  PROVE  pass.batch[m].label = LabelOf(m)' \/ Later(m)'
      OBVIOUS
    <2>1. m \in DOMAIN mail /\ (pass.batch[m].label = LabelOf(m) \/ Later(m))
      BY <1>2 DEF ChangeRight
    <2>. QED  BY <1>2, <2>1, GrowsMessages, GrowsSays
  <1>. QED  BY <1>1, <1>6, <1>7, <1>8, <1>9, <1>10, <1>11, <1>12 DEF ChangeRight

LEMMA GrowsLists ==
    ASSUME DraftsTypeOK, TodoRight, ReferencesRight, Grows
    PROVE  TodoRight' /\ ReferencesRight'
  <1>1. pass' = pass /\ DOMAIN mail \subseteq DOMAIN mail'  BY DEF Grows, Ages
  <1>2. TodoRight'  BY <1>1 DEF TodoRight
  <1>3. \A r \in pass.references : Of(r.message, r.draft)'
    BY GrowsMessages DEF ReferencesRight
  <1>4. ASSUME pass.at \in {"refresh", "store", "save"}, NEW m \in Range(pass.todo),
               mail'[m].label = "draft"
        PROVE  [message |-> m, draft |-> mail'[m].draft] \in pass.references
    <2>1. m \in DOMAIN mail  BY DEF TodoRight
    <2>2. mail[m].label = "draft" /\ mail'[m].draft = mail[m].draft
      BY <1>4, <2>1 DEF Grows, Ages
    <2>. QED  BY <1>4, <2>2 DEF ReferencesRight
  <1>. QED  BY <1>1, <1>2, <1>3, <1>4 DEF ReferencesRight

LEMMA GrowsGot ==
    ASSUME DraftsTypeOK, GotRight, Grows
    PROVE  GotRight'
  <1>1. pass' = pass /\ stored' = stored  BY DEF Grows
  <1>. SUFFICES ASSUME pass.at \in {"store", "save"} PROVE \E g \in pass.got : InHand(g)'
    BY <1>1 DEF GotRight
  <1>2. PICK g \in pass.got : InHand(g)  BY DEF GotRight
  <1>3. Of(g.message, g.draft)'  BY <1>2, GrowsMessages DEF InHand
  <1>4. StillIn(g.message)'  BY <1>2, GrowsMessages DEF InHand, Of
  <1>5. \A m \in MessagesOf(g.draft)' : m = g.message \/ Came(m)'
    BY <1>2, GrowsMessages, GrowsSays DEF InHand
  <1>6. InHand(g)'  BY <1>1, <1>2, <1>3, <1>4, <1>5 DEF InHand
  <1>. QED  BY <1>6

LEMMA GrowsFound ==
    ASSUME DraftsTypeOK, FoundRight, Grows
    PROVE  FoundRight'
  <1>1. pass' = pass /\ stored' = stored  BY DEF Grows
  <1>2. ASSUME NEW f \in pass.found PROVE Of(f.message, f.draft)' /\ StillIn(f.message)'
    <2>1. Of(f.message, f.draft) /\ StillIn(f.message)  BY DEF FoundRight
    <2>. QED  BY <2>1, GrowsMessages DEF Of
  <1>3. ASSUME pass.syncing, pass.at \in {"refresh", "store", "save", "replace"},
               NEW d \in Draft, NEW c \in MessagesOf(d)'
        PROVE  Collects(c, d)'
    <2>1. CASE Came(c)'  BY <2>1 DEF Collects
    <2>2. CASE c \in MessagesOf(d)
      <3>1. Collects(c, d)  BY <1>3, <2>2 DEF FoundRight
      <3>. QED  BY <1>1, <3>1, GrowsSays DEF Collects
    <2>. QED  BY <2>1, <2>2, GrowsMessages
  <1>4. \A f \in pass.found : stored[f.message] = "draft"  BY DEF FoundRight
  <1>. QED  BY <1>1, <1>2, <1>3, <1>4 DEF FoundRight

LEMMA GrowsRows ==
    ASSUME DraftsTypeOK, StoredRight, RowsNamed, RowsRight, Grows
    PROVE  StoredRight' /\ RowsNamed' /\ RowsRight'
  <1>1. UNCHANGED <<connected, replica, stored, rows, pass, retry, missed>>
    BY DEF Grows
  <1>2. StoredRight'
    <2>. SUFFICES ASSUME NEW m \in Message PROVE StoresRight(m)'
      BY <1>1 DEF StoredRight
    <2>1. StoresRight(m)  BY DEF StoredRight
    <2>. QED  BY <1>1, <2>1, GrowsMessages, GrowsSays DEF StoresRight
  <1>3. RowsNamed'  BY <1>1, GrowsMessages DEF RowsNamed
  <1>4. CutOff' = CutOff  BY <1>1 DEF CutOff
  <1>5. \A m : Owed(m)' <=> Owed(m)  BY <1>1, <1>4 DEF Owed
  <1>6. \A d : ShownOf(d)' = ShownOf(d)  BY <1>1 DEF ShownOf
  <1>7. ASSUME RowsHold', NEW d \in Draft PROVE RowRight(d)'
    <2>1. RowRight(d)  BY <1>1, <1>7 DEF RowsRight, RowsHold
    <2>2. ASSUME NEW m \in MessagesOf(d)'
          PROVE  ShownOf(d)' = m \/ Came(m)' \/ Owed(m)'
      BY <1>5, <1>6, <2>1, GrowsMessages, GrowsSays DEF RowRight
    <2>3. ASSUME NEW m \in Message, ShownOf(d)' = m PROVE StillIn(m)' \/ Owed(m)'
      <3>1. ShownOf(d) = m /\ m # 0  BY <1>6, <2>3, MailTyped
      <3>2. StillIn(m) \/ Owed(m)  BY <2>1, <3>1 DEF RowRight
      <3>3. m \in DOMAIN mail  BY <3>1 DEF ShownOf, RowsNamed, Of
      <3>. QED  BY <1>5, <3>2, <3>3, GrowsMessages
    <2>. QED  BY <2>2, <2>3 DEF RowRight
  <1>. QED  BY <1>2, <1>3, <1>7 DEF RowsRight

LEMMA GrowsKeeps ==
    ASSUME DraftsInv, Grows
    PROVE  DraftsInv'
  <1>1. DraftsTypeOK' /\ MailboxRight'  BY GrowsTyped DEF DraftsInv, Grows
  <1>2. StagesRight' /\ BatchRight'
    BY GrowsStages, GrowsBatch DEF DraftsInv, PassRight
  <1>3. TodoRight' /\ ReferencesRight' /\ GotRight' /\ FoundRight'
    BY GrowsLists, GrowsGot, GrowsFound DEF DraftsInv, PassRight
  <1>. QED  BY <1>1, <1>2, <1>3, GrowsRows DEF DraftsInv, PassRight

-----------------------------------------------------------------------------
(* What a step of the worker leaves as it is.                              *)

LEMMA MailStays ==
    ASSUME UNCHANGED gmailVars
    PROVE  /\ mail' = mail /\ history' = history
           /\ MailboxRight => MailboxRight'
           /\ \A m, d : Of(m, d)' <=> Of(m, d)
           /\ \A d : MessagesOf(d)' = MessagesOf(d)
           /\ \A m : LabelOf(m)' = LabelOf(m)
  <1>1. mail' = mail /\ history' = history  BY DEF gmailVars
  <1>2. MailboxRight => MailboxRight'  BY <1>1 DEF MailboxRight, Witnessed
  <1>3. \A m, d : Of(m, d)' <=> Of(m, d)  BY <1>1 DEF Of
  <1>4. \A d : MessagesOf(d)' = MessagesOf(d)  BY <1>1 DEF MessagesOf
  <1>5. \A m : LabelOf(m)' = LabelOf(m)  BY <1>1 DEF LabelOf, Exists
  <1>. QED  BY <1>1, <1>2, <1>3, <1>4, <1>5

LEMMA PendingStays ==
    ASSUME UNCHANGED gmailVars, From' = From \/ replica' = replica
    PROVE  \A m : /\ Touched(m)' <=> Touched(m)
                  /\ Ended(m)' <=> Ended(m)
                  /\ Came(m)' <=> Came(m)
                  /\ StillIn(m)' <=> StillIn(m)
  <1>1. mail' = mail /\ history' = history /\ From' = From  BY MailStays DEF From
  <1>2. Pending' = Pending  BY <1>1 DEF Pending
  <1>3. \A m : (Touched(m)' <=> Touched(m)) /\ (Ended(m)' <=> Ended(m)) /\ (Came(m)' <=> Came(m))
    BY <1>1, <1>2 DEF Touched, Ended, Came
  <1>4. \A m : StillIn(m)' <=> StillIn(m)  BY <1>1, <1>3 DEF StillIn
  <1>. QED  BY <1>3, <1>4

\* A list without its first message.
Distinct(s) == \A i, j \in DOMAIN s : i # j => s[i] # s[j]

LEMMA TailIs ==
    ASSUME NEW s \in Seq(Message), s # <<>>, Distinct(s)
    PROVE  /\ Head(s) \in Range(s) /\ Head(s) \in Message
           /\ Tail(s) \in Seq(Message) /\ Distinct(Tail(s))
           /\ Range(Tail(s)) = Range(s) \ {Head(s)}
  <1>1. Len(s) \in Nat /\ Len(s) # 0 /\ DOMAIN s = 1..Len(s)  OBVIOUS
  <1>2. Head(s) = s[1] /\ 1 \in DOMAIN s  BY <1>1
  <1>3. /\ Tail(s) \in Seq(Message) /\ DOMAIN Tail(s) = 1..Len(s) - 1
        /\ \A i \in 1..Len(s) - 1 : Tail(s)[i] = s[i + 1]
    BY <1>1
  <1>. DEFINE t == Tail(s)
  <1>. HIDE DEF t
  <1>4. \A i \in 1..Len(s) - 1 : i + 1 \in DOMAIN s /\ i + 1 # 1 /\ t[i] = s[i + 1]
    BY <1>1, <1>3 DEF t
  <1>5. DOMAIN t = 1..Len(s) - 1  BY <1>3 DEF t
  <1>6. Distinct(t)
    <2>. SUFFICES ASSUME NEW i \in 1..Len(s) - 1, NEW j \in 1..Len(s) - 1, i # j
                  PROVE  t[i] # t[j]
      BY <1>5 DEF Distinct
    <2>1. i + 1 # j + 1  BY <1>1
    <2>. QED  BY <1>4, <2>1 DEF Distinct
  <1>7. ASSUME NEW m \in Range(t) PROVE m \in Range(s) \ {Head(s)}
    <2>1. PICK i \in 1..Len(s) - 1 : m = t[i]  BY <1>5 DEF Range
    <2>2. m = s[i + 1] /\ i + 1 \in DOMAIN s /\ i + 1 # 1  BY <1>4, <2>1
    <2>. QED  BY <1>2, <2>2 DEF Range, Distinct
  <1>8. ASSUME NEW m \in Range(s), m # Head(s) PROVE m \in Range(t)
    <2>1. PICK j \in DOMAIN s : m = s[j]  BY DEF Range
    <2>2. j # 1  BY <1>2, <1>8, <2>1
    <2>3. j - 1 \in 1..Len(s) - 1 /\ (j - 1) + 1 = j  BY <1>1, <2>2
    <2>4. t[j - 1] = m  BY <1>4, <2>1, <2>3
    <2>. QED  BY <1>5, <2>3, <2>4 DEF Range
  <1>9. Range(t) = Range(s) \ {Head(s)}  BY <1>7, <1>8
  <1>10. Head(s) \in Range(s) /\ Head(s) \in Message  BY <1>1, <1>2 DEF Range
  <1>. QED  BY <1>3, <1>6, <1>9, <1>10 DEF t

-----------------------------------------------------------------------------
(* Attempts that end, that begin, and that come to the list.               *)

LEMMA IdleIs ==
    /\ Idle \in Pass /\ Idle.kind = "none" /\ Idle.at = "idle" /\ Idle.start = 0 /\ Idle.upto = 0
    /\ Idle.todo = <<>> /\ Idle.references = {} /\ Idle.got = {} /\ Idle.found = {}
    /\ Idle.syncing = FALSE /\ Range(<<>>) = {} /\ Distinct(<<>>)
  <1>1. NoBatch \in [Message -> Change]  BY DEF NoBatch, Keep, Change, Label
  <1>2. Idle \in Pass  BY <1>1 DEF Idle, Pass
  <1>3. Range(<<>>) = {} /\ Distinct(<<>>)  BY DEF Range, Distinct
  <1>. QED  BY <1>2, <1>3 DEF Idle

LEMMA IdleRight ==
    ASSUME pass' = Idle
    PROVE  PassRight' /\ CutOff' = {} /\ pass'.at # "ready"
  <1>. DEFINE p == pass'
  <1>1. /\ p.kind = "none" /\ p.at = "idle" /\ p.todo = <<>> /\ p.references = {}
        /\ p.got = {} /\ p.found = {} /\ p.syncing = FALSE /\ p = Idle
    BY IdleIs
  <1>. HIDE DEF p
  <1>2. StagesRight' /\ BatchRight' /\ GotRight'
    BY <1>1 DEF StagesRight, BatchRight, GotRight, p
  <1>3. TodoRight' /\ ReferencesRight' /\ FoundRight'
    BY <1>1, IdleIs DEF TodoRight, ReferencesRight, FoundRight, p
  <1>4. CutOff' = {} /\ pass'.at # "ready"  BY <1>1 DEF CutOff, p
  <1>. QED  BY <1>2, <1>3, <1>4 DEF PassRight

LEMMA BeginsRight ==
    ASSUME NEW k \in {"catchup", "final"}, NEW s \in Nat, s <= From',
           k = "catchup" => replica'.ready,
           k = "final" => ~replica'.ready /\ replica'.owed = {},
           pass' = [Idle EXCEPT !.kind = k, !.at = "read", !.start = s]
    PROVE  pass' \in Pass /\ PassRight' /\ CutOff' = {} /\ pass'.at # "ready"
  <1>. DEFINE p == pass'
  <1>1. /\ p.kind = k /\ p.at = "read" /\ p.start = s /\ p.todo = <<>> /\ p.references = {}
        /\ p.got = {} /\ p.found = {} /\ p.syncing = FALSE
    BY DEF Idle
  <1>2. p \in Pass  BY IdleIs DEF Pass
  <1>. HIDE DEF p
  <1>3. StagesRight' /\ BatchRight' /\ GotRight'
    BY <1>1 DEF StagesRight, BatchRight, GotRight, p
  <1>4. TodoRight' /\ ReferencesRight' /\ FoundRight'
    BY <1>1, IdleIs DEF TodoRight, ReferencesRight, FoundRight, p
  <1>5. CutOff' = {} /\ pass'.at # "ready"  BY <1>1 DEF CutOff, p
  <1>. QED  BY <1>2, <1>3, <1>4, <1>5 DEF PassRight, p

\* References that are right stay so, and so does each part of them.
Named(references) ==
    /\ \A r \in references : Of(r.message, r.draft)
    /\ \A r, s \in references : r.draft = s.draft => r = s

LEMMA ListsRight ==
    ASSUME NEW p \in Pass, p.kind \in {"catchup", "final"}, p.syncing \/ p.todo # <<>>,
           p.kind = "catchup" => replica'.ready /\ ~p.syncing,
           p.kind = "final" => ~replica'.ready /\ replica'.owed = {},
           p.at = "list", p.upto = From', p.found = {}, Named(p.references)',
           Range(p.todo) \subseteq DOMAIN mail', Distinct(p.todo), pass' = p
    PROVE  PassRight' /\ pass'.at # "ready"
  <1>1. StagesRight'  BY IdleIs DEF StagesRight
  <1>2. BatchRight' /\ GotRight'  BY DEF BatchRight, GotRight
  <1>3. TodoRight' /\ ReferencesRight' /\ FoundRight'
    BY DEF TodoRight, ReferencesRight, FoundRight, Named, Distinct
  <1>. QED  BY <1>1, <1>2, <1>3 DEF PassRight

LEMMA GoesOnRight ==
    ASSUME DraftsTypeOK, UNCHANGED gmailVars,
           NEW p \in Pass, GoesOn(p), p.kind \in {"catchup", "final"}, ~p.syncing,
           p.kind = "catchup" => replica'.ready,
           p.kind = "final" => ~replica'.ready /\ replica'.owed = {},
           p.upto = From', p.todo = <<>>, p.found = {}, Named(p.references)'
    PROVE  /\ pass' \in Pass /\ retry' \in BOOLEAN /\ PassRight'
           /\ CutOff' = {} /\ pass'.at # "ready"
  <1>1. retry \in BOOLEAN  BY DEF DraftsTypeOK
  <1>2. CASE p.kind = "catchup"
    <2>1. pass' = Idle /\ retry' = FALSE  BY <1>2 DEF GoesOn, Ends
    <2>. QED  BY <2>1, IdleRight, IdleIs
  <1>3. CASE p.kind = "final" /\ pass' = [p EXCEPT !.at = "list", !.syncing = TRUE]
    <2>. DEFINE q == [p EXCEPT !.at = "list", !.syncing = TRUE]
    <2>1. /\ q \in Pass /\ q.kind = "final" /\ q.at = "list" /\ q.syncing /\ q.upto = p.upto
          /\ q.todo = <<>> /\ q.found = {} /\ q.references = p.references
      BY <1>3 DEF Pass
    <2>2. pass' = q /\ retry' = retry  BY <1>3 DEF GoesOn
    <2>. HIDE DEF q
    <2>3. Named(q.references)'  BY <2>1
    <2>4. Range(q.todo) \subseteq DOMAIN mail' /\ Distinct(q.todo)
      BY <2>1, IdleIs
    <2>5. PassRight' /\ pass'.at # "ready"
      BY <1>3, <2>1, <2>2, <2>3, <2>4, ListsRight
    <2>6. CutOff' = {}  BY <2>1, <2>2 DEF CutOff
    <2>. QED  BY <1>1, <2>1, <2>2, <2>5, <2>6
  <1>4. CASE /\ p.kind = "final"
             /\ pass' = [Idle EXCEPT !.kind = "final", !.at = "read", !.start = p.upto]
    <2>1. p.upto \in Nat /\ p.upto <= From'  BY DEF Pass
    <2>2. retry' = retry  BY <1>4 DEF GoesOn
    <2>. QED  BY <1>1, <1>4, <2>1, <2>2, BeginsRight
  <1>. QED  BY <1>2, <1>3, <1>4 DEF GoesOn

-----------------------------------------------------------------------------
(* Rows, and what is stored, under a step that leaves them.                *)

LEMMA StoredStays ==
    ASSUME StoredRight, UNCHANGED gmailVars, UNCHANGED <<replica, stored>>
    PROVE  StoredRight'
  <1>1. \A m : (Unwalked(m)' <=> Unwalked(m)) /\ (Forgotten(m)' <=> Forgotten(m))
    BY MailStays DEF Unwalked, Forgotten
  <1>2. \A m : StoresRight(m) => StoresRight(m)'
    BY <1>1, MailStays, PendingStays DEF StoresRight
  <1>. QED  BY <1>2 DEF StoredRight

LEMMA RowsStay ==
    ASSUME RowsNamed, RowsRight, UNCHANGED gmailVars, UNCHANGED <<replica, rows>>,
           missed \subseteq missed', CutOff \subseteq CutOff' \union missed',
           pass'.at # "ready" \/ (pass' = pass /\ (connected' => connected))
    PROVE  RowsNamed' /\ RowsRight'
  <1>1. RowsNamed'  BY MailStays DEF RowsNamed
  <1>2. \A d : ShownOf(d)' = ShownOf(d)  BY DEF ShownOf
  <1>3. \A m : Owed(m) => Owed(m)'  BY DEF Owed
  <1>4. RowsHold' => RowsHold  BY DEF RowsHold
  <1>5. ASSUME RowsHold', NEW d \in Draft PROVE RowRight(d)'
    <2>1. RowRight(d)  BY <1>4, <1>5 DEF RowsRight
    <2>2. ASSUME NEW m \in MessagesOf(d)' PROVE ShownOf(d)' = m \/ Came(m)' \/ Owed(m)'
      BY <1>2, <1>3, <2>1, MailStays, PendingStays DEF RowRight
    <2>3. ASSUME NEW m \in Message, ShownOf(d)' = m PROVE StillIn(m)' \/ Owed(m)'
      BY <1>2, <1>3, <2>1, <2>3, PendingStays DEF RowRight
    <2>. QED  BY <2>2, <2>3 DEF RowRight
  <1>. QED  BY <1>1, <1>5 DEF RowsRight

LEMMA PassStays ==
    ASSUME PassRight, UNCHANGED gmailVars, UNCHANGED <<replica, stored, pass>>
    PROVE  PassRight'
  <1>1. mail' = mail /\ history' = history /\ From' = From  BY MailStays DEF From
  <1>2. StagesRight'  BY <1>1 DEF PassRight, StagesRight
  <1>3. BatchRight'
    <2>1. \A m : ChangeRight(m) => ChangeRight(m)'
      <3>1. Ranged' = Ranged  BY DEF Ranged
      <3>2. \A m : Later(m)' <=> Later(m)  BY <1>1 DEF Later
      <3>. QED  BY <1>1, <3>1, <3>2, MailStays DEF ChangeRight
    <2>. QED  BY <2>1 DEF PassRight, BatchRight
  <1>4. TodoRight' /\ ReferencesRight'
    BY <1>1, MailStays DEF PassRight, TodoRight, ReferencesRight
  <1>5. GotRight'
    <2>1. \A g : InHand(g) => InHand(g)'  BY MailStays, PendingStays DEF InHand
    <2>. QED  BY <2>1 DEF PassRight, GotRight
  <1>6. FoundRight'
    <2>1. \A c, d : Collects(c, d) => Collects(c, d)'
      BY PendingStays DEF Collects
    <2>. QED  BY <2>1, MailStays, PendingStays DEF PassRight, FoundRight
  <1>. QED  BY <1>2, <1>3, <1>4, <1>5, <1>6 DEF PassRight

LEMMA LoseGrantKeeps ==
    ASSUME DraftsInv, LoseGrant
    PROVE  DraftsInv'
  <1>1. /\ UNCHANGED gmailVars /\ UNCHANGED <<replica, stored, rows, pass, retry, missed>>
        /\ connected' = FALSE /\ mishaps' = mishaps + 1 /\ mishaps < MaxMishaps
    BY DEF LoseGrant
  <1>2. DraftsTypeOK'
    <2>1. mishaps' \in 0 .. MaxMishaps
      BY <1>1, DraftResourcesAssumption DEF DraftsInv, DraftsTypeOK
    <2>. QED  BY <1>1, <2>1, MailStays DEF DraftsInv, DraftsTypeOK
  <1>3. CutOff' = CutOff  BY <1>1 DEF CutOff
  <1>4. RowsNamed' /\ RowsRight'  BY <1>1, <1>3, RowsStay DEF DraftsInv
  <1>. QED  BY <1>1, <1>2, <1>4, MailStays, PassStays, StoredStays DEF DraftsInv

\* An attempt that stops where it is.
LEMMA StopsKeeps ==
    ASSUME DraftsInv, UNCHANGED gmailVars, UNCHANGED <<connected, replica, stored, rows>>,
           pass' = Idle, retry' \in BOOLEAN, missed' = missed \union CutOff,
           mishaps' \in 0 .. MaxMishaps
    PROVE  DraftsInv'
  <1>1. CutOff \subseteq Message
    <2>1. pass.todo \in Seq(Message)  BY PassTyped DEF DraftsInv
    <2>2. Range(pass.todo) \subseteq Message  BY <2>1 DEF Range
    <2>. QED  BY <2>2 DEF CutOff
  <1>2. DraftsTypeOK'  BY <1>1, IdleIs, MailStays DEF DraftsInv, DraftsTypeOK
  <1>3. PassRight' /\ pass'.at # "ready"  BY IdleRight
  <1>4. RowsNamed' /\ RowsRight'  BY <1>3, RowsStay DEF DraftsInv
  <1>. QED  BY <1>2, <1>3, <1>4, MailStays, StoredStays DEF DraftsInv

LEMMA AttemptFailsKeeps ==
    ASSUME DraftsInv, AttemptFails
    PROVE  DraftsInv'
  <1>1. mishaps' \in 0 .. MaxMishaps
    BY DraftResourcesAssumption DEF DraftsInv, DraftsTypeOK, AttemptFails
  <1>. QED  BY <1>1, StopsKeeps DEF AttemptFails, Aborts

LEMMA BeginKeeps ==
    ASSUME DraftsInv, BeginCatchup \/ BeginFinal
    PROVE  DraftsInv'
  <1>1. /\ UNCHANGED gmailVars
        /\ UNCHANGED <<connected, replica, stored, rows, retry, missed, mishaps>> /\ pass = Idle
    BY DEF BeginCatchup, BeginFinal
  <1>2. /\ replica' = replica /\ From' = From /\ replica.cursor \in Nat /\ replica.base \in Nat
        /\ replica.cursor <= From /\ replica.base <= From
    BY <1>1, CursorTyped DEF DraftsInv
  <1>3. pass' \in Pass /\ PassRight' /\ pass'.at # "ready"
    <2>1. CASE BeginCatchup
      <3>1. PICK s \in Nat : s = replica.cursor  BY <1>2
      <3>2. pass' = [Idle EXCEPT !.kind = "catchup", !.at = "read", !.start = s]
        BY <2>1, <3>1 DEF BeginCatchup
      <3>3. s <= From' /\ replica'.ready
        BY <1>2, <2>1, <3>1 DEF BeginCatchup
      <3>. QED  BY <3>2, <3>3, BeginsRight
    <2>2. CASE BeginFinal
      <3>1. PICK s \in Nat : s = replica.base  BY <1>2
      <3>2. pass' = [Idle EXCEPT !.kind = "final", !.at = "read", !.start = s]
        BY <2>2, <3>1 DEF BeginFinal
      <3>3. s <= From' /\ ~replica'.ready /\ replica'.owed = {}
        BY <1>2, <2>2, <3>1 DEF BeginFinal
      <3>. QED  BY <3>2, <3>3, BeginsRight
    <2>. QED  BY <2>1, <2>2
  <1>4. CutOff = {}  BY <1>1, IdleIs DEF CutOff
  <1>5. DraftsTypeOK'  BY <1>1, <1>3, MailStays DEF DraftsInv, DraftsTypeOK
  <1>6. RowsNamed' /\ RowsRight'  BY <1>1, <1>3, <1>4, RowsStay DEF DraftsInv
  <1>. QED  BY <1>1, <1>3, <1>5, <1>6, MailStays, StoredStays DEF DraftsInv

LEMMA InitKeeps ==
    ASSUME DraftsInit
    PROVE  DraftsInv
  <1>1. /\ mail = <<>> /\ history = <<>> /\ connected = TRUE
        /\ replica = [ready |-> FALSE, cursor |-> 0, base |-> 0, owed |-> {}]
        /\ stored = [m \in Message |-> "gone"] /\ rows = [d \in Draft |-> NoRow]
        /\ pass = Idle /\ retry = FALSE /\ missed = {} /\ mishaps = 0
    BY DEF DraftsInit
  <1>2. DraftsTypeOK
    <2>1. MaxMessages \in Nat /\ MaxMishaps \in Nat  BY DraftResourcesAssumption
    <2>2. mail \in Seq([draft : Draft, label : Label]) /\ Len(mail) <= MaxMessages
          /\ history \in Seq(Record) /\ Len(history) = 0
      BY <1>1, <2>1
    <2>3. replica \in [ready : BOOLEAN, cursor : 0 .. Len(history), base : 0 .. Len(history),
                       owed : SUBSET Draft]
      BY <1>1, <2>2
    <2>4. NoRow \in Row  BY <2>1 DEF NoRow, Row
    <2>5. stored \in [Message -> Label] /\ rows \in [Draft -> Row]
      BY <1>1, <2>4 DEF Label
    <2>6. connected \in BOOLEAN /\ retry \in BOOLEAN  BY <1>1
    <2>7. missed \subseteq Message /\ mishaps \in 0 .. MaxMishaps  BY <1>1, <2>1
    <2>. QED  BY <1>1, <2>2, <2>3, <2>5, <2>6, <2>7, IdleIs DEF DraftsTypeOK
  <1>3. DOMAIN mail = {} /\ DOMAIN history = {}  BY <1>1
  <1>4. MailboxRight  BY <1>3 DEF MailboxRight
  <1>5. /\ pass.kind = "none" /\ pass.at = "idle" /\ pass.todo = <<>> /\ pass.references = {}
        /\ pass.got = {} /\ pass.found = {} /\ pass.syncing = FALSE
    BY <1>1, IdleIs
  <1>6. StagesRight /\ BatchRight /\ GotRight
    BY <1>1, <1>5 DEF StagesRight, BatchRight, GotRight
  <1>7. TodoRight /\ ReferencesRight /\ FoundRight
    BY <1>5, IdleIs DEF TodoRight, ReferencesRight, FoundRight
  <1>8. StoredRight  BY <1>1, <1>3, LabelOfIs DEF StoredRight, StoresRight
  <1>9. RowsNamed /\ RowsRight
    BY <1>1, <1>5 DEF RowsNamed, RowsRight, RowsHold, NoRow
  <1>. QED  BY <1>2, <1>4, <1>6, <1>7, <1>8, <1>9 DEF DraftsInv, PassRight

-----------------------------------------------------------------------------
(* The range is read.                                                      *)

LEMMA AboutTyped ==
    ASSUME DraftsTypeOK, NEW m
    PROVE  /\ About(m) \subseteq DOMAIN history /\ About(m) \subseteq 1..Len(history)
           /\ \A i \in About(m) : history[i].message = m /\ history[i] \in Record
                                  /\ history[i].op \in {"upsert", "labels", "delete"}
                                  /\ history[i].label \in Label
  <1>1. pass.start \in Nat /\ DOMAIN history = 1..Len(history) /\ Len(history) \in Nat
    BY PassTyped, MailTyped
  <1>2. About(m) \subseteq 1..Len(history)  BY <1>1 DEF About
  <1>. QED  BY <1>1, <1>2, MailTyped DEF About

LEMMA RankIs ==
    ASSUME NEW ops \in SUBSET {"labels", "upsert", "delete"}, ops # {}
    PROVE  \E o \in ops : \A p \in ops : Rank[o] >= Rank[p]
  <1>1. Rank["labels"] = 1 /\ Rank["upsert"] = 2 /\ Rank["delete"] = 3
    BY DEF Rank
  <1>2. CASE "delete" \in ops  BY <1>1, <1>2
  <1>3. CASE "delete" \notin ops /\ "upsert" \in ops  BY <1>1, <1>3
  <1>4. CASE "delete" \notin ops /\ "upsert" \notin ops
    <2>1. ops = {"labels"}  BY <1>4
    <2>. QED  BY <1>1, <2>1
  <1>. QED  BY <1>2, <1>3, <1>4

LEMMA MergedIs ==
    ASSUME DraftsTypeOK, NEW m, About(m) # {}
    PROVE  /\ Merged(m) \in Change /\ Merged(m).op # "keep"
           /\ \E i \in About(m) : Merged(m).op = history[i].op
           /\ \E i \in About(m) : Merged(m).label = history[i].label
           /\ \A i \in About(m) : history[i].op = "delete" => Merged(m).op = "delete"
           /\ Merged(m).op = "labels" => \A i \in About(m) : history[i].op = "labels"
  <1>. DEFINE ops == {history[i].op : i \in About(m)}
              o == CHOOSE x \in ops : \A p \in ops : Rank[x] >= Rank[p]
              l == CHOOSE i \in About(m) : \A j \in About(m) : i >= j
  <1>1. Merged(m) = [op |-> o, label |-> history[l].label]  BY DEF Merged
  <1>2. ops \in SUBSET {"labels", "upsert", "delete"} /\ ops # {}  BY AboutTyped
  <1>3. o \in ops /\ \A p \in ops : Rank[o] >= Rank[p]
    <2>. HIDE DEF ops
    <2>. QED  BY <1>2, RankIs
  <1>4. l \in About(m)
    <2>1. Len(history) \in Nat /\ About(m) \in SUBSET (1..Len(history))
      BY AboutTyped, MailTyped
    <2>2. \E i \in About(m) : \A j \in About(m) : i >= j  BY <2>1, Highest
    <2>. QED  BY <2>2
  <1>5. \A i \in About(m) : history[i].op \in ops  OBVIOUS
  <1>6. \E i \in About(m) : o = history[i].op  BY <1>3
  <1>. HIDE DEF o, l, ops
  <1>7. Rank["labels"] = 1 /\ Rank["upsert"] = 2 /\ Rank["delete"] = 3
    BY DEF Rank
  <1>8. o \in {"labels", "upsert", "delete"}  BY <1>2, <1>3
  <1>9. \A i \in About(m) : history[i].op = "delete" => o = "delete"
    BY <1>3, <1>5, <1>7, <1>8
  <1>10. o = "labels" => \A i \in About(m) : history[i].op = "labels"
    <2>. SUFFICES ASSUME o = "labels", NEW i \in About(m) PROVE history[i].op = "labels"
      OBVIOUS
    <2>1. Rank[history[i].op] <= 1 /\ history[i].op \in {"labels", "upsert", "delete"}
      BY <1>2, <1>3, <1>5, <1>7
    <2>. QED  BY <1>7, <2>1
  <1>11. history[l].label \in Label  BY <1>4, AboutTyped
  <1>12. Merged(m) \in Change /\ Merged(m).op = o /\ Merged(m).label = history[l].label
    BY <1>1, <1>8, <1>11 DEF Change
  <1>. QED  BY <1>4, <1>6, <1>8, <1>9, <1>10, <1>12

LEMMA ChangeOfIs ==
    ASSUME DraftsTypeOK, MailboxRight, NEW m
    PROVE  /\ ChangeOf(m) \in Change
           /\ ChangeOf(m).op = "keep" => About(m) = {}
           /\ ChangeOf(m).op # "keep" => m \in DOMAIN mail
           /\ ChangeOf(m).op = "delete" => mail[m].label = "gone"
           /\ ChangeOf(m).op = "labels" => ChangeOf(m).label = "sent" /\ mail[m].label = "sent"
           /\ \A i \in About(m) : history[i].op = "delete" => ChangeOf(m).op = "delete"
  <1>1. CASE About(m) = {}
    <2>1. ChangeOf(m) = Keep  BY <1>1 DEF ChangeOf
    <2>2. Keep \in Change /\ Keep.op = "keep"  BY DEF Keep, Change, Label
    <2>. QED  BY <1>1, <2>1, <2>2
  <1>2. CASE About(m) # {}
    <2>1. \A i \in About(m) : Witnessed(history[i]) /\ history[i].message = m
      BY AboutTyped DEF MailboxRight
    <2>2. m \in DOMAIN mail  BY <1>2, <2>1 DEF Witnessed
    <2>3. Merged(m).op = "delete" => mail[m].label = "gone"
      BY <1>2, <2>1, MergedIs DEF Witnessed
    <2>4. Merged(m).op = "labels" => Merged(m).label = "sent" /\ mail[m].label = "sent"
      <3>. SUFFICES ASSUME Merged(m).op = "labels"
                    PROVE  Merged(m).label = "sent" /\ mail[m].label = "sent"
        OBVIOUS
      <3>1. \A i \in About(m) : history[i].op = "labels"  BY <1>2, MergedIs
      <3>2. \A i \in About(m) : history[i].label = "sent" /\ mail[m].label = "sent"
        BY <2>1, <3>1 DEF Witnessed
      <3>. QED  BY <1>2, <3>2, MergedIs
    <2>5. CASE Merged(m).op = "labels" /\ stored[m] = "gone"
      <3>1. ChangeOf(m) = [Merged(m) EXCEPT !.op = "upsert"]
        BY <1>2, <2>5 DEF ChangeOf
      <3>2. ChangeOf(m) \in Change /\ ChangeOf(m).op = "upsert"
        BY <1>2, <3>1, MergedIs DEF Change
      <3>3. \A i \in About(m) : history[i].op # "delete"
        BY <1>2, <2>5, MergedIs
      <3>. QED  BY <2>2, <3>2, <3>3
    <2>6. CASE ~(Merged(m).op = "labels" /\ stored[m] = "gone")
      <3>1. ChangeOf(m) = Merged(m)  BY <1>2, <2>6 DEF ChangeOf
      <3>. QED  BY <1>2, <2>2, <2>3, <2>4, <3>1, MergedIs
    <2>. QED  BY <2>5, <2>6
  <1>. QED  BY <1>1, <1>2

LEMMA AffectedIs ==
    ASSUME DraftsTypeOK
    PROVE  /\ Affected \in Seq(Message) /\ Distinct(Affected)
           /\ Range(Affected) = {m \in Message : Related(m)}
  <1>. DEFINE messages == {m \in Message : Related(m)}
              place == [m \in messages |-> First(m)]
  <1>1. \A m \in messages : About(m) # {}  BY DEF Related
  <1>2. \A m \in messages : First(m) \in About(m) /\ First(m) \in Nat /\ history[First(m)].message = m
    <2>. SUFFICES ASSUME NEW m \in messages
                  PROVE  First(m) \in About(m) /\ First(m) \in Nat /\ history[First(m)].message = m
      OBVIOUS
    <2>1. About(m) \in SUBSET Nat /\ About(m) # {}
      BY <1>1, AboutTyped, MailTyped
    <2>2. \E i \in About(m) : \A j \in About(m) : i <= j  BY <2>1, Lowest
    <2>3. First(m) \in About(m)  BY <2>2 DEF First
    <2>. QED  BY <2>1, <2>3, AboutTyped
  <1>3. place \in [messages -> Nat] /\ \A m, n \in messages : place[m] = place[n] => m = n
    BY <1>2
  <1>4. messages \in SUBSET Message  OBVIOUS
  <1>5. Affected = InOrder(messages, place)  BY DEF Affected
  <1>. HIDE DEF messages, place
  <1>6. Affected \in Seq(Message) /\ Range(Affected) = messages /\ Distinct(Affected)
    BY <1>3, <1>4, <1>5, InOrderIs DEF Distinct
  <1>. QED  BY <1>6 DEF messages

LEMMA ReadHistoryKeeps ==
    ASSUME DraftsInv, ReadHistory
    PROVE  DraftsInv'
  <1>1. /\ UNCHANGED gmailVars /\ pass.at = "read"
        /\ UNCHANGED <<connected, replica, stored, rows, retry, missed, mishaps>>
        /\ pass' = [pass EXCEPT !.at = "fetch", !.upto = Len(history),
                                !.batch = [m \in Message |-> ChangeOf(m)], !.todo = Affected]
    BY DEF ReadHistory
  <1>2. DraftsTypeOK /\ MailboxRight /\ PassRight  BY DEF DraftsInv
  <1>. DEFINE p == pass'
              b == [m \in Message |-> ChangeOf(m)]
              a == Affected
  <1>3. b \in [Message -> Change] /\ a \in Seq(Message) /\ Len(history) \in Nat
    BY <1>2, ChangeOfIs, AffectedIs, MailTyped
  <1>4. pass \in Pass  BY <1>2 DEF DraftsTypeOK
  <1>5. /\ p \in Pass /\ p.at = "fetch" /\ p.upto = Len(history) /\ p.batch = b /\ p.todo = a
        /\ p.kind = pass.kind /\ p.start = pass.start /\ p.references = pass.references
        /\ p.syncing = pass.syncing /\ p.found = pass.found
    <2>. HIDE DEF b, a
    <2>1. pass' = [pass EXCEPT !.at = "fetch", !.upto = Len(history), !.batch = b, !.todo = a]
      BY <1>1 DEF b, a
    <2>. QED  BY <1>3, <1>4, <2>1 DEF Pass
  <1>6. /\ pass.kind \in {"catchup", "final"} /\ pass.start <= From /\ ~pass.syncing
        /\ (pass.kind = "catchup" => replica.ready) /\ (pass.kind = "final" => ~replica.ready /\ replica.owed = {})
        /\ pass.found = {}
    BY <1>1, <1>2 DEF PassRight, StagesRight, FoundRight
  <1>7. mail' = mail /\ history' = history /\ replica' = replica /\ From <= Len(history) /\ From' = From
    BY <1>1, <1>2, MailStays, CursorTyped
  <1>8. StagesRight'
    <2>. HIDE DEF p
    <2>1. p.at # "idle" /\ p.upto <= Len(history) /\ From <= p.upto
      BY <1>3, <1>5, <1>7
    <2>. QED  BY <1>5, <1>6, <1>7, <2>1 DEF StagesRight, p
  <1>9. BatchRight'
    <2>. SUFFICES ASSUME NEW m \in Message PROVE ChangeRight(m)'
      BY DEF BatchRight
    <2>1. p.batch[m] = ChangeOf(m)  BY <1>5
    <2>2. \A i : i \in Ranged' /\ history[i].message = m <=> i \in About(m)
      BY <1>5 DEF Ranged, About
    <2>3. \A i \in About(m) : history[i].related => m \in Range(p.todo)
      BY <1>2, <1>5, AffectedIs DEF Related
    <2>. HIDE DEF p
    <2>. QED  BY <1>2, <1>5, <1>7, <2>1, <2>2, <2>3, ChangeOfIs DEF ChangeRight, p
  <1>10. TodoRight'
    <2>1. ASSUME NEW m \in Message, Related(m) PROVE m \in DOMAIN mail
      BY <1>2, <2>1, AboutTyped DEF Related, MailboxRight, Witnessed
    <2>2. Range(a) \subseteq DOMAIN mail /\ Distinct(a)
      BY <1>2, <2>1, AffectedIs
    <2>. HIDE DEF p, a
    <2>. QED  BY <1>5, <1>7, <2>2 DEF TodoRight, Distinct, p
  <1>11. ReferencesRight' /\ GotRight' /\ FoundRight'
    <2>. HIDE DEF p, a, b
    <2>1. ReferencesRight'
      BY <1>1, <1>2, <1>5, MailStays DEF PassRight, ReferencesRight, p
    <2>2. GotRight' /\ FoundRight'  BY <1>5, <1>6 DEF GotRight, FoundRight, p
    <2>. QED  BY <2>1, <2>2
  <1>12. DraftsTypeOK'  BY <1>1, <1>2, <1>5, <1>7 DEF DraftsTypeOK
  <1>13. CutOff = {} /\ pass'.at # "ready"  BY <1>1, <1>5 DEF CutOff
  <1>14. RowsNamed' /\ RowsRight'  BY <1>1, <1>13, RowsStay DEF DraftsInv
  <1>. QED
    BY <1>1, <1>8, <1>9, <1>10, <1>11, <1>12, <1>14, MailStays, StoredStays DEF DraftsInv, PassRight

LEMMA FetchedIs ==
    ASSUME DraftsInv, pass.at = "fetch", NEW m \in Message
    PROVE  /\ Fetched(m) \in Change
           /\ Fetched(m).op = "keep" => pass.batch[m].op = "keep"
           /\ Fetched(m).op # "keep" => m \in DOMAIN mail
           /\ Fetched(m).op = "delete" => mail[m].label = "gone"
           /\ Fetched(m).op = "labels" => Fetched(m).label = "sent" /\ mail[m].label = "sent"
           /\ pass.batch[m].op = "delete" => Fetched(m).op = "delete"
           /\ Fetched(m).op = "upsert" => Fetched(m).label = LabelOf(m)
  <1>1. ChangeRight(m) /\ pass.batch[m] \in Change
        /\ pass.batch[m].op \in {"keep", "upsert", "labels", "delete"}
    BY PassTyped DEF DraftsInv, PassRight, BatchRight
  <1>2. CASE pass.batch[m].op # "upsert"
    <2>1. Fetched(m) = pass.batch[m]  BY <1>2 DEF Fetched
    <2>. QED  BY <1>1, <1>2, <2>1 DEF ChangeRight
  <1>3. CASE pass.batch[m].op = "upsert"
    <2>1. m \in DOMAIN mail  BY <1>1, <1>3 DEF ChangeRight
    <2>2. Fetched(m) = [op |-> IF Exists(m) THEN "upsert" ELSE "delete", label |-> LabelOf(m)]
      BY <1>3 DEF Fetched
    <2>3. LabelOf(m) \in Label  BY <2>1, LabelOfIs, MailTyped DEF DraftsInv
    <2>4. CASE Exists(m)
      <3>1. Fetched(m) = [op |-> "upsert", label |-> LabelOf(m)]  BY <2>2, <2>4
      <3>. QED  BY <1>3, <2>1, <2>3, <3>1 DEF Change
    <2>5. CASE ~Exists(m)
      <3>1. Fetched(m) = [op |-> "delete", label |-> LabelOf(m)]  BY <2>2, <2>5
      <3>2. mail[m].label = "gone"  BY <2>1, <2>5 DEF Exists
      <3>. QED  BY <1>3, <2>1, <2>3, <3>1, <3>2 DEF Change
    <2>. QED  BY <2>4, <2>5
  <1>. QED  BY <1>2, <1>3

LEMMA FetchMessagesKeeps ==
    ASSUME DraftsInv, FetchMessages
    PROVE  DraftsInv'
  <1>. DEFINE p == pass'
              b == [m \in Message |-> Fetched(m)]
  <1>1. /\ UNCHANGED gmailVars /\ pass.at = "fetch"
        /\ UNCHANGED <<connected, replica, stored, rows, retry, missed, mishaps>>
        /\ pass' = [pass EXCEPT !.at = "apply", !.batch = b]
    BY DEF FetchMessages
  <1>2. DraftsTypeOK /\ MailboxRight /\ PassRight /\ pass \in Pass
    BY DEF DraftsInv, DraftsTypeOK
  <1>3. b \in [Message -> Change] /\ \A m \in Message : b[m] = Fetched(m)
    BY <1>1, FetchedIs
  <1>. HIDE DEF b
  <1>4. /\ p \in Pass /\ p.at = "apply" /\ p.upto = pass.upto /\ p.batch = b /\ p.todo = pass.todo
        /\ p.kind = pass.kind /\ p.start = pass.start /\ p.references = pass.references
        /\ p.syncing = pass.syncing /\ p.found = pass.found
    BY <1>1, <1>2, <1>3 DEF Pass
  <1>. HIDE DEF p
  <1>5. /\ pass.kind \in {"catchup", "final"} /\ pass.start <= From /\ ~pass.syncing
        /\ From <= pass.upto /\ pass.upto <= Len(history)
        /\ (pass.kind = "catchup" => replica.ready) /\ (pass.kind = "final" => ~replica.ready /\ replica.owed = {})
        /\ pass.found = {}
    BY <1>1, <1>2 DEF PassRight, StagesRight, FoundRight
  <1>6. mail' = mail /\ history' = history /\ replica' = replica /\ From' = From
    BY <1>1, <1>2, MailStays, CursorTyped
  <1>7. StagesRight'
    <2>1. p.at # "idle"  BY <1>4
    <2>. QED  BY <1>4, <1>5, <1>6, <2>1 DEF StagesRight, p
  <1>8. BatchRight'
    <2>. SUFFICES ASSUME NEW m \in Message PROVE ChangeRight(m)'
      BY DEF BatchRight
    <2>1. p.batch[m] = Fetched(m) /\ ChangeRight(m)
      BY <1>1, <1>2, <1>3, <1>4 DEF PassRight, BatchRight
    <2>2. Ranged' = Ranged  BY <1>4 DEF Ranged, p
    <2>3. LabelOf(m)' = LabelOf(m)  BY <1>1, MailStays
    <2>. QED  BY <1>1, <1>4, <1>6, <2>1, <2>2, <2>3, FetchedIs DEF ChangeRight, p
  <1>9. TodoRight' /\ ReferencesRight'
    BY <1>1, <1>2, <1>4, <1>6, MailStays DEF PassRight, TodoRight, ReferencesRight, p
  <1>10. GotRight' /\ FoundRight'  BY <1>4, <1>5 DEF GotRight, FoundRight, p
  <1>11. DraftsTypeOK'  BY <1>1, <1>2, <1>4, <1>6 DEF DraftsTypeOK, p
  <1>12. CutOff = {} /\ pass'.at # "ready"  BY <1>1, <1>4 DEF CutOff, p
  <1>13. RowsNamed' /\ RowsRight'  BY <1>1, <1>12, RowsStay DEF DraftsInv
  <1>. QED
    BY <1>1, <1>7, <1>8, <1>9, <1>10, <1>11, <1>13, MailStays, StoredStays DEF DraftsInv, PassRight

-----------------------------------------------------------------------------
(* The batch is applied.                                                   *)

\* A record of what was pending is of the range, or is pending after it.
LEMMA AppliedPending ==
    ASSUME DraftsInv, pass.at = "apply", UNCHANGED gmailVars, From' = pass.upto
    PROVE  /\ \A i \in Pending : i \in Ranged \/ i \in Pending'
           /\ \A m : Later(m) <=> Touched(m)'
  <1>1. pass.start \in Nat /\ pass.upto \in Nat /\ From \in Nat /\ Len(history) \in Nat
        /\ pass.start <= From
    BY PassTyped, CursorTyped, MailTyped DEF DraftsInv, PassRight, StagesRight
  <1>2. history' = history  BY MailStays
  <1>3. \A i \in Pending : i \in Ranged \/ i \in Pending'
    BY <1>1, <1>2 DEF Pending, Ranged
  <1>4. Pending' = pass.upto + 1 .. Len(history)  BY <1>2 DEF Pending
  <1>5. \A m : Later(m) <=> Touched(m)'  BY <1>2, <1>4 DEF Later, Touched
  <1>. QED  BY <1>3, <1>5

LEMMA AppliedStored ==
    ASSUME DraftsInv, pass.at = "apply", UNCHANGED gmailVars, From' = pass.upto,
           UNCHANGED <<replica.ready, replica.base, replica.owed>>, replica.owed = {},
           stored' = [m \in Message |-> AppliedTo(m)]
    PROVE  StoredRight' /\ stored' \in [Message -> Label]
  <1>0. \A m : (Unwalked(m)' <=> Unwalked(m)) /\ (Forgotten(m)' <=> Forgotten(m))
    BY MailStays DEF Unwalked, Forgotten
  <1>1. ASSUME NEW m \in Message
        PROVE  /\ AppliedTo(m) = LabelOf(m) \/ Touched(m)' \/ Unwalked(m) \/ Forgotten(m)
               /\ AppliedTo(m) \in Label
    <2>. DEFINE b == pass.batch[m]
    <2>1. ChangeRight(m) /\ b.op \in {"keep", "upsert", "labels", "delete"} /\ b.label \in Label
          /\ stored[m] \in Label
      BY PassTyped DEF DraftsInv, PassRight, BatchRight, DraftsTypeOK
    <2>2. CASE b.op = "keep"
      <3>1. AppliedTo(m) = stored[m]  BY <2>2 DEF AppliedTo
      <3>2. StoresRight(m)  BY DEF DraftsInv, StoredRight
      <3>3. Touched(m) => Touched(m)'
        <4>. SUFFICES ASSUME Touched(m) PROVE Touched(m)'
          OBVIOUS
        <4>1. PICK i \in Pending : history[i].message = m  BY DEF Touched
        <4>2. i \notin Ranged  BY <2>1, <2>2, <4>1 DEF ChangeRight
        <4>. QED  BY <4>1, <4>2, AppliedPending, MailStays DEF Touched
      <3>. QED  BY <2>1, <3>1, <3>2, <3>3 DEF StoresRight
    <2>3. CASE b.op = "delete"
      <3>1. AppliedTo(m) = "gone"  BY <2>3 DEF AppliedTo
      <3>2. LabelOf(m) = "gone"  BY <2>1, <2>3, LabelOfIs DEF ChangeRight
      <3>. QED  BY <3>1, <3>2 DEF Label
    <2>4. CASE b.op = "labels"
      <3>1. AppliedTo(m) = b.label  BY <2>4 DEF AppliedTo
      <3>2. b.label = LabelOf(m)  BY <2>1, <2>4, LabelOfIs DEF ChangeRight
      <3>. QED  BY <2>1, <3>1, <3>2
    <2>5. CASE b.op = "upsert"
      <3>1. AppliedTo(m) = b.label  BY <2>5 DEF AppliedTo
      <3>2. b.label = LabelOf(m) \/ Later(m)  BY <2>1, <2>5 DEF ChangeRight
      <3>. QED  BY <2>1, <3>1, <3>2, AppliedPending
    <2>. QED  BY <2>1, <2>2, <2>3, <2>4, <2>5
  <1>2. StoredRight'
    <2>1. \A m \in Message : StoresRight(m)'
      BY <1>0, <1>1, MailStays DEF StoresRight
    <2>. QED  BY <2>1 DEF DraftsInv, StoredRight
  <1>. QED  BY <1>1, <1>2

LEMMA AppliedRows ==
    ASSUME DraftsInv, pass.at = "apply", UNCHANGED gmailVars, UNCHANGED missed,
           From' = pass.upto, replica'.ready = replica.ready,
           rows' = [d \in Draft |-> IF Unlinked(d) THEN [rows[d] EXCEPT !.linked = FALSE]
                                                   ELSE rows[d]],
           pass'.at # "ready", replica.ready => Range(pass.todo) \subseteq CutOff'
    PROVE  RowsNamed' /\ RowsRight' /\ rows' \in [Draft -> Row]
  <1>1. \A d \in Draft : rows[d] \in Row  BY DEF DraftsInv, DraftsTypeOK
  <1>2. ASSUME NEW d \in Draft
        PROVE  /\ rows'[d] \in Row /\ rows'[d].message = rows[d].message
               /\ Unlinked(d) => ~rows'[d].linked
               /\ ~Unlinked(d) => rows'[d] = rows[d]
    <2>1. CASE Unlinked(d)
      <3>1. rows'[d] = [rows[d] EXCEPT !.linked = FALSE]  BY <2>1
      <3>. QED  BY <1>1, <2>1, <3>1 DEF Row
    <2>2. CASE ~Unlinked(d)
      <3>1. rows'[d] = rows[d]  BY <2>2
      <3>. QED  BY <1>1, <2>2, <3>1
    <2>. QED  BY <2>1, <2>2
  <1>3. rows' \in [Draft -> Row]  BY <1>2
  <1>4. RowsNamed'  BY <1>2, MailStays DEF DraftsInv, RowsNamed
  <1>5. ASSUME RowsHold', NEW d \in Draft PROVE RowRight(d)'
    <2>1. replica.ready /\ RowRight(d) /\ Range(pass.todo) \subseteq CutOff'
      BY <1>5 DEF DraftsInv, RowsRight, RowsHold
    <2>2. CutOff = {}  BY DEF CutOff
    <2>3. \A m : Owed(m) => Owed(m)'  BY <2>2 DEF Owed
    <2>4. \A m : m \in Range(pass.todo) => Owed(m)'  BY <2>1 DEF Owed
    <2>5. \A i \in Pending : history[i].message \in Message /\ Witnessed(history[i])
      <3>1. Pending \subseteq DOMAIN history
        BY CursorTyped, MailTyped DEF DraftsInv, Pending
      <3>. QED  BY <3>1, MailTyped DEF DraftsInv, MailboxRight
    <2>6. \A m \in Message : ChangeRight(m)
      BY DEF DraftsInv, PassRight, BatchRight
    <2>7. ASSUME NEW m \in MessagesOf(d) PROVE ShownOf(d)' = m \/ Came(m)' \/ Owed(m)'
      <3>1. m \in DOMAIN mail /\ m \in Message /\ mail[m].label = "draft" /\ m # 0
        BY MessagesOfIs, MailTyped DEF DraftsInv
      <3>2. CASE ShownOf(d) = m
        <4>1. rows[d].message = m /\ rows[d].linked  BY <3>1, <3>2 DEF ShownOf
        <4>2. pass.batch[m].op # "delete"  BY <2>6, <3>1 DEF ChangeRight
        <4>3. rows'[d] = rows[d]  BY <1>2, <4>1, <4>2 DEF Unlinked
        <4>. QED  BY <4>1, <4>3 DEF ShownOf
      <3>3. CASE Came(m)
        <4>1. PICK i \in Pending : history[i].message = m /\ history[i].op = "upsert"
          BY <3>3 DEF Came
        <4>2. history[i].related  BY <2>5, <3>1, <4>1 DEF Witnessed
        <4>3. CASE i \in Ranged
          BY <2>4, <2>6, <3>1, <4>1, <4>2, <4>3 DEF ChangeRight
        <4>4. CASE i \in Pending'  BY <4>1, <4>4, MailStays DEF Came
        <4>. QED  BY <4>3, <4>4, AppliedPending
      <3>4. CASE Owed(m)  BY <2>3, <3>4
      <3>. QED  BY <2>1, <3>2, <3>3, <3>4 DEF RowRight
    <2>8. ASSUME NEW m \in Message, ShownOf(d)' = m PROVE StillIn(m)' \/ Owed(m)'
      <3>1. m # 0  BY MailTyped DEF DraftsInv
      <3>2. rows'[d].linked /\ rows'[d].message = m  BY <2>8, <3>1 DEF ShownOf
      <3>3. ~Unlinked(d) /\ rows[d].message = m /\ rows[d].linked  BY <1>2, <3>2
      <3>4. ShownOf(d) = m /\ pass.batch[m].op # "delete"
        BY <3>1, <3>3 DEF ShownOf, Unlinked
      <3>5. CASE mail[m].label = "draft"  BY <3>5, MailStays DEF StillIn
      <3>6. CASE Ended(m)
        <4>1. PICK i \in Pending : history[i].message = m /\ history[i].op \in {"labels", "delete"}
          BY <3>6 DEF Ended
        <4>2. CASE i \in Ranged
          <5>1. history[i].op = "labels"
            BY <2>6, <3>4, <4>1, <4>2 DEF ChangeRight
          <5>2. history[i].related  BY <2>5, <4>1, <5>1 DEF Witnessed
          <5>. QED  BY <2>4, <2>6, <4>1, <4>2, <5>2 DEF ChangeRight
        <4>3. CASE i \in Pending'
          <5>1. Ended(m)'  BY <4>1, <4>3, MailStays DEF Ended
          <5>. QED  BY <5>1 DEF StillIn
        <4>. QED  BY <4>2, <4>3, AppliedPending
      <3>7. CASE Owed(m)  BY <2>3, <3>7
      <3>. QED  BY <2>1, <3>4, <3>5, <3>6, <3>7 DEF RowRight, StillIn
    <2>. QED  BY <2>7, <2>8, MailStays DEF RowRight
  <1>. QED  BY <1>3, <1>4, <1>5 DEF RowsRight

LEMMA ApplyBatchKeeps ==
    ASSUME DraftsInv, ApplyBatch
    PROVE  DraftsInv'
  <1>1. UNCHANGED gmailVars /\ UNCHANGED <<connected, missed, mishaps>> /\ pass.at = "apply"
    BY DEF ApplyBatch
  <1>2. DraftsTypeOK /\ MailboxRight /\ PassRight /\ pass \in Pass /\ retry \in BOOLEAN
        /\ mishaps \in 0 .. MaxMishaps
    BY DEF DraftsInv, DraftsTypeOK
  <1>3. CASE ~connected
    <2>1. UNCHANGED <<stored, rows, replica>> /\ pass' = Idle /\ retry' = FALSE
      BY <1>3 DEF ApplyBatch, Ends
    <2>2. CutOff = {}  BY <1>1 DEF CutOff
    <2>. QED  BY <1>1, <1>2, <2>1, <2>2, StopsKeeps
  <1>4. CASE connected
    <2>1. /\ stored' = [m \in Message |-> AppliedTo(m)]
          /\ rows' = [d \in Draft |-> IF Unlinked(d) THEN [rows[d] EXCEPT !.linked = FALSE]
                                                     ELSE rows[d]]
          /\ replica' = [replica EXCEPT !.cursor = pass.upto]
      BY <1>4 DEF ApplyBatch, NextCursor
    <2>2. /\ From' = pass.upto /\ replica'.ready = replica.ready
          /\ replica'.base = replica.base /\ replica'.owed = replica.owed /\ replica.owed = {}
      <3>1. /\ From <= pass.upto /\ pass.upto \in Nat /\ From \in Nat
            /\ replica.base \in Nat /\ replica.base <= From
        BY <1>1, <1>2, PassTyped, CursorTyped DEF PassRight, StagesRight
      <3>2. From' = pass.upto  BY <1>2, <2>1, <3>1, CursorTyped
      <3>3. /\ replica'.ready = replica.ready /\ replica'.base = replica.base
            /\ replica'.owed = replica.owed
        BY <1>2, <2>1, CursorTyped
      <3>4. replica.owed = {}
        BY <1>1, <1>2 DEF DraftsInv, PassRight, StagesRight, StoredRight
      <3>. QED  BY <3>2, <3>3, <3>4
    <2>3. PICK p : p = [pass EXCEPT !.at = "list", !.batch = NoBatch, !.start = 0]
      OBVIOUS
    <2>4. NoBatch \in [Message -> Change]  BY DEF NoBatch, Keep, Change, Label
    <2>5. /\ p \in Pass /\ p.at = "list" /\ p.upto = pass.upto /\ p.todo = pass.todo
          /\ p.kind = pass.kind /\ p.references = pass.references
          /\ p.syncing = pass.syncing /\ p.found = pass.found
      BY <1>2, <2>3, <2>4 DEF Pass
    <2>6. IF pass.todo = <<>> THEN GoesOn(p) ELSE pass' = p /\ UNCHANGED retry
      BY <1>4, <2>3 DEF ApplyBatch
    <2>7. /\ p.kind \in {"catchup", "final"} /\ ~p.syncing /\ p.found = {}
          /\ (p.kind = "catchup" => replica'.ready) /\ (p.kind = "final" => ~replica'.ready)
          /\ replica'.owed = {}
          /\ pass.upto <= Len(history)
      BY <1>1, <1>2, <2>2, <2>5 DEF PassRight, StagesRight, FoundRight
    <2>8. Named(p.references)'
      BY <1>1, <1>2, <2>5, MailStays DEF PassRight, ReferencesRight, Named
    <2>9. /\ pass' \in Pass /\ retry' \in BOOLEAN /\ PassRight' /\ pass'.at # "ready"
          /\ (replica.ready => Range(pass.todo) \subseteq CutOff')
      <3>1. CASE pass.todo = <<>>
        <4>1. GoesOn(p) /\ p.todo = <<>>  BY <2>5, <2>6, <3>1
        <4>. QED  BY <1>1, <1>2, <2>2, <2>5, <2>7, <2>8, <3>1, <4>1, GoesOnRight, IdleIs
      <3>2. CASE pass.todo # <<>>
        <4>1. pass' = p /\ retry' = retry  BY <2>6, <3>2
        <4>2. Range(p.todo) \subseteq DOMAIN mail' /\ Distinct(p.todo)
          BY <1>1, <1>2, <2>5, MailStays DEF PassRight, TodoRight, Distinct
        <4>3. PassRight' /\ pass'.at # "ready"
          BY <2>2, <2>5, <2>7, <2>8, <3>2, <4>1, <4>2, ListsRight
        <4>4. replica.ready => Range(pass.todo) \subseteq CutOff'
          BY <2>2, <2>5, <2>7, <4>1 DEF CutOff
        <4>. QED  BY <1>2, <2>5, <4>1, <4>3, <4>4
      <3>. QED  BY <3>1, <3>2
    <2>10. StoredRight' /\ stored' \in [Message -> Label]
      BY <1>1, <2>1, <2>2, AppliedStored
    <2>11. RowsNamed' /\ RowsRight' /\ rows' \in [Draft -> Row]
      BY <1>1, <2>1, <2>2, <2>9, AppliedRows
    <2>12. DraftsTypeOK'
      <3>1. pass.upto \in Nat /\ Len(history) \in Nat
        BY <1>2, PassTyped, MailTyped
      <3>2. pass.upto \in 0 .. Len(history)  BY <2>7, <3>1
      <3>3. replica' \in [ready : BOOLEAN, cursor : 0 .. Len(history), base : 0 .. Len(history),
                          owed : SUBSET Draft]
        BY <1>2, <2>1, <3>2 DEF DraftsTypeOK
      <3>. QED  BY <1>1, <1>2, <2>9, <2>10, <2>11, <3>3, MailStays DEF DraftsTypeOK
    <2>. QED  BY <1>1, <1>2, <2>9, <2>10, <2>11, <2>12, MailStays DEF DraftsInv
  <1>. QED  BY <1>3, <1>4

-----------------------------------------------------------------------------
(* The drafts are listed, and seen to one by one.                          *)

LEMMA ListedIs ==
    ASSUME DraftsTypeOK, MailboxRight
    PROVE  /\ Listed \subseteq Reference
           /\ \A r \in Listed : /\ Of(r.message, r.draft) /\ r.message \in DOMAIN mail
                                /\ r.message \in Message
           /\ \A r, s \in Listed : r.draft = s.draft => r = s
           /\ \A d \in Draft : \A m \in MessagesOf(d) : [message |-> m, draft |-> d] \in Listed
  <1>1. ASSUME NEW r \in Listed
        PROVE  /\ r \in Reference /\ Of(r.message, r.draft) /\ r.message \in DOMAIN mail
               /\ r.message \in Message /\ r = [message |-> Current(r.draft), draft |-> r.draft]
    <2>1. PICK d \in Draft : Current(d) # 0 /\ r = [message |-> Current(d), draft |-> d]
      BY DEF Listed
    <2>2. Current(d) \in DOMAIN mail /\ mail[Current(d)].draft = d /\ Current(d) \in Message
      BY <2>1, CurrentIs, MailTyped
    <2>3. r.message = Current(d) /\ r.draft = d  BY <2>1
    <2>. QED  BY <2>1, <2>2, <2>3 DEF Of, Reference
  <1>2. \A r, s \in Listed : r.draft = s.draft => r = s  BY <1>1
  <1>3. ASSUME NEW d \in Draft, NEW m \in MessagesOf(d)
        PROVE  [message |-> m, draft |-> d] \in Listed
    <2>1. m = Current(d) /\ Current(d) # 0  BY CurrentIs
    <2>. QED  BY <2>1 DEF Listed
  <1>. QED  BY <1>1, <1>2, <1>3

LEMMA AllIs ==
    ASSUME DraftsTypeOK, MailboxRight, NEW messages, messages = {r.message : r \in Listed}
    PROVE  /\ InOrder(messages, [m \in messages |-> m]) \in Seq(Message)
           /\ Range(InOrder(messages, [m \in messages |-> m])) = messages
           /\ Distinct(InOrder(messages, [m \in messages |-> m]))
           /\ messages \subseteq DOMAIN mail
  <1>. DEFINE place == [m \in messages |-> m]
  <1>1. messages \in SUBSET Message /\ messages \subseteq DOMAIN mail
    BY ListedIs
  <1>2. place \in [messages -> Nat] /\ \A m, n \in messages : place[m] = place[n] => m = n
    BY <1>1, MailTyped
  <1>. HIDE DEF place
  <1>3. /\ InOrder(messages, place) \in Seq(Message)
        /\ Range(InOrder(messages, place)) = messages
        /\ Distinct(InOrder(messages, place))
    BY <1>1, <1>2, InOrderIs DEF Distinct
  <1>. QED  BY <1>1, <1>3 DEF place

LEMMA ListDraftsKeeps ==
    ASSUME DraftsInv, ListDrafts
    PROVE  DraftsInv'
  <1>1. /\ UNCHANGED gmailVars /\ pass.at = "list"
        /\ UNCHANGED <<connected, replica, stored, rows, retry, missed, mishaps>>
    BY DEF ListDrafts
  <1>2. DraftsTypeOK /\ MailboxRight /\ PassRight /\ pass \in Pass
    BY DEF DraftsInv, DraftsTypeOK
  <1>3. PICK messages : messages = {r.message : r \in Listed}  OBVIOUS
  <1>4. PICK todo : todo = IF pass.syncing THEN InOrder(messages, [m \in messages |-> m])
                           ELSE pass.todo
    OBVIOUS
  <1>5. PICK references : references = {r \in Listed : r.message \in Range(todo)}
    OBVIOUS
  <1>. DEFINE p == pass'
  <1>6. \/ todo = <<>> /\ p = [pass EXCEPT !.at = "replace", !.todo = todo,
                                           !.references = references]
        \/ todo # <<>> /\ p = [pass EXCEPT !.at = "refresh", !.todo = todo,
                                           !.references = references]
    BY <1>3, <1>4, <1>5 DEF ListDrafts
  <1>7. /\ pass.kind \in {"catchup", "final"} /\ pass.upto = From /\ pass.found = {}
        /\ (~pass.syncing => pass.todo # <<>>)
        /\ (pass.kind = "catchup" => replica.ready /\ ~pass.syncing)
        /\ (pass.kind = "final" => ~replica.ready /\ replica.owed = {})
    BY <1>1, <1>2 DEF PassRight, StagesRight, FoundRight
  <1>8. todo \in Seq(Message) /\ Distinct(todo) /\ Range(todo) \subseteq DOMAIN mail
        /\ (pass.syncing => Range(todo) = messages)
    <2>1. CASE pass.syncing  BY <1>2, <1>3, <1>4, <2>1, AllIs
    <2>2. CASE ~pass.syncing
      BY <1>2, <1>4, <2>2, PassTyped DEF PassRight, TodoRight, Distinct
    <2>. QED  BY <2>1, <2>2
  <1>9. references \subseteq Reference /\ Named(references)
    BY <1>2, <1>5, ListedIs DEF Named
  <1>10. /\ p \in Pass /\ p.todo = todo /\ p.references = references /\ p.kind = pass.kind
         /\ p.upto = pass.upto /\ p.syncing = pass.syncing /\ p.found = pass.found
         /\ p.at = (IF todo = <<>> THEN "replace" ELSE "refresh")
    <2>1. CASE todo = <<>>
      <3>1. p = [pass EXCEPT !.at = "replace", !.todo = todo, !.references = references]
        BY <1>6, <2>1
      <3>. HIDE DEF p
      <3>. QED  BY <1>2, <1>8, <1>9, <2>1, <3>1 DEF Pass
    <2>2. CASE todo # <<>>
      <3>1. p = [pass EXCEPT !.at = "refresh", !.todo = todo, !.references = references]
        BY <1>6, <2>2
      <3>. HIDE DEF p
      <3>. QED  BY <1>2, <1>8, <1>9, <2>2, <3>1 DEF Pass
    <2>. QED  BY <2>1, <2>2
  <1>. HIDE DEF p
  <1>11. todo = <<>> => pass.syncing  BY <1>4, <1>7
  <1>12. mail' = mail /\ replica' = replica /\ stored' = stored /\ From' = From
    BY <1>1, <1>2, MailStays, CursorTyped
  <1>13. StagesRight'
    <2>1. p.at \in {"replace", "refresh"} /\ (p.at = "refresh" => p.todo # <<>>)
          /\ (p.at = "replace" => p.syncing /\ p.todo = <<>>)
      BY <1>10, <1>11
    <2>. QED  BY <1>7, <1>10, <1>12, <2>1 DEF StagesRight, p
  <1>14. BatchRight' /\ GotRight' /\ pass'.at # "ready"
    BY <1>10 DEF BatchRight, GotRight, p
  <1>15. TodoRight'  BY <1>8, <1>10, <1>12 DEF TodoRight, Distinct, p
  <1>16. ReferencesRight'
    <2>1. \A r \in references : Of(r.message, r.draft)'
      BY <1>1, <1>9, MailStays DEF Named
    <2>2. ASSUME NEW m \in Range(todo), mail[m].label = "draft"
          PROVE  [message |-> m, draft |-> mail[m].draft] \in references
      <3>. DEFINE d == mail[m].draft
                  r == [message |-> m, draft |-> d]
      <3>1. m \in DOMAIN mail /\ d \in Draft /\ m \in MessagesOf(d)
        BY <1>2, <1>8, <2>2, MailTyped, MessagesOfIs
      <3>2. r \in Listed /\ r.message = m  BY <1>2, <3>1, ListedIs
      <3>. QED  BY <1>5, <3>2
    <2>. QED  BY <1>9, <1>10, <1>12, <2>1, <2>2 DEF ReferencesRight, Named, p
  <1>17. FoundRight'
    <2>1. ASSUME pass.syncing, NEW d \in Draft, NEW c \in MessagesOf(d)'
          PROVE  Collects(c, d)'
      <3>. DEFINE r == [message |-> c, draft |-> d]
      <3>1. r \in Listed /\ r.message = c  BY <1>1, <1>2, MailStays, ListedIs
      <3>2. c \in Range(todo)  BY <1>3, <1>8, <2>1, <3>1
      <3>. QED  BY <1>5, <1>10, <3>1, <3>2 DEF Collects, p
    <2>. QED  BY <1>7, <1>10, <2>1 DEF FoundRight, p
  <1>18. DraftsTypeOK'  BY <1>1, <1>2, <1>10, MailStays DEF DraftsTypeOK, p
  <1>19. CutOff \subseteq CutOff'
    <2>1. CASE pass.kind = "catchup"
      <3>1. p.kind = "catchup" /\ p.at = "refresh" /\ p.todo = pass.todo
        BY <1>4, <1>7, <1>10, <1>11, <2>1
      <3>. QED  BY <1>1, <2>1, <3>1 DEF CutOff, p
    <2>2. CASE pass.kind # "catchup"  BY <2>2 DEF CutOff
    <2>. QED  BY <2>1, <2>2
  <1>20. RowsNamed' /\ RowsRight'  BY <1>1, <1>14, <1>19, RowsStay DEF DraftsInv
  <1>. QED  BY <1>1, <1>2, <1>13, <1>14, <1>15, <1>16, <1>17, <1>18, <1>20, MailStays, StoredStays
            DEF DraftsInv, PassRight

\* The references that are left when the first message has been seen to.
LeftOver == {r \in pass.references : r.message # Head(pass.todo)}

LEMMA DoneRight ==
    ASSUME DraftsInv, pass.at \in {"refresh", "save"}, UNCHANGED gmailVars,
           UNCHANGED <<replica, stored>>, NEW found \in SUBSET Reference, Done(found),
           ~pass.syncing => found = {},
           \A f \in found : Of(f.message, f.draft) /\ StillIn(f.message) /\ stored[f.message] = "draft",
           \A f, g \in found : f.draft = g.draft => f = g,
           \A f \in found, r \in LeftOver : f.draft # r.draft,
           pass.syncing => \A d \in Draft : \A c \in MessagesOf(d) :
              \/ Came(c)
              \/ [message |-> c, draft |-> d] \in found
              \/ /\ c \in Range(pass.todo) \ {Head(pass.todo)}
                 /\ [message |-> c, draft |-> d] \in LeftOver
    PROVE  /\ pass' \in Pass /\ retry' \in BOOLEAN /\ PassRight' /\ pass'.at # "ready"
           /\ replica.ready => Range(pass.todo) \ {Head(pass.todo)} \subseteq CutOff'
  <1>1. /\ DraftsTypeOK /\ PassRight /\ pass \in Pass /\ retry \in BOOLEAN /\ mail' = mail
        /\ From' = From /\ replica' = replica
    BY MailStays, CursorTyped DEF DraftsInv, DraftsTypeOK
  <1>2. /\ pass.kind \in {"catchup", "final"} /\ pass.upto = From /\ pass.todo # <<>>
        /\ (pass.kind = "catchup" => replica.ready /\ ~pass.syncing)
        /\ (pass.kind = "final" => ~replica.ready /\ replica.owed = {})
    BY <1>1 DEF PassRight, StagesRight
  <1>. DEFINE rest == Tail(pass.todo)
  <1>3. /\ rest \in Seq(Message) /\ Distinct(rest)
        /\ Range(rest) = Range(pass.todo) \ {Head(pass.todo)}
    <2>1. pass.todo \in Seq(Message) /\ Distinct(pass.todo)
      BY <1>1, PassTyped DEF PassRight, TodoRight, Distinct
    <2>. QED  BY <1>2, <2>1, TailIs
  <1>4. LeftOver \subseteq Reference /\ LeftOver \subseteq pass.references
    BY <1>1, PassTyped DEF LeftOver
  <1>5. PICK l : l = [pass EXCEPT !.at = "refresh", !.todo = rest, !.got = {},
                                  !.references = LeftOver, !.found = found]
    OBVIOUS
  <1>. HIDE DEF rest
  <1>6. /\ l \in Pass /\ l.at = "refresh" /\ l.todo = rest /\ l.references = LeftOver
        /\ l.found = found /\ l.kind = pass.kind /\ l.upto = pass.upto /\ l.syncing = pass.syncing
    BY <1>1, <1>3, <1>4, <1>5 DEF Pass
  <1>7. l = [pass EXCEPT !.at = "refresh", !.todo = Tail(@), !.got = {},
                         !.references = {r \in @ : r.message # Head(pass.todo)}, !.found = found]
    BY <1>5 DEF LeftOver, rest
  <1>8. /\ l.todo # <<>> => pass' = l /\ retry' = retry
        /\ l.todo = <<>> /\ l.syncing => pass' = [l EXCEPT !.at = "replace"] /\ retry' = retry
        /\ l.todo = <<>> /\ ~l.syncing => GoesOn(l)
    BY <1>7 DEF Done
  <1>9. Named(LeftOver)  BY <1>1, <1>4 DEF PassRight, ReferencesRight, Named
  <1>10. ASSUME NEW p \in Pass, pass' = p, p.at \in {"refresh", "replace"}, p.todo = rest,
                p.at = "refresh" <=> rest # <<>>, p.at = "replace" => p.syncing,
                p.references = LeftOver, p.found = found, p.kind = pass.kind, p.upto = pass.upto,
                p.syncing = pass.syncing
         PROVE  PassRight'
    <2>1. StagesRight'
      <3>1. p.at # "idle" /\ p.at # "list" /\ p.at # "read" /\ p.at # "ready"
        BY <1>10
      <3>. QED  BY <1>1, <1>2, <1>10, <3>1 DEF StagesRight
    <2>2. BatchRight' /\ GotRight'  BY <1>10 DEF BatchRight, GotRight
    <2>3. TodoRight'  BY <1>1, <1>3, <1>10 DEF PassRight, TodoRight, Distinct
    <2>4. ReferencesRight'
      <3>1. \A r \in LeftOver : Of(r.message, r.draft)'
        BY <1>9, MailStays DEF Named
      <3>2. ASSUME NEW m \in Range(rest), mail[m].label = "draft"
            PROVE  [message |-> m, draft |-> mail[m].draft] \in LeftOver
        <4>1. m \in Range(pass.todo) /\ m # Head(pass.todo)  BY <1>3
        <4>2. [message |-> m, draft |-> mail[m].draft] \in pass.references
          BY <1>1, <3>2, <4>1 DEF PassRight, ReferencesRight
        <4>. QED  BY <4>1, <4>2 DEF LeftOver
      <3>. QED  BY <1>1, <1>9, <1>10, <3>1, <3>2 DEF ReferencesRight, Named
    <2>5. FoundRight'
      <3>1. \A f \in found : Of(f.message, f.draft)' /\ StillIn(f.message)' /\ stored'[f.message] = "draft"
        BY MailStays, PendingStays
      <3>2. ASSUME pass.syncing, NEW d \in Draft, NEW c \in MessagesOf(d)'
            PROVE  Collects(c, d)'
        <4>1. c \in MessagesOf(d)  BY MailStays
        <4>. QED  BY <1>3, <1>10, <3>2, <4>1, PendingStays DEF Collects
      <3>3. p.at # "list"  BY <1>10
      <3>. QED  BY <1>10, <3>1, <3>2, <3>3 DEF FoundRight
    <2>. QED  BY <2>1, <2>2, <2>3, <2>4, <2>5 DEF PassRight
  <1>11. CASE rest # <<>>
    <2>1. pass' = l /\ retry' = retry  BY <1>6, <1>8, <1>11
    <2>2. PassRight'  BY <1>6, <1>10, <1>11, <2>1
    <2>3. replica.ready => Range(rest) \subseteq CutOff'
      BY <1>2, <1>6, <2>1 DEF CutOff
    <2>. QED  BY <1>1, <1>3, <1>6, <2>1, <2>2, <2>3
  <1>12. CASE rest = <<>> /\ pass.syncing
    <2>1. PICK p : p = [l EXCEPT !.at = "replace"]  OBVIOUS
    <2>2. pass' = p /\ retry' = retry  BY <1>6, <1>8, <1>12, <2>1
    <2>3. /\ p \in Pass /\ p.at = "replace" /\ p.todo = rest /\ p.references = LeftOver
          /\ p.found = found /\ p.kind = pass.kind /\ p.upto = pass.upto /\ p.syncing = pass.syncing
      BY <1>6, <2>1 DEF Pass
    <2>4. PassRight'  BY <1>10, <1>12, <2>2, <2>3
    <2>5. ~replica.ready  BY <1>2, <1>12
    <2>. QED  BY <1>1, <2>2, <2>3, <2>4, <2>5
  <1>13. CASE rest = <<>> /\ ~pass.syncing
    <2>1. GoesOn(l) /\ l.todo = <<>>  BY <1>6, <1>8, <1>13
    <2>2. Named(l.references)'  BY <1>6, <1>9, MailStays DEF Named
    <2>3. /\ l.found = {} /\ ~l.syncing /\ l.kind \in {"catchup", "final"}
          /\ (l.kind = "catchup" => replica'.ready) /\ (l.kind = "final" => ~replica'.ready /\ replica'.owed = {})
          /\ l.upto = From'
      BY <1>1, <1>2, <1>6, <1>13
    <2>4. pass' \in Pass /\ retry' \in BOOLEAN /\ PassRight' /\ pass'.at # "ready"
      BY <1>1, <1>6, <2>1, <2>2, <2>3, GoesOnRight
    <2>5. Range(pass.todo) \ {Head(pass.todo)} = {}  BY <1>3, <1>13, IdleIs
    <2>. QED  BY <2>4, <2>5
  <1>. QED  BY <1>11, <1>12, <1>13

\* The rows after message h has been seen to: R1 and R2 say what was written.
LEMMA SeenTo ==
    ASSUME DraftsInv, UNCHANGED gmailVars, UNCHANGED replica, NEW h,
           CutOff \subseteq CutOff' \union {h}, missed' = missed \ {h}, pass'.at # "ready",
           \A d \in Draft : \A m \in MessagesOf(d) :
              \/ m # h /\ (ShownOf(d) = m => ShownOf(d)' = m)
              \/ ShownOf(d)' = m
              \/ Came(m),
           \A d \in Draft : \A m \in Message : ShownOf(d)' = m =>
              \/ m # h /\ ShownOf(d) = m
              \/ StillIn(m)
    PROVE  RowsRight'
  <1>1. \A m : Owed(m) /\ m # h => Owed(m)'  BY DEF Owed
  <1>. SUFFICES ASSUME RowsHold', NEW d \in Draft PROVE RowRight(d)'
    BY DEF RowsRight
  <1>2. RowRight(d)  BY DEF RowsHold, DraftsInv, RowsRight
  <1>3. ASSUME NEW m \in MessagesOf(d)' PROVE ShownOf(d)' = m \/ Came(m)' \/ Owed(m)'
    <2>1. m \in MessagesOf(d)  BY MailStays
    <2>2. ShownOf(d) = m \/ Came(m) \/ Owed(m)  BY <1>2, <2>1 DEF RowRight
    <2>3. CASE m # h /\ (ShownOf(d) = m => ShownOf(d)' = m)
      BY <1>1, <2>2, <2>3, PendingStays
    <2>4. CASE ShownOf(d)' = m \/ Came(m)  BY <2>4, PendingStays
    <2>. QED  BY <2>1, <2>3, <2>4
  <1>4. ASSUME NEW m \in Message, ShownOf(d)' = m PROVE StillIn(m)' \/ Owed(m)'
    <2>1. CASE m # h /\ ShownOf(d) = m
      <3>1. StillIn(m) \/ Owed(m)  BY <1>2, <2>1 DEF RowRight
      <3>. QED  BY <1>1, <2>1, <3>1, PendingStays
    <2>2. CASE StillIn(m)  BY <2>2, PendingStays
    <2>. QED  BY <1>4, <2>1, <2>2
  <1>. QED  BY <1>3, <1>4 DEF RowRight

\* What is known of the first message of the list.
LEMMA HeadIs ==
    ASSUME DraftsInv, pass.at \in {"refresh", "store", "save"}
    PROVE  /\ pass.todo # <<>> /\ Head(pass.todo) \in Range(pass.todo)
           /\ Head(pass.todo) \in DOMAIN mail /\ Head(pass.todo) \in Message
           /\ CutOff \subseteq Range(pass.todo)
           /\ pass.kind = "catchup" <=> replica.ready
           /\ pass.upto = From
           /\ pass.kind = "catchup" => ~pass.syncing
  <1>1. DraftsTypeOK /\ PassRight  BY DEF DraftsInv
  <1>2. /\ pass.todo # <<>> /\ pass.upto = From
        /\ (pass.kind = "catchup" <=> replica.ready)
        /\ (pass.kind = "catchup" => ~pass.syncing)
    BY <1>1 DEF PassRight, StagesRight
  <1>3. pass.todo \in Seq(Message) /\ Distinct(pass.todo) /\ Range(pass.todo) \subseteq DOMAIN mail
    BY <1>1, PassTyped DEF PassRight, TodoRight, Distinct
  <1>4. CutOff \subseteq Range(pass.todo)  BY DEF CutOff
  <1>. QED  BY <1>2, <1>3, <1>4, TailIs

LEMMA RemoveRowKeeps ==
    ASSUME DraftsInv, RemoveRow
    PROVE  DraftsInv'
  <1>1. /\ UNCHANGED gmailVars /\ UNCHANGED <<connected, replica, stored, mishaps>>
        /\ pass.at = "refresh" /\ ReferenceOf(Head(pass.todo)) = {}
        /\ rows' = [d \in Draft |-> IF rows[d].message = Head(pass.todo) THEN NoRow ELSE rows[d]]
        /\ missed' = missed \ {Head(pass.todo)} /\ Done(pass.found)
    BY DEF RemoveRow
  <1>2. DraftsTypeOK /\ MailboxRight /\ PassRight /\ StoredRight /\ RowsNamed
    BY DEF DraftsInv
  <1>3. PICK h : h = Head(pass.todo)  OBVIOUS
  <1>4. h \in Message /\ h \in DOMAIN mail /\ h \in Range(pass.todo) /\ h # 0
        /\ CutOff \subseteq Range(pass.todo)
    BY <1>1, <1>2, <1>3, HeadIs, MailTyped
  <1>5. \A r \in pass.references : r.message # h  BY <1>1, <1>3 DEF ReferenceOf
  <1>6. PICK found : found = pass.found  OBVIOUS
  <1>7. /\ pass' \in Pass /\ retry' \in BOOLEAN /\ PassRight' /\ pass'.at # "ready"
        /\ replica.ready => Range(pass.todo) \ {h} \subseteq CutOff'
    <2>1. found \in SUBSET Reference /\ Done(found)
      BY <1>1, <1>2, <1>6, PassTyped
    <2>2. /\ ~pass.syncing => found = {}
          /\ \A f \in found : Of(f.message, f.draft) /\ StillIn(f.message)
                              /\ stored[f.message] = "draft"
          /\ \A f, g \in found : f.draft = g.draft => f = g
      BY <1>2, <1>6 DEF PassRight, FoundRight
    <2>3. \A f \in found, r \in LeftOver : f.draft # r.draft
      BY <1>2, <1>6 DEF PassRight, FoundRight, LeftOver
    <2>4. ASSUME pass.syncing, NEW d \in Draft, NEW c \in MessagesOf(d)
          PROVE  \/ Came(c)
                 \/ [message |-> c, draft |-> d] \in found
                 \/ /\ c \in Range(pass.todo) \ {Head(pass.todo)}
                    /\ [message |-> c, draft |-> d] \in LeftOver
      <3>1. Collects(c, d)  BY <1>1, <1>2, <2>4 DEF PassRight, FoundRight
      <3>2. ASSUME [message |-> c, draft |-> d] \in pass.references
            PROVE  c # Head(pass.todo) /\ [message |-> c, draft |-> d] \in LeftOver
        <4>1. [message |-> c, draft |-> d].message # h  BY <1>5, <3>2
        <4>. QED  BY <1>3, <3>2, <4>1 DEF LeftOver
      <3>. QED  BY <1>6, <3>1, <3>2 DEF Collects
    <2>. QED  BY <1>1, <1>3, <2>1, <2>2, <2>3, <2>4, DoneRight
  <1>8. ASSUME NEW d \in Draft
        PROVE  /\ rows'[d] \in Row
               /\ rows[d].message = h => rows'[d] = NoRow
               /\ rows[d].message # h => rows'[d] = rows[d]
    <2>1. rows[d] \in Row /\ NoRow \in Row
      BY <1>2, MailTyped DEF DraftsTypeOK, Row, NoRow
    <2>. QED  BY <1>1, <1>3, <2>1
  <1>9. DraftsTypeOK'
    <2>1. rows' \in [Draft -> Row]  BY <1>1, <1>8
    <2>. QED  BY <1>1, <1>2, <1>7, <2>1, MailStays DEF DraftsTypeOK
  <1>10. RowsNamed'
    <2>1. ASSUME NEW d \in Draft, rows'[d].message # 0 PROVE Of(rows[d].message, d) /\ rows'[d] = rows[d]
      BY <1>2, <1>8, <2>1 DEF RowsNamed, NoRow
    <2>. QED  BY <1>1, <2>1, MailStays DEF RowsNamed, Of
  <1>11. ASSUME replica.ready PROVE RowsRight'
    <2>1. CutOff \subseteq CutOff' \union {h}  BY <1>4, <1>7, <1>11
    <2>2. ASSUME NEW d \in Draft, NEW m \in MessagesOf(d)
          PROVE  m # h /\ (ShownOf(d) = m => ShownOf(d)' = m)
      <3>1. m \in DOMAIN mail /\ mail[m].draft = d /\ mail[m].label = "draft" /\ d \in Draft /\ m # 0
        BY <1>2, MessagesOfIs, MailTyped
      <3>2. m # h
        <4>. SUFFICES ASSUME m = h PROVE FALSE
          OBVIOUS
        <4>1. [message |-> h, draft |-> mail[h].draft] \in pass.references
          BY <1>1, <1>2, <1>4, <3>1 DEF PassRight, ReferencesRight
        <4>2. [message |-> h, draft |-> mail[h].draft].message = h  OBVIOUS
        <4>. QED  BY <1>5, <4>1, <4>2
      <3>3. ShownOf(d) = m => ShownOf(d)' = m  BY <1>8, <3>1, <3>2 DEF ShownOf
      <3>. QED  BY <3>2, <3>3
    <2>3. ASSUME NEW d \in Draft, NEW m \in Message, ShownOf(d)' = m
          PROVE  m # h /\ ShownOf(d) = m
      <3>1. m # 0  BY <1>2, MailTyped
      <3>2. rows'[d].linked /\ rows'[d].message = m  BY <2>3, <3>1 DEF ShownOf
      <3>3. rows[d].message # h /\ rows'[d] = rows[d]
        BY <1>8, <3>1, <3>2 DEF NoRow
      <3>. QED  BY <3>2, <3>3 DEF ShownOf
    <2>. QED  BY <1>1, <1>3, <1>7, <2>1, <2>2, <2>3, SeenTo
  <1>12. ASSUME ~replica.ready PROVE RowsRight'
    BY <1>1, <1>7, <1>12 DEF RowsRight, RowsHold
  <1>. QED  BY <1>1, <1>2, <1>7, <1>9, <1>10, <1>11, <1>12, MailStays, StoredStays DEF DraftsInv

LEMMA GetDraftKeeps ==
    ASSUME DraftsInv, GetDraft
    PROVE  DraftsInv'
  <1>1. /\ UNCHANGED gmailVars /\ UNCHANGED <<connected, replica, stored, rows, mishaps>>
        /\ pass.at = "refresh"
    BY DEF GetDraft
  <1>2. DraftsTypeOK /\ MailboxRight /\ PassRight /\ pass \in Pass
    BY DEF DraftsInv, DraftsTypeOK
  <1>3. PICK r \in ReferenceOf(Head(pass.todo)) :
            CASE Current(r.draft) # 0 ->
                   /\ pass' = [pass EXCEPT !.at = "store",
                                  !.got = {[r EXCEPT !.message = Current(r.draft)]}]
                   /\ UNCHANGED <<retry, missed>>
              [] Current(r.draft) = 0 /\ pass.kind = "catchup" ->
                   pass' = [pass EXCEPT !.at = "repair"] /\ UNCHANGED <<retry, missed>>
              [] OTHER -> Aborts
    BY DEF GetDraft
  <1>4. CASE Current(r.draft) = 0 /\ pass.kind # "catchup"
    <2>1. pass' = Idle /\ retry' = TRUE /\ missed' = missed \union CutOff
      BY <1>3, <1>4 DEF Aborts
    <2>2. mishaps' \in 0 .. MaxMishaps  BY <1>1, <1>2 DEF DraftsTypeOK
    <2>. QED  BY <1>1, <2>1, <2>2, StopsKeeps
  <1>6. CASE Current(r.draft) = 0 /\ pass.kind = "catchup"
    <2>1. pass' = [pass EXCEPT !.at = "repair"] /\ retry' = retry /\ missed' = missed
      BY <1>3, <1>6
    <2>2. PICK p : p = [pass EXCEPT !.at = "repair"]  OBVIOUS
    <2>3. /\ p \in Pass /\ p.at = "repair" /\ p.kind = pass.kind /\ p.todo = pass.todo
          /\ p.references = pass.references /\ p.syncing = pass.syncing
          /\ p.found = pass.found /\ pass' = p
      BY <1>2, <2>1, <2>2 DEF Pass
    <2>4. /\ mail' = mail /\ replica' = replica
      BY <1>1, MailStays
    <2>5. StagesRight'
      BY <1>1, <1>2, <1>6, <2>3, <2>4 DEF PassRight, StagesRight
    <2>6. BatchRight' /\ GotRight' /\ pass'.at # "ready"
      BY <2>3 DEF BatchRight, GotRight
    <2>7. TodoRight' /\ ReferencesRight'
      BY <1>1, <1>2, <2>3, <2>4, MailStays DEF PassRight, TodoRight, ReferencesRight
    <2>8. FoundRight'
      <3>1. ~pass.syncing /\ pass.found = {}
        BY <1>2, <1>6 DEF PassRight, StagesRight, FoundRight
      <3>. QED  BY <2>3, <3>1 DEF FoundRight
    <2>9. DraftsTypeOK'
      BY <1>1, <1>2, <2>1, <2>3, MailStays DEF DraftsTypeOK
    <2>10. CutOff' = CutOff  BY <1>1, <2>3 DEF CutOff
    <2>11. RowsNamed' /\ RowsRight'
      BY <1>1, <2>1, <2>6, <2>10, RowsStay DEF DraftsInv
    <2>. QED  BY <1>1, <1>2, <2>5, <2>6, <2>7, <2>8, <2>9, <2>11, MailStays, StoredStays
              DEF DraftsInv, PassRight
  <1>5. CASE Current(r.draft) # 0
    <2>1. PICK g : g = [r EXCEPT !.message = Current(r.draft)]  OBVIOUS
    <2>2. pass' = [pass EXCEPT !.at = "store", !.got = {g}] /\ retry' = retry /\ missed' = missed
      BY <1>3, <1>5, <2>1
    <2>3. /\ Current(r.draft) \in DOMAIN mail /\ mail[Current(r.draft)].draft = r.draft
          /\ mail[Current(r.draft)].label = "draft" /\ Current(r.draft) \in Message
          /\ \A m \in MessagesOf(r.draft) : m = Current(r.draft)
      BY <1>2, <1>5, CurrentIs, MailTyped
    <2>4. r \in pass.references /\ r \in Reference /\ r.message = Head(pass.todo)
      BY <1>2, <1>3, PassTyped DEF ReferenceOf
    <2>5. g \in Reference /\ g.message = Current(r.draft) /\ g.draft = r.draft
      BY <2>1, <2>3, <2>4 DEF Reference
    <2>6. r = [message |-> Head(pass.todo), draft |-> g.draft]
      BY <2>4, <2>5 DEF Reference
    <2>. DEFINE p == pass'
    <2>7. /\ p \in Pass /\ p.at = "store" /\ p.got = {g} /\ p.kind = pass.kind /\ p.todo = pass.todo
          /\ p.upto = pass.upto /\ p.references = pass.references /\ p.syncing = pass.syncing
          /\ p.found = pass.found
      BY <1>2, <2>2, <2>5 DEF Pass
    <2>. HIDE DEF p
    <2>8. mail' = mail /\ replica' = replica /\ stored' = stored /\ From' = From
      BY <1>1, <1>2, MailStays, CursorTyped
    <2>9. StagesRight'
      <3>1. p.at # "idle"  BY <2>7
      <3>. QED  BY <1>1, <1>2, <2>7, <2>8, <3>1 DEF PassRight, StagesRight, p
    <2>10. BatchRight' /\ pass'.at # "ready"  BY <2>7 DEF BatchRight, p
    <2>11. TodoRight' /\ ReferencesRight'
      BY <1>1, <1>2, <2>7, <2>8, MailStays DEF PassRight, TodoRight, ReferencesRight, p
    <2>12. GotRight'
      <3>1. InHand(g)'
        <4>1. Of(g.message, g.draft)'  BY <2>3, <2>5, <2>8 DEF Of
        <4>2. StillIn(g.message)'  BY <2>3, <2>5, <2>8 DEF StillIn
        <4>3. \A m \in MessagesOf(g.draft)' : m = g.message
          BY <1>1, <2>3, <2>5, MailStays
        <4>. QED  BY <2>4, <2>6, <2>7, <4>1, <4>2, <4>3 DEF InHand, p
      <3>. QED  BY <2>7, <3>1 DEF GotRight, p
    <2>13. FoundRight'
      <3>1. \A c, d : Collects(c, d) => Collects(c, d)'
        BY <1>1, <2>7, PendingStays DEF Collects, p
      <3>. QED  BY <1>1, <1>2, <2>7, <2>8, <3>1, MailStays, PendingStays DEF PassRight, FoundRight, p
    <2>14. DraftsTypeOK'
      BY <1>1, <1>2, <2>2, <2>7, MailStays DEF DraftsTypeOK, p
    <2>15. CutOff' = CutOff  BY <1>1, <2>7 DEF CutOff, p
    <2>16. RowsNamed' /\ RowsRight'
      BY <1>1, <2>2, <2>10, <2>15, RowsStay DEF DraftsInv
    <2>. QED  BY <1>1, <1>2, <2>9, <2>10, <2>11, <2>12, <2>13, <2>14, <2>16, MailStays, StoredStays
              DEF DraftsInv, PassRight
  <1>. QED  BY <1>4, <1>5, <1>6

LEMMA StoreDraftKeeps ==
    ASSUME DraftsInv, StoreDraft
    PROVE  DraftsInv'
  <1>. DEFINE p == pass'
  <1>1. /\ UNCHANGED gmailVars /\ UNCHANGED <<connected, replica, rows, retry, missed, mishaps>>
        /\ pass.at = "store" /\ pass' = [pass EXCEPT !.at = "save"]
        /\ stored' = [m \in Message |-> IF \E r \in pass.got : r.message = m THEN "draft"
                                        ELSE stored[m]]
    BY DEF StoreDraft
  <1>2. DraftsTypeOK /\ MailboxRight /\ PassRight /\ StoredRight /\ pass \in Pass
    BY DEF DraftsInv, DraftsTypeOK
  <1>3. PICK g \in pass.got : InHand(g)  BY <1>1, <1>2 DEF PassRight, GotRight
  <1>4. pass.got = {g} /\ Of(g.message, g.draft) /\ StillIn(g.message)
    BY <1>3 DEF InHand
  <1>5. \A m \in Message : stored'[m] = IF m = g.message THEN "draft" ELSE stored[m]
    BY <1>1, <1>4
  <1>6. g.message \in DOMAIN mail /\ g.message \in Message
    BY <1>2, <1>4, MailTyped DEF Of
  <1>7. /\ p \in Pass /\ p.at = "save" /\ p.got = pass.got /\ p.kind = pass.kind
        /\ p.todo = pass.todo /\ p.upto = pass.upto /\ p.references = pass.references
        /\ p.syncing = pass.syncing /\ p.found = pass.found
    BY <1>1, <1>2 DEF Pass
  <1>. HIDE DEF p
  <1>8. mail' = mail /\ replica' = replica /\ From' = From
    BY <1>1, <1>2, MailStays, CursorTyped
  <1>9. StagesRight'
    <2>1. p.at # "idle"  BY <1>7
    <2>. QED  BY <1>1, <1>2, <1>7, <1>8, <2>1 DEF PassRight, StagesRight, p
  <1>10. BatchRight' /\ pass'.at # "ready"  BY <1>7 DEF BatchRight, p
  <1>11. TodoRight' /\ ReferencesRight'
    BY <1>1, <1>2, <1>7, <1>8, MailStays DEF PassRight, TodoRight, ReferencesRight, p
  <1>12. GotRight'
    <2>1. InHand(g)'
      BY <1>1, <1>3, <1>5, <1>6, <1>7, MailStays, PendingStays DEF InHand, p
    <2>. QED  BY <1>7, <2>1 DEF GotRight, p
  <1>13. FoundRight'
    <2>1. \A c, d : Collects(c, d) => Collects(c, d)'
      BY <1>1, <1>7, PendingStays DEF Collects, p
    <2>2. \A f \in pass.found : stored'[f.message] = "draft"
      <3>. SUFFICES ASSUME NEW f \in pass.found PROVE stored'[f.message] = "draft"
        OBVIOUS
      <3>1. Of(f.message, f.draft) /\ stored[f.message] = "draft"
        BY <1>2 DEF PassRight, FoundRight
      <3>2. f.message \in Message  BY <1>2, <3>1, MailTyped DEF Of
      <3>. QED  BY <1>5, <3>1, <3>2
    <2>. QED  BY <1>1, <1>2, <1>7, <2>1, <2>2, MailStays, PendingStays DEF PassRight, FoundRight, p
  <1>14. StoredRight'
    <2>0. \A m : (Unwalked(m)' <=> Unwalked(m)) /\ (Forgotten(m)' <=> Forgotten(m))
      BY <1>1, MailStays DEF Unwalked, Forgotten
    <2>. SUFFICES ASSUME NEW m \in Message
                  PROVE  \/ stored'[m] = LabelOf(m) \/ Touched(m)
                         \/ Unwalked(m) \/ Forgotten(m)
      BY <1>1, <1>2, <2>0, MailStays, PendingStays DEF StoredRight, StoresRight
    <2>1. CASE m = g.message
      <3>1. mail[m].label = "draft" \/ Touched(m)
        BY <1>4, <2>1 DEF StillIn, Ended, Touched
      <3>. QED  BY <1>5, <1>6, <2>1, <3>1, LabelOfIs
    <2>2. CASE m # g.message  BY <1>2, <1>5, <2>2 DEF StoredRight, StoresRight
    <2>. QED  BY <2>1, <2>2
  <1>15. DraftsTypeOK'
    <2>1. stored' \in [Message -> Label]  BY <1>1, <1>2 DEF DraftsTypeOK, Label
    <2>. QED  BY <1>1, <1>2, <1>7, <2>1, MailStays DEF DraftsTypeOK, p
  <1>16. CutOff' = CutOff  BY <1>1, <1>7 DEF CutOff, p
  <1>17. RowsNamed' /\ RowsRight'  BY <1>1, <1>10, <1>16, RowsStay DEF DraftsInv
  <1>. QED  BY <1>1, <1>2, <1>9, <1>10, <1>11, <1>12, <1>13, <1>14, <1>15, <1>17, MailStays
            DEF DraftsInv, PassRight

\* The first message of the list belongs to the draft in hand.
LEMMA InHandIs ==
    ASSUME DraftsInv, pass.at = "save"
    PROVE  \E g \in pass.got :
              /\ pass.got = {g} /\ g \in Reference /\ g.draft \in Draft /\ g.message \in Message
              /\ Of(g.message, g.draft) /\ StillIn(g.message)
              /\ stored[g.message] = "draft"
              /\ \A m \in MessagesOf(g.draft) : m = g.message \/ Came(m)
              /\ [message |-> Head(pass.todo), draft |-> g.draft] \in pass.references
              /\ Of(Head(pass.todo), g.draft)
  <1>1. DraftsTypeOK /\ PassRight  BY DEF DraftsInv
  <1>2. PICK g \in pass.got : InHand(g)  BY <1>1 DEF PassRight, GotRight
  <1>3. g \in Reference /\ g.draft \in Draft /\ g.message \in Message
    BY <1>1, PassTyped DEF Reference
  <1>. DEFINE r == [message |-> Head(pass.todo), draft |-> g.draft]
  <1>4. r \in pass.references /\ r.message = Head(pass.todo) /\ r.draft = g.draft
    BY <1>2 DEF InHand
  <1>. HIDE DEF r
  <1>5. Of(r.message, r.draft)  BY <1>1, <1>4 DEF PassRight, ReferencesRight
  <1>6. Of(Head(pass.todo), g.draft)  BY <1>4, <1>5
  <1>. QED  BY <1>2, <1>3, <1>6 DEF InHand

LEMMA SaveRowKeeps ==
    ASSUME DraftsInv, SaveRow
    PROVE  DraftsInv'
  <1>1. /\ UNCHANGED gmailVars /\ UNCHANGED <<connected, replica, stored, mishaps>>
        /\ pass.at = "save" /\ ~pass.syncing /\ missed' = missed \ {Head(pass.todo)}
        /\ Done(pass.found)
    BY DEF SaveRow
  <1>2. DraftsTypeOK /\ MailboxRight /\ PassRight /\ StoredRight /\ RowsNamed
    BY DEF DraftsInv
  <1>3. PICK g \in pass.got :
              /\ pass.got = {g} /\ g.draft \in Draft /\ g.message \in Message
              /\ Of(g.message, g.draft) /\ StillIn(g.message)
              /\ stored[g.message] = "draft"
              /\ \A m \in MessagesOf(g.draft) : m = g.message \/ Came(m)
              /\ Of(Head(pass.todo), g.draft)
    BY <1>1, InHandIs
  <1>4. rows' = [rows EXCEPT ![g.draft] = RowFor(g.message)]
    BY <1>3 DEF SaveRow
  <1>5. RowFor(g.message) = [message |-> g.message, linked |-> TRUE]
    BY <1>3 DEF RowFor
  <1>6. g.message # 0 /\ RowFor(g.message) \in Row
    BY <1>2, <1>3, <1>5, MailTyped DEF Row, Message
  <1>7. /\ rows' \in [Draft -> Row] /\ rows'[g.draft] = RowFor(g.message)
        /\ \A d \in Draft : d # g.draft => rows'[d] = rows[d]
    BY <1>2, <1>3, <1>4, <1>6 DEF DraftsTypeOK
  <1>8. PICK h : h = Head(pass.todo)  OBVIOUS
  <1>9. CutOff \subseteq Range(pass.todo)  BY <1>1, HeadIs
  <1>10. /\ pass' \in Pass /\ retry' \in BOOLEAN /\ PassRight' /\ pass'.at # "ready"
         /\ replica.ready => Range(pass.todo) \ {h} \subseteq CutOff'
    <2>1. PICK found : found = {}  OBVIOUS
    <2>2. pass.found = found  BY <1>1, <1>2, <2>1 DEF PassRight, FoundRight
    <2>3. found \in SUBSET Reference /\ Done(found)  BY <1>1, <2>1, <2>2
    <2>. QED  BY <1>1, <1>8, <2>1, <2>3, DoneRight
  <1>11. DraftsTypeOK'  BY <1>1, <1>2, <1>7, <1>10, MailStays DEF DraftsTypeOK
  <1>12. RowsNamed'
    <2>1. ASSUME NEW d \in Draft, rows'[d].message # 0 PROVE Of(rows'[d].message, d)
      <3>1. CASE d = g.draft  BY <1>3, <1>5, <1>7, <3>1
      <3>2. CASE d # g.draft  BY <1>2, <1>7, <2>1, <3>2 DEF RowsNamed
      <3>. QED  BY <3>1, <3>2
    <2>. QED  BY <1>1, <2>1, MailStays DEF RowsNamed, Of
  <1>13. ASSUME NEW d \in Draft
         PROVE  /\ d = g.draft => ShownOf(d)' = g.message
                /\ d # g.draft => ShownOf(d)' = ShownOf(d)
    <2>1. CASE d = g.draft  BY <1>5, <1>7, <2>1 DEF ShownOf
    <2>2. CASE d # g.draft  BY <1>7, <2>2 DEF ShownOf
    <2>. QED  BY <2>1, <2>2
  <1>14. ASSUME replica.ready PROVE RowsRight'
    <2>1. CutOff \subseteq CutOff' \union {h}  BY <1>9, <1>10, <1>14
    <2>2. ASSUME NEW d \in Draft, NEW m \in MessagesOf(d)
          PROVE  \/ m # h /\ (ShownOf(d) = m => ShownOf(d)' = m)
                 \/ ShownOf(d)' = m
                 \/ Came(m)
      <3>1. CASE d = g.draft  BY <1>3, <1>13, <3>1
      <3>2. CASE d # g.draft
        <4>1. mail[m].draft = d /\ mail[h].draft = g.draft
          BY <1>2, <1>3, <1>8, MessagesOfIs DEF Of
        <4>. QED  BY <1>13, <3>2, <4>1
      <3>. QED  BY <3>1, <3>2
    <2>3. ASSUME NEW d \in Draft, NEW m \in Message, ShownOf(d)' = m
          PROVE  (m # h /\ ShownOf(d) = m) \/ StillIn(m)
      <3>1. CASE d = g.draft  BY <1>3, <1>13, <2>3, <3>1
      <3>2. CASE d # g.draft
        <4>1. ShownOf(d) = m /\ m # 0  BY <1>2, <1>13, <2>3, <3>2, MailTyped
        <4>2. mail[m].draft = d /\ mail[h].draft = g.draft
          BY <1>2, <1>3, <1>8, <4>1 DEF ShownOf, RowsNamed, Of
        <4>. QED  BY <3>2, <4>1, <4>2
      <3>. QED  BY <3>1, <3>2
    <2>. QED  BY <1>1, <1>8, <1>10, <2>1, <2>2, <2>3, SeenTo
  <1>15. ASSUME ~replica.ready PROVE RowsRight'
    BY <1>1, <1>10, <1>15 DEF RowsRight, RowsHold
  <1>. QED  BY <1>1, <1>2, <1>10, <1>11, <1>12, <1>14, <1>15, MailStays, StoredStays DEF DraftsInv

LEMMA CollectDraftKeeps ==
    ASSUME DraftsInv, CollectDraft
    PROVE  DraftsInv'
  <1>1. /\ UNCHANGED gmailVars /\ UNCHANGED <<connected, replica, stored, rows, missed, mishaps>>
        /\ pass.at = "save" /\ pass.syncing /\ Done(pass.found \union pass.got)
    BY DEF CollectDraft
  <1>2. DraftsTypeOK /\ MailboxRight /\ PassRight /\ StoredRight /\ RowsNamed
    BY DEF DraftsInv
  <1>3. PICK g \in pass.got :
              /\ pass.got = {g} /\ g \in Reference /\ g.draft \in Draft
              /\ Of(g.message, g.draft) /\ StillIn(g.message)
              /\ stored[g.message] = "draft"
              /\ \A m \in MessagesOf(g.draft) : m = g.message \/ Came(m)
              /\ [message |-> Head(pass.todo), draft |-> g.draft] \in pass.references
              /\ Of(Head(pass.todo), g.draft)
    BY <1>1, InHandIs
  <1>4. PICK found : found = pass.found \union {g}  OBVIOUS
  <1>5. found \in SUBSET Reference /\ Done(found)
    BY <1>1, <1>2, <1>3, <1>4, PassTyped
  <1>6. \A f \in found : Of(f.message, f.draft) /\ StillIn(f.message) /\ stored[f.message] = "draft"
    BY <1>2, <1>3, <1>4 DEF PassRight, FoundRight
  <1>. DEFINE r == [message |-> Head(pass.todo), draft |-> g.draft]
  <1>7. r \in pass.references /\ r.draft = g.draft /\ r.message = Head(pass.todo)
    BY <1>3
  <1>. HIDE DEF r
  <1>8. \A f \in pass.found : f.draft # g.draft
    BY <1>2, <1>7 DEF PassRight, FoundRight
  <1>9. \A f, e \in found : f.draft = e.draft => f = e
    BY <1>2, <1>4, <1>8 DEF PassRight, FoundRight
  <1>10. \A f \in found, s \in LeftOver : f.draft # s.draft
    <2>. SUFFICES ASSUME NEW f \in found, NEW s \in LeftOver PROVE f.draft # s.draft
      OBVIOUS
    <2>1. s \in pass.references /\ s.message # Head(pass.todo)  BY DEF LeftOver
    <2>2. CASE f \in pass.found  BY <1>2, <2>1, <2>2 DEF PassRight, FoundRight
    <2>3. CASE f = g
      <3>1. s.draft # r.draft
        BY <1>2, <1>7, <2>1 DEF PassRight, ReferencesRight
      <3>. QED  BY <1>7, <2>3, <3>1
    <2>. QED  BY <1>4, <2>2, <2>3
  <1>11. ASSUME NEW d \in Draft, NEW c \in MessagesOf(d)
         PROVE  \/ Came(c)
                \/ [message |-> c, draft |-> d] \in found
                \/ /\ c \in Range(pass.todo) \ {Head(pass.todo)}
                   /\ [message |-> c, draft |-> d] \in LeftOver
    <2>1. Collects(c, d)  BY <1>1, <1>2 DEF PassRight, FoundRight
    <2>2. CASE d = g.draft
      <3>1. c = g.message => [message |-> c, draft |-> d] = g
        BY <1>3, <2>2 DEF Reference
      <3>. QED  BY <1>3, <1>4, <2>2, <3>1
    <2>3. CASE d # g.draft
      <3>1. c # Head(pass.todo)  BY <1>2, <1>3, <2>3, MessagesOfIs DEF Of
      <3>2. [message |-> c, draft |-> d] \in pass.references => [message |-> c, draft |-> d] \in LeftOver
        BY <3>1 DEF LeftOver
      <3>. QED  BY <1>4, <2>1, <3>1, <3>2 DEF Collects
    <2>. QED  BY <2>2, <2>3
  <1>12. pass' \in Pass /\ retry' \in BOOLEAN /\ PassRight' /\ pass'.at # "ready"
    BY <1>1, <1>5, <1>6, <1>9, <1>10, <1>11, DoneRight
  <1>13. DraftsTypeOK'  BY <1>1, <1>2, <1>12, MailStays DEF DraftsTypeOK
  <1>14. ~replica.ready /\ CutOff = {}  BY <1>1, HeadIs DEF CutOff
  <1>15. RowsNamed' /\ RowsRight'  BY <1>1, <1>12, <1>14, RowsStay DEF DraftsInv
  <1>. QED  BY <1>1, <1>2, <1>12, <1>13, <1>15, MailStays, StoredStays DEF DraftsInv

-----------------------------------------------------------------------------
(* A finalization replaces the rows, and is ready.                         *)

LEMMA ReplacedIs ==
    ASSUME DraftsInv, pass.at = "replace", NEW d \in Draft
    PROVE  /\ Replaced(d) \in Row
           /\ Replaced(d).message # 0 => Replaced(d).linked
           /\ Replaced(d).message # 0 =>
                 Of(Replaced(d).message, d) /\ StillIn(Replaced(d).message)
           /\ \A m \in MessagesOf(d) : Replaced(d).message = m \/ Came(m)
  <1>1. DraftsTypeOK /\ PassRight  BY DEF DraftsInv
  <1>2. pass.syncing /\ pass.found \subseteq Reference
    BY <1>1, PassTyped DEF PassRight, StagesRight
  <1>3. CASE FoundOf(d) = {}
    <2>1. Replaced(d) = NoRow  BY <1>3 DEF Replaced
    <2>2. NoRow \in Row /\ NoRow.message = 0  BY <1>1, MailTyped DEF NoRow, Row
    <2>3. ASSUME NEW m \in MessagesOf(d) PROVE Came(m)
      <3>1. Collects(m, d)  BY <1>1, <1>2 DEF PassRight, FoundRight
      <3>2. [message |-> m, draft |-> d] \notin pass.found  BY <1>3 DEF FoundOf
      <3>3. ~(m \in Range(pass.todo) /\ [message |-> m, draft |-> d] \in pass.references)
        BY <1>1, IdleIs DEF PassRight, StagesRight
      <3>. QED  BY <3>1, <3>2, <3>3 DEF Collects
    <2>. QED  BY <2>1, <2>2, <2>3
  <1>4. CASE FoundOf(d) # {}
    <2>1. PICK f : f = CHOOSE r \in FoundOf(d) : TRUE  OBVIOUS
    <2>2. f \in FoundOf(d)  BY <1>4, <2>1
    <2>3. f \in pass.found /\ f.draft = d  BY <2>2 DEF FoundOf
    <2>4. /\ Of(f.message, d) /\ StillIn(f.message) /\ stored[f.message] = "draft"
          /\ f.message \in Message
      BY <1>1, <1>2, <2>3 DEF PassRight, FoundRight, Reference
    <2>5. Replaced(d) = [message |-> f.message, linked |-> TRUE]
      BY <1>4, <2>1, <2>4 DEF Replaced, RowFor
    <2>6. Replaced(d) \in Row  BY <1>1, <2>4, <2>5, MailTyped DEF Row, Message
    <2>7. ASSUME NEW m \in MessagesOf(d) PROVE f.message = m \/ Came(m)
      <3>1. Collects(m, d)  BY <1>1, <1>2 DEF PassRight, FoundRight
      <3>2. [message |-> m, draft |-> d] \in pass.found => [message |-> m, draft |-> d] = f
        <4>1. [message |-> m, draft |-> d].draft = f.draft  BY <2>3
        <4>. QED  BY <1>1, <2>3, <4>1 DEF PassRight, FoundRight
      <3>3. [message |-> m, draft |-> d] = f => m = f.message  OBVIOUS
      <3>4. ~(m \in Range(pass.todo) /\ [message |-> m, draft |-> d] \in pass.references)
        BY <1>1, IdleIs DEF PassRight, StagesRight
      <3>. QED  BY <3>1, <3>2, <3>3, <3>4 DEF Collects
    <2>. QED  BY <2>4, <2>5, <2>6, <2>7
  <1>. QED  BY <1>3, <1>4


\* Rows that hold from what replaced them.
LEMMA ReplaceRowsKeeps ==
    ASSUME DraftsInv, ReplaceRows
    PROVE  DraftsInv'
  <1>1. /\ UNCHANGED gmailVars /\ UNCHANGED <<connected, replica, stored, retry, mishaps>>
        /\ pass.at = "replace" /\ pass' = [pass EXCEPT !.at = "ready"]
        /\ rows' = IF connected THEN [d \in Draft |-> Replaced(d)] ELSE rows
        /\ missed' = IF connected THEN {} ELSE missed
    BY DEF ReplaceRows
  <1>2. DraftsTypeOK /\ MailboxRight /\ PassRight /\ StoredRight /\ RowsNamed /\ pass \in Pass
    BY DEF DraftsInv, DraftsTypeOK
  <1>3. PICK p : p = [pass EXCEPT !.at = "ready"]  OBVIOUS
  <1>4. /\ p \in Pass /\ p.at = "ready" /\ p.kind = pass.kind /\ p.upto = pass.upto
        /\ p.todo = pass.todo /\ p.references = pass.references /\ p.found = pass.found
        /\ p.syncing = pass.syncing /\ pass' = p
    BY <1>1, <1>2, <1>3 DEF Pass
  <1>5. /\ pass.kind = "final" /\ ~replica.ready /\ replica.owed = {}
        /\ pass.upto = From /\ pass.syncing
    BY <1>1, <1>2 DEF PassRight, StagesRight
  <1>6. /\ mail' = mail /\ replica' = replica /\ stored' = stored /\ connected' = connected
        /\ From' = From
    BY <1>1, <1>2, MailStays, CursorTyped
  <1>7. StagesRight' /\ BatchRight' /\ GotRight'
    BY <1>4, <1>5, <1>6 DEF StagesRight, BatchRight, GotRight
  <1>8. TodoRight'  BY <1>2, <1>4, <1>6 DEF PassRight, TodoRight
  <1>9. ReferencesRight'
    <2>1. \A r \in pass.references : Of(r.message, r.draft)'
      BY <1>1, <1>2, MailStays DEF PassRight, ReferencesRight
    <2>. QED  BY <1>2, <1>4, <2>1 DEF PassRight, ReferencesRight
  <1>10. FoundRight'
    <2>1. \A f \in pass.found :
              Of(f.message, f.draft)' /\ StillIn(f.message)' /\ stored'[f.message] = "draft"
      BY <1>1, <1>2, MailStays, PendingStays DEF PassRight, FoundRight
    <2>. QED  BY <1>2, <1>4, <1>5, <2>1 DEF PassRight, FoundRight
  <1>11. ASSUME connected, NEW d \in Draft
         PROVE  rows'[d] = Replaced(d) /\ rows'[d] \in Row
    BY <1>1, <1>2, <1>11, ReplacedIs DEF DraftsInv
  <1>12. rows' \in [Draft -> Row]
    <2>1. CASE connected  BY <1>1, <1>11, <2>1
    <2>2. CASE ~connected  BY <1>1, <1>2, <2>2 DEF DraftsTypeOK
    <2>. QED  BY <2>1, <2>2
  <1>13. DraftsTypeOK'
    <2>1. missed' \subseteq Message  BY <1>1, <1>2 DEF DraftsTypeOK
    <2>. QED  BY <1>1, <1>2, <1>4, <1>12, <2>1, MailStays DEF DraftsTypeOK
  <1>14. RowsNamed'
    <2>1. ASSUME NEW d \in Draft, rows'[d].message # 0 PROVE Of(rows'[d].message, d)
      <3>1. CASE connected  BY <1>1, <1>11, <2>1, <3>1, ReplacedIs
      <3>2. CASE ~connected  BY <1>1, <1>2, <2>1, <3>2 DEF RowsNamed
      <3>. QED  BY <3>1, <3>2
    <2>. QED  BY <1>6, <2>1 DEF RowsNamed, Of
  <1>15. RowsRight'
    <2>. SUFFICES ASSUME connected, NEW d \in Draft PROVE RowRight(d)'
      BY <1>5, <1>6 DEF RowsRight, RowsHold
    <2>1. PICK r : r = Replaced(d)  OBVIOUS
    <2>2. rows'[d] = r  BY <1>11, <2>1
    <2>3. /\ r \in Row /\ (r.message # 0 => r.linked)
          /\ (r.message # 0 => Of(r.message, d) /\ StillIn(r.message))
          /\ \A m \in MessagesOf(d) : r.message = m \/ Came(m)
      BY <1>1, <2>1, ReplacedIs
    <2>4. r.message = 0 \/ ShownOf(d)' = r.message  BY <2>2, <2>3 DEF ShownOf
    <2>5. ASSUME NEW m \in MessagesOf(d)' PROVE ShownOf(d)' = m \/ Came(m)'
      <3>1. m \in MessagesOf(d)  BY <1>1, MailStays
      <3>2. m # 0  BY <1>2, <3>1, MessagesOfIs, MailTyped
      <3>. QED  BY <1>1, <1>6, <2>3, <2>4, <3>1, <3>2, PendingStays
    <2>6. ASSUME NEW m \in Message, ShownOf(d)' = m PROVE StillIn(m)'
      <3>1. m # 0  BY <1>2, MailTyped
      <3>2. m = r.message  BY <2>2, <2>6, <3>1 DEF ShownOf
      <3>3. StillIn(m)  BY <2>3, <3>1, <3>2
      <3>. QED  BY <1>1, <1>6, <3>3, PendingStays
    <2>. QED  BY <2>5, <2>6 DEF RowRight
  <1>. QED  BY <1>1, <1>2, <1>7, <1>8, <1>9, <1>10, <1>13, <1>14, <1>15, MailStays, StoredStays
            DEF DraftsInv, PassRight

LEMMA MarkReadyKeeps ==
    ASSUME DraftsInv, MarkReady
    PROVE  DraftsInv'
  <1>1. /\ UNCHANGED gmailVars /\ UNCHANGED <<connected, stored, rows, missed, mishaps>>
        /\ pass.at = "ready" /\ pass' = Idle /\ retry' = FALSE
        /\ replica' = IF connected THEN [replica EXCEPT !.ready = TRUE, !.cursor = pass.upto]
                                  ELSE replica
    BY DEF MarkReady, Ends
  <1>2. DraftsTypeOK /\ MailboxRight /\ PassRight /\ StoredRight /\ RowsNamed
    BY DEF DraftsInv
  <1>3. pass.upto = From /\ replica.owed = {}  BY <1>1, <1>2 DEF PassRight, StagesRight
  <1>4. /\ From' = From /\ replica'.ready \in BOOLEAN
        /\ replica'.owed = {} /\ replica'.base = replica.base
        /\ replica' \in [ready : BOOLEAN, cursor : 0 .. Len(history), base : 0 .. Len(history),
                         owed : SUBSET Draft]
    <2>1. /\ From \in Nat /\ Len(history) \in Nat /\ From <= Len(history)
          /\ replica.base \in Nat /\ replica.base <= From
          /\ replica \in [ready : BOOLEAN, cursor : 0 .. Len(history),
                          base : 0 .. Len(history), owed : SUBSET Draft]
      BY <1>2, MailTyped, CursorTyped DEF DraftsTypeOK
    <2>2. From \in 0 .. Len(history)  BY <2>1
    <2>3. CASE connected
      <3>1. replica' = [replica EXCEPT !.ready = TRUE, !.cursor = From]
        BY <1>1, <1>3, <2>3
      <3>2. /\ replica' \in [ready : BOOLEAN, cursor : 0 .. Len(history),
                             base : 0 .. Len(history), owed : SUBSET Draft]
            /\ replica'.cursor = From /\ replica'.base = replica.base
            /\ replica'.owed = replica.owed /\ replica'.ready = TRUE
        BY <2>1, <2>2, <3>1
      <3>3. From' = From  BY <2>1, <3>2 DEF From
      <3>. QED  BY <1>3, <3>2, <3>3
    <2>4. CASE ~connected
      <3>1. replica' = replica  BY <1>1, <2>4
      <3>. QED  BY <1>3, <2>1, <3>1 DEF From
    <2>. QED  BY <2>3, <2>4
  <1>5. PassRight' /\ pass'.at # "ready" /\ CutOff' = {}  BY <1>1, IdleRight
  <1>6. CutOff = {}  BY <1>1 DEF CutOff
  <1>7. DraftsTypeOK'  BY <1>1, <1>2, <1>4, IdleIs, MailStays DEF DraftsTypeOK
  <1>8. StoredRight'
    <2>1. ASSUME NEW m \in Message PROVE StoresRight(m)'
      <3>1. StoresRight(m) /\ ~Unwalked(m)
        BY <1>2, <1>3 DEF StoredRight, Unwalked
      <3>2. Forgotten(m)' <=> Forgotten(m)
        BY <1>1, <1>4, MailStays DEF Forgotten
      <3>. QED  BY <1>1, <1>4, <3>1, <3>2, MailStays, PendingStays DEF StoresRight
    <2>. QED  BY <1>4, <2>1 DEF StoredRight
  <1>9. RowsNamed'  BY <1>1, <1>2, MailStays DEF RowsNamed
  <1>10. RowsHold' => RowsHold  BY <1>1, <1>5 DEF RowsHold
  <1>11. \A d : ShownOf(d)' = ShownOf(d)  BY <1>1 DEF ShownOf
  <1>12. \A m : Owed(m)' <=> Owed(m)  BY <1>1, <1>5, <1>6 DEF Owed
  <1>13. ASSUME RowsHold', NEW d \in Draft PROVE RowRight(d)'
    <2>1. RowRight(d)  BY <1>10, <1>13 DEF DraftsInv, RowsRight
    <2>2. ASSUME NEW m \in MessagesOf(d)' PROVE ShownOf(d)' = m \/ Came(m)' \/ Owed(m)'
      BY <1>1, <1>4, <1>11, <1>12, <2>1, MailStays, PendingStays DEF RowRight
    <2>3. ASSUME NEW m \in Message, ShownOf(d)' = m PROVE StillIn(m)' \/ Owed(m)'
      BY <1>1, <1>4, <1>11, <1>12, <2>1, <2>3, PendingStays DEF RowRight
    <2>. QED  BY <2>2, <2>3 DEF RowRight
  <1>. QED  BY <1>1, <1>2, <1>5, <1>7, <1>8, <1>9, <1>13, MailStays DEF DraftsInv, RowsRight

-----------------------------------------------------------------------------
(* A repair begins, and walks the threads.                                 *)

LEMMA StartRepairKeeps ==
    ASSUME DraftsInv, StartRepair
    PROVE  DraftsInv'
  <1>1. /\ UNCHANGED gmailVars /\ UNCHANGED <<connected, stored, rows, mishaps>>
        /\ pass.at = "repair" /\ pass' = Idle /\ retry' = FALSE /\ missed' = missed \union CutOff
        /\ replica' = IF connected
                      THEN [replica EXCEPT !.ready = FALSE, !.base = Len(history), !.owed = Draft]
                      ELSE replica
    BY DEF StartRepair, Ends
  <1>2. DraftsTypeOK /\ MailboxRight /\ PassRight /\ StoredRight /\ RowsNamed
    BY DEF DraftsInv
  <1>3. CASE ~connected
    <2>1. replica' = replica /\ mishaps' \in 0 .. MaxMishaps
      BY <1>1, <1>2, <1>3 DEF DraftsTypeOK
    <2>. QED  BY <1>1, <2>1, StopsKeeps
  <1>4. CASE connected
    <2>1. replica' = [replica EXCEPT !.ready = FALSE, !.base = Len(history), !.owed = Draft]
      BY <1>1, <1>4
    <2>2. /\ replica \in [ready : BOOLEAN, cursor : 0 .. Len(history), base : 0 .. Len(history),
                           owed : SUBSET Draft]
          /\ Len(history) \in Nat /\ replica.cursor \in Nat /\ replica.cursor <= Len(history)
      BY <1>2, MailTyped, CursorTyped DEF DraftsTypeOK
    <2>3. Len(history) \in 0 .. Len(history)  BY <2>2
    <2>4. /\ replica' \in [ready : BOOLEAN, cursor : 0 .. Len(history),
                            base : 0 .. Len(history), owed : SUBSET Draft]
          /\ replica'.ready = FALSE /\ replica'.base = Len(history) /\ replica'.owed = Draft
          /\ replica'.cursor = replica.cursor
      BY <2>1, <2>2, <2>3
    <2>5. CutOff \subseteq Message
      <3>1. pass.todo \in Seq(Message)  BY <1>2, PassTyped
      <3>2. Range(pass.todo) \subseteq Message  BY <3>1 DEF Range
      <3>. QED  BY <3>2 DEF CutOff
    <2>6. DraftsTypeOK'
      BY <1>1, <1>2, <2>4, <2>5, IdleIs, MailStays DEF DraftsTypeOK
    <2>7. PassRight' /\ pass'.at # "ready"  BY <1>1, IdleRight
    <2>8. StoredRight'
      <3>1. ASSUME NEW m \in Message PROVE StoresRight(m)'
        <4>1. CASE m \in DOMAIN mail
          BY <1>1, <1>2, <2>4, <4>1, MailTyped, MailStays DEF StoresRight, Unwalked
        <4>2. CASE m \notin DOMAIN mail
          <5>1. \A i \in 1 .. Len(history) : history[i].message # m
            BY <1>2, <4>2, MailTyped DEF MailboxRight, Witnessed
          <5>2. Pending \subseteq 1 .. Len(history) /\ 1 .. replica.base \subseteq 1 .. Len(history)
            BY <1>2, <2>2, CursorTyped DEF Pending
          <5>3. ~Touched(m) /\ ~Forgotten(m) /\ ~Unwalked(m)
            BY <4>2, <5>1, <5>2 DEF Touched, Forgotten, Unwalked
          <5>4. stored[m] = LabelOf(m)  BY <1>2, <5>3 DEF StoredRight, StoresRight
          <5>. QED  BY <1>1, <5>4, MailStays DEF StoresRight
        <4>. QED  BY <4>1, <4>2
      <3>. QED  BY <1>1, <2>2, <2>4, <3>1, MailStays DEF StoredRight
    <2>9. RowsNamed'  BY <1>1, <1>2, MailStays DEF RowsNamed
    <2>10. RowsRight'  BY <2>4, <2>7 DEF RowsRight, RowsHold
    <2>. QED  BY <1>1, <1>2, <2>6, <2>7, <2>8, <2>9, <2>10, MailStays DEF DraftsInv
  <1>. QED  BY <1>3, <1>4

LEMMA WalkThreadKeeps ==
    ASSUME DraftsInv, NEW d \in Draft, WalkThread(d)
    PROVE  DraftsInv'
  <1>1. /\ UNCHANGED gmailVars /\ UNCHANGED <<connected, pass, retry, missed, mishaps>>
        /\ pass = Idle /\ ~replica.ready /\ d \in replica.owed
        /\ replica' = [replica EXCEPT !.owed = @ \ {d}]
    BY DEF WalkThread
  <1>2. DraftsTypeOK /\ MailboxRight /\ StoredRight /\ RowsNamed
    BY DEF DraftsInv
  <1>3. PICK old : old = {m \in DOMAIN mail : mail[m].draft = d}  OBVIOUS
  <1>4. PICK here : here = {m \in old : Exists(m)}  OBVIOUS
  <1>5. PICK drop \in IF here = {} THEN {{}, old} ELSE {{}} :
              /\ stored' = [m \in Message |-> IF m \in here \union drop THEN LabelOf(m)
                                              ELSE stored[m]]
              /\ rows' = [e \in Draft |-> IF rows[e].message \in drop
                                          THEN [rows[e] EXCEPT !.linked = FALSE] ELSE rows[e]]
    BY <1>3, <1>4 DEF WalkThread
  <1>6. /\ replica \in [ready : BOOLEAN, cursor : 0 .. Len(history), base : 0 .. Len(history),
                         owed : SUBSET Draft]
        /\ replica.cursor <= replica.base /\ replica.cursor \in Nat /\ replica.base \in Nat
    BY <1>1, <1>2, CursorTyped DEF DraftsTypeOK, StoredRight
  <1>7. /\ replica' \in [ready : BOOLEAN, cursor : 0 .. Len(history), base : 0 .. Len(history),
                          owed : SUBSET Draft]
        /\ replica'.ready = replica.ready /\ replica'.base = replica.base
        /\ replica'.cursor = replica.cursor /\ replica'.owed = replica.owed \ {d}
    BY <1>1, <1>6
  <1>8. From' = From /\ From = replica.base  BY <1>6, <1>7 DEF From
  <1>9. PassRight' /\ pass'.at # "ready"  BY <1>1, IdleRight, IdleIs
  <1>10. ASSUME NEW e \in Draft
         PROVE  rows'[e] \in Row /\ rows'[e].message = rows[e].message
    <2>1. rows[e] \in Row  BY <1>2 DEF DraftsTypeOK
    <2>2. rows'[e] = rows[e] \/ rows'[e] = [rows[e] EXCEPT !.linked = FALSE]
      BY <1>5
    <2>. QED  BY <2>1, <2>2 DEF Row
  <1>11. ASSUME NEW m \in Message PROVE StoresRight(m)' /\ stored'[m] \in Label
    <2>1. stored[m] \in Label /\ LabelOf(m) \in Label
      BY <1>2, MailTyped, LabelOfIs DEF DraftsTypeOK, Label
    <2>2. Touched(m)' <=> Touched(m)  BY <1>1, <1>8, PendingStays
    <2>3. Forgotten(m)' <=> Forgotten(m)  BY <1>1, <1>7, MailStays DEF Forgotten
    <2>4. CASE m \in here \union drop
      BY <1>1, <1>5, <2>1, <2>4, MailStays DEF StoresRight
    <2>5. CASE m \notin here \union drop
      <3>1. stored'[m] = stored[m]  BY <1>5, <2>5
      <3>2. StoresRight(m)  BY <1>2 DEF StoredRight
      <3>3. CASE m \in DOMAIN mail /\ mail[m].draft = d
        <4>1. mail[m].label = "gone"  BY <1>3, <1>4, <2>5, <3>3 DEF Exists
        <4>2. PICK i \in DOMAIN history : history[i].message = m /\ history[i].op = "delete"
          BY <1>2, <3>3, <4>1 DEF MailboxRight
        <4>3. i \in 1 .. replica.base \/ i \in Pending
          BY <1>2, <1>6, <1>8, MailTyped DEF Pending
        <4>4. Forgotten(m) \/ Touched(m)  BY <4>2, <4>3 DEF Forgotten, Touched
        <4>. QED  BY <2>1, <2>2, <2>3, <3>1, <4>4 DEF StoresRight
      <3>4. CASE ~(m \in DOMAIN mail /\ mail[m].draft = d)
        <4>1. Unwalked(m) => Unwalked(m)'
          BY <1>1, <1>7, <3>4, MailStays DEF Unwalked
        <4>. QED  BY <1>1, <2>1, <2>2, <2>3, <3>1, <3>2, <4>1, MailStays DEF StoresRight
      <3>. QED  BY <3>3, <3>4
    <2>. QED  BY <2>4, <2>5
  <1>12. StoredRight'  BY <1>1, <1>6, <1>7, <1>11 DEF StoredRight
  <1>13. DraftsTypeOK'
    <2>1. stored' \in [Message -> Label] /\ rows' \in [Draft -> Row]
      BY <1>5, <1>10, <1>11
    <2>. QED  BY <1>1, <1>2, <1>7, <2>1, MailStays DEF DraftsTypeOK
  <1>14. RowsNamed'  BY <1>1, <1>2, <1>10, MailStays DEF RowsNamed
  <1>15. RowsRight'  BY <1>1, <1>7, <1>9 DEF RowsRight, RowsHold
  <1>. QED  BY <1>1, <1>2, <1>9, <1>12, <1>13, <1>14, <1>15, MailStays DEF DraftsInv

-----------------------------------------------------------------------------
(* The theorems.                                                           *)

LEMMA NextKeeps ==
    ASSUME DraftsInv, [DraftsNext]_draftsVars
    PROVE  DraftsInv'
  <1>1. CASE Gmail  BY <1>1, GmailGrows, GrowsKeeps DEF DraftsInv
  <1>2. CASE AttemptSteps
    BY <1>2, BeginKeeps, ReadHistoryKeeps, FetchMessagesKeeps, ApplyBatchKeeps, ListDraftsKeeps,
       StoreDraftKeeps, SaveRowKeeps, CollectDraftKeeps, ReplaceRowsKeeps, MarkReadyKeeps,
       RemoveRowKeeps, GetDraftKeeps, StartRepairKeeps, WalkThreadKeeps DEF AttemptSteps
  <1>3. CASE LoseGrant  BY <1>3, LoseGrantKeeps
  <1>4. CASE AttemptFails  BY <1>4, AttemptFailsKeeps
  <1>5. CASE UNCHANGED draftsVars
    <2>1. /\ UNCHANGED gmailVars
          /\ UNCHANGED <<connected, replica, stored, rows, pass, retry, missed, mishaps>>
      BY <1>5 DEF draftsVars, gmailVars
    <2>2. CutOff' = CutOff  BY <2>1 DEF CutOff
    <2>3. DraftsTypeOK'  BY <2>1, MailStays DEF DraftsInv, DraftsTypeOK
    <2>4. RowsNamed' /\ RowsRight'  BY <2>1, <2>2, RowsStay DEF DraftsInv
    <2>. QED  BY <2>1, <2>3, <2>4, MailStays, PassStays, StoredStays DEF DraftsInv
  <1>. QED  BY <1>1, <1>2, <1>3, <1>4, <1>5 DEF DraftsNext

\* A replica that has caught up is owed nothing.
LEMMA QuietAligned ==
    ASSUME DraftsInv
    PROVE  DraftsAligned
  <1>1. DraftsTypeOK /\ MailboxRight /\ StoredRight /\ RowsNamed
    BY DEF DraftsInv
  <1>. SUFFICES ASSUME Quiet
                PROVE  /\ \A m \in Message : stored[m] = LabelOf(m) \/ Forgotten(m)
                       /\ \A d \in Draft : {rows[d].message, Current(d)} \intersect missed = {} =>
                             ShownOf(d) = Current(d)
    BY <1>1 DEF DraftsAligned
  <1>2. Pending = {}
    <2>1. Len(history) \in Nat /\ From \in Nat /\ From <= Len(history) /\ replica.cursor <= From
          /\ replica.cursor \in Nat
      BY <1>1, MailTyped, CursorTyped
    <2>2. From = Len(history)  BY <2>1 DEF Quiet
    <2>. QED  BY <2>1, <2>2 DEF Pending
  <1>3. \A m : ~Touched(m) /\ ~Ended(m) /\ ~Came(m)
    BY <1>2 DEF Touched, Ended, Came
  <1>4. CutOff = {}  BY IdleIs DEF CutOff, Quiet
  <1>5. ASSUME NEW m \in Message PROVE stored[m] = LabelOf(m) \/ Forgotten(m)
    <2>1. ~Unwalked(m)  BY <1>1 DEF StoredRight, Quiet, Unwalked
    <2>. QED  BY <1>1, <1>3, <2>1 DEF StoredRight, StoresRight
  <1>6. ASSUME NEW d \in Draft, {rows[d].message, Current(d)} \intersect missed = {}
        PROVE  ShownOf(d) = Current(d)
    <2>1. RowRight(d)  BY DEF DraftsInv, RowsRight, RowsHold, Quiet
    <2>2. CASE Current(d) # 0
      <3>1. Current(d) \in MessagesOf(d)  BY <1>1, <2>2, CurrentIs
      <3>. QED  BY <1>3, <1>4, <1>6, <2>1, <3>1 DEF RowRight, Owed
    <2>3. CASE Current(d) = 0 /\ ShownOf(d) # 0
      <3>1. ShownOf(d) = rows[d].message /\ rows[d].message # 0
        BY <2>3 DEF ShownOf
      <3>2. PICK m : m = rows[d].message  OBVIOUS
      <3>3. m \in DOMAIN mail /\ mail[m].draft = d /\ m \in Message
        BY <1>1, <3>1, <3>2, MailTyped DEF RowsNamed, Of
      <3>4. StillIn(m)  BY <1>4, <1>6, <2>1, <3>1, <3>2, <3>3 DEF RowRight, Owed
      <3>5. m \in MessagesOf(d)
        BY <1>1, <1>3, <3>3, <3>4, MessagesOfIs DEF StillIn
      <3>. QED  BY <1>1, <2>3, <3>5, CurrentIs
    <2>. QED  BY <2>2, <2>3
  <1>. QED  BY <1>5, <1>6

\* The inductive invariant holds, however drafts are edited, sent and discarded
\* while attempts read, fail and start again.
THEOREM DraftsInductive == DraftsSpec => []DraftsInv
  <1>1. DraftsInit => DraftsInv  BY InitKeeps
  <1>2. DraftsInv /\ [DraftsNext]_draftsVars => DraftsInv'  BY NextKeeps
  <1>. QED  BY <1>1, <1>2, PTL DEF DraftsSpec

\* Every variable keeps its type: the attempt's stage, the cursor that no commit
\* moves past the history, and the rows.
THEOREM DraftsTyped == DraftsSpec => []DraftsTypeOK
  <1>1. DraftsInv => DraftsTypeOK  BY DEF DraftsInv
  <1>. QED  BY <1>1, DraftsInductive, PTL

\* drafts.ts:1-4, for any drafts and any number of messages and failures: a
\* replica that has caught up shows each draft with the message Gmail has in it,
\* unless a refresh that was owed to the draft was cut off.
THEOREM DraftsFollowed == DraftsSpec => []DraftsAligned
  <1>1. DraftsInv => DraftsAligned  BY QuietAligned
  <1>. QED  BY <1>1, DraftsInductive, PTL

-----------------------------------------------------------------------------
(* The inductive invariant of Composer.                                    *)

\* An attempt that was sent, may be sent, or would be repeated.
Standing(i) ==
    MayLeave(i) \/ composer.attempt = i \/ \E q \in calls : q.of = i /\ q.alive

\* Nothing is known of an attempt before it is begun, and the composer repeats
\* an attempt of its own message only.
Numbered ==
    /\ \A i \in Id : i \notin DOMAIN attempts => draft[i] = "none" /\ sent[i] = "none"
    /\ \A q \in calls : q.of \in DOMAIN attempts
    /\ \A i \in DOMAIN attempts : attempts[i].session <= composer.session

OfItsMessage ==
    /\ composer.attempt # 0 => /\ composer.attempt \in DOMAIN attempts
                               /\ attempts[composer.attempt].session = composer.session
                               /\ composer.kind # "none" /\ composer.phase \in {"save", "send"}
    /\ composer.kind # "none" => composer.session # 0
    /\ composer.kind = "reply" => composer.status \notin {"sent", "reconnect_required"}

OnePerMessage ==
    \A i, j \in DOMAIN attempts :
        attempts[i].session = attempts[j].session /\ Standing(i) /\ Standing(j) => i = j

\* The composer knows of the call it waits for, and waits for one only.
Awaited ==
    \A q \in calls : Heard(q) =>
        composer.status = "sending" /\ composer.attempt = q.of /\ composer.phase = q.op

\* While the composer takes an attempt for unsaved it has not left; and without
\* an attempt nothing stands, unless the message has been sent.
Unsent == composer.attempt # 0 /\ composer.phase = "save" => ~MayLeave(composer.attempt)
Afresh ==
    composer.kind # "none" /\ composer.attempt = 0 /\ composer.status # "sent" =>
        \A i \in DOMAIN attempts : Shown(i) => ~Standing(i)

Agrees(i) ==
    /\ attempts[i].text = composer.text
    /\ composer.kind = "reply" => attempts[i].account = ReplyAccount
    /\ composer.kind = "page" =>
           sender = [account |-> attempts[i].account, binding |-> "save_attempt"]
AsShown == \A i \in DOMAIN attempts : Shown(i) /\ Standing(i) => Agrees(i)

IInv == /\ TypeOK /\ Numbered /\ OfItsMessage /\ OnePerMessage
        /\ Awaited /\ Unsent /\ Afresh /\ AsShown

-----------------------------------------------------------------------------
LEMMA InitHolds == Init => IInv
  <1> SUFFICES ASSUME Init PROVE IInv  OBVIOUS
  <1>1. TypeOK
    BY ComposerAssumption DEF Init, TypeOK, Closed, NoSender, ComposerRecord, Status, Call
  <1>2. attempts = <<>> /\ calls = {} /\ composer = Closed(0) /\ DOMAIN attempts = {}
    BY DEF Init
  <1>3. \A i \in Id : draft[i] = "none" /\ sent[i] = "none"  BY DEF Init
  <1>. QED
    BY <1>1, <1>2, <1>3 DEF IInv, Numbered, OfItsMessage, OnePerMessage, Awaited, Unsent,
       Afresh, AsShown, Closed

-----------------------------------------------------------------------------
(* Types.                                                                  *)

LEMMA BoundsTyped ==
    /\ MaxAttempts \in Nat /\ MaxText \in Nat /\ MaxSessions \in Nat
    /\ 0 \in 0 .. MaxAttempts /\ 0 \in 0 .. MaxText
BY ComposerAssumption

\* The composer with one field replaced.
LEMMA FieldTyped ==
    ASSUME NEW c \in ComposerRecord
    PROVE  /\ \A x \in 0 .. MaxText : [c EXCEPT !.text = x] \in ComposerRecord
           /\ \A x \in 0 .. MaxAttempts : [c EXCEPT !.attempt = x] \in ComposerRecord
           /\ \A x \in {"none", "save", "send"} : [c EXCEPT !.phase = x] \in ComposerRecord
           /\ \A x \in {"editing", "sending", "sent", "error", "send_error", "reconnect_required"} :
                 [c EXCEPT !.status = x] \in ComposerRecord
  <1>1. ASSUME NEW x \in 0 .. MaxText PROVE [c EXCEPT !.text = x] \in ComposerRecord
    BY DEF ComposerRecord
  <1>2. ASSUME NEW x \in 0 .. MaxAttempts PROVE [c EXCEPT !.attempt = x] \in ComposerRecord
    BY DEF ComposerRecord
  <1>3. ASSUME NEW x \in {"none", "save", "send"} PROVE [c EXCEPT !.phase = x] \in ComposerRecord
    BY DEF ComposerRecord
  <1>4. ASSUME NEW x \in {"editing", "sending", "sent", "error", "send_error", "reconnect_required"}
        PROVE  [c EXCEPT !.status = x] \in ComposerRecord
    BY DEF ComposerRecord
  <1>. QED  BY <1>1, <1>2, <1>3, <1>4

\* The message as it is after a correction.
LEMMA UnsavedTyped ==
    ASSUME composer \in ComposerRecord, NEW x \in 0 .. MaxText
    PROVE  Unsaved(x) \in ComposerRecord
  <1> DEFINE c1 == [composer EXCEPT !.text = x]
             c2 == [c1 EXCEPT !.attempt = 0]
             c3 == [c2 EXCEPT !.phase = "none"]
  <1>1. c1 \in ComposerRecord  BY FieldTyped
  <1>2. c2 \in ComposerRecord  BY <1>1, FieldTyped, BoundsTyped
  <1>3. c3 \in ComposerRecord  BY <1>2, FieldTyped
  <1>4. [c3 EXCEPT !.status = "editing"] \in ComposerRecord  BY <1>3, FieldTyped
  <1>. QED  BY <1>4 DEF Unsaved

LEMMA SpendsTyped ==
    ASSUME TypeOK, NEW what \in {"moves", "faults"}, Spends(what)
    PROVE  spent' \in [{"moves", "faults"} -> Nat]
BY DEF TypeOK, Spends

\* A message that validates has a text and a sender.
LEMMA SenderTyped ==
    ASSUME TypeOK
    PROVE  Sender \in Account \union {None} /\ (Valid => Sender \in Account /\ composer.text # 0)
BY ComposerAssumption DEF TypeOK, Sender, Scope, Valid

LEMMA HearsTyped ==
    ASSUME TypeOK, Numbered, NEW q \in calls
    PROVE  /\ HearsDraft(q) => calls' \subseteq Call /\ composer' \in ComposerRecord
           /\ HearsSent(q) => calls' \subseteq Call /\ composer' \in ComposerRecord
           /\ \A why \in {"send_error", "reconnect_required"} :
                 HearsError(q, why) => composer' \in ComposerRecord
  <1>1. q \in Call /\ q.of \in Id  BY DEF TypeOK, Call
  <1>2. composer \in ComposerRecord  BY DEF TypeOK
  <1>3. [of |-> q.of, op |-> "send", alive |-> TRUE] \in Call  BY <1>1 DEF Call
  <1>4. /\ [composer EXCEPT !.phase = "send"] \in ComposerRecord
        /\ [composer EXCEPT !.status = "sent", !.attempt = 0, !.phase = "none"] \in ComposerRecord
        /\ Closed(composer.session) \in ComposerRecord
        /\ \A x \in {"send_error", "reconnect_required"} :
              [composer EXCEPT !.status = x] \in ComposerRecord
    <2>1. [composer EXCEPT !.phase = "send"] \in ComposerRecord
      BY <1>2 DEF ComposerRecord
    <2>2. [composer EXCEPT !.status = "sent", !.attempt = 0, !.phase = "none"] \in ComposerRecord
      <3> DEFINE c1 == [composer EXCEPT !.status = "sent"]
                 c2 == [c1 EXCEPT !.attempt = 0]
      <3>1. c1 \in ComposerRecord  BY <1>2, FieldTyped
      <3>2. c2 \in ComposerRecord  BY <3>1, FieldTyped, BoundsTyped
      <3>3. [c2 EXCEPT !.phase = "none"] \in ComposerRecord  BY <3>2, FieldTyped
      <3>. QED  BY <3>3
    <2>3. Closed(composer.session) \in ComposerRecord
      BY <1>2, ComposerAssumption DEF ComposerRecord, Closed
    <2>4. ASSUME NEW x \in {"send_error", "reconnect_required"}
          PROVE [composer EXCEPT !.status = x] \in ComposerRecord
      BY <1>2 DEF ComposerRecord
    <2>. QED  BY <2>1, <2>2, <2>3, <2>4
  <1>5. HearsDraft(q) => calls' \subseteq Call /\ composer' \in ComposerRecord
    BY <1>2, <1>3, <1>4 DEF HearsDraft, TypeOK
  <1>6. HearsSent(q) => calls' \subseteq Call /\ composer' \in ComposerRecord
    BY <1>2, <1>4 DEF HearsSent, TypeOK
  <1>7. ASSUME NEW why \in {"send_error", "reconnect_required"}, HearsError(q, why)
        PROVE  composer' \in ComposerRecord
    BY <1>2, <1>4, <1>7 DEF HearsError
  <1>. QED  BY <1>5, <1>6, <1>7

LEMMA FailsTyped ==
    ASSUME TypeOK, Numbered, NEW q \in calls, Fails(q)
    PROVE  /\ calls' \subseteq Call /\ composer' \in ComposerRecord
           /\ status' \in [Account -> Status] /\ spent' \in [{"moves", "faults"} -> Nat]
  <1>1. calls' \subseteq Call /\ spent' \in [{"moves", "faults"} -> Nat]
    BY SpendsTyped DEF Fails, TypeOK
  <1>2. composer' \in ComposerRecord  BY HearsTyped DEF Fails
  <1>3. status' \in [Account -> Status]  BY DEF Fails, TypeOK, Status
  <1>. QED  BY <1>1, <1>2, <1>3

LEMMA PersonTyped ==
    ASSUME TypeOK, Numbered, OfItsMessage,
           \/ \E kind \in {"page", "reply"} : Open(kind)
           \/ Edit \/ PressInVain \/ Press \/ Close \/ Reload \/ ReadShell
           \/ \E a \in Account : ChangeSender(a)
           \/ \E x \in Account \union {All} : SelectScope(x)
    PROVE  TypeOK'
  <1>0. composer \in ComposerRecord  BY DEF TypeOK
  <1>1. ASSUME NEW kind \in {"page", "reply"}, Open(kind) PROVE TypeOK'
    <2>1. composer' \in ComposerRecord
      BY <1>0, <1>1, ComposerAssumption DEF Open, Closed, ComposerRecord
    <2>2. sender' \in [account : Account \union {None}, binding : {"editable", "save_attempt"}]
      BY <1>1 DEF Open, NoSender, Scope, TypeOK
    <2>. QED  BY <1>1, <2>1, <2>2 DEF Open, TypeOK
  <1>2. CASE Edit
    <2>1. composer' \in ComposerRecord
      <3>1. composer.text + 1 \in 0 .. MaxText
        BY <1>0, <1>2, BoundsTyped DEF Edit, ComposerRecord
      <3>. QED  BY <1>0, <1>2, <3>1, UnsavedTyped DEF Edit
    <2>. QED  BY <1>2, <2>1 DEF Edit, TypeOK
  <1>3. CASE PressInVain
    <2>1. composer' \in ComposerRecord
      BY <1>0, <1>3 DEF PressInVain, ComposerRecord
    <2>. QED  BY <1>3, <2>1 DEF PressInVain, TypeOK
  <1>4. CASE Press
    <2> DEFINE fresh == composer.attempt = 0
               i == IF fresh THEN Len(attempts) + 1 ELSE composer.attempt
               phase == IF fresh THEN "save" ELSE composer.phase
               new == [session |-> composer.session, text |-> composer.text, account |-> Sender]
    <2>1. /\ i \in Id /\ Valid /\ composer.kind # "none"
          /\ attempts' = IF fresh THEN Append(attempts, new) ELSE attempts
          /\ composer' = [composer EXCEPT !.attempt = i, !.phase = phase, !.status = "sending"]
          /\ calls' = calls \union {[of |-> i, op |-> phase, alive |-> TRUE]}
          /\ sender' = IF composer.kind = "reply" THEN sender
                       ELSE [account |-> attempts'[i].account, binding |-> "save_attempt"]
          /\ UNCHANGED <<scope, known, status, saved, sent, draft, spent>>
      BY <1>4 DEF Press, CanPress
    <2>2. phase \in {"save", "send"}  BY DEF OfItsMessage
    <2>3. new \in Attempt
      BY <1>0, <2>1, SenderTyped, ComposerAssumption DEF Attempt, ComposerRecord, OfItsMessage
    <2> HIDE DEF new
    <2>4. attempts' \in Seq(Attempt) /\ i \in DOMAIN attempts' /\ Len(attempts') <= MaxAttempts
      <3>1. CASE fresh  BY <2>1, <2>3, <3>1, ComposerAssumption DEF TypeOK, Id
      <3>2. CASE ~fresh  BY <2>1, <3>2 DEF TypeOK, OfItsMessage
      <3>. QED  BY <3>1, <3>2
    <2>5. composer' \in ComposerRecord
      <3> DEFINE c1 == [composer EXCEPT !.attempt = i]
                 c2 == [c1 EXCEPT !.phase = phase]
      <3>0. i \in 0 .. MaxAttempts  BY <2>1, BoundsTyped DEF Id
      <3> HIDE DEF i, phase
      <3>1. c1 \in ComposerRecord  BY <1>0, <3>0, FieldTyped
      <3>2. c2 \in ComposerRecord  BY <3>1, <2>2, FieldTyped
      <3>3. [c2 EXCEPT !.status = "sending"] \in ComposerRecord
        BY <3>2, FieldTyped
      <3>. QED  BY <2>1, <3>3
    <2>6. calls' \subseteq Call
      <3> HIDE DEF i, phase
      <3>1. [of |-> i, op |-> phase, alive |-> TRUE] \in Call
        BY <2>1, <2>2 DEF Call
      <3>. QED  BY <2>1, <3>1 DEF TypeOK
    <2>7. sender' \in [account : Account \union {None}, binding : {"editable", "save_attempt"}]
      <3> HIDE DEF i, phase
      <3>1. attempts'[i] \in Attempt  BY <2>4
      <3>2. attempts'[i].account \in Account  BY <3>1 DEF Attempt
      <3>. QED  BY <2>1, <3>2 DEF TypeOK
    <2>. QED  BY <2>1, <2>4, <2>5, <2>6, <2>7 DEF TypeOK
  <1>5. ASSUME Close \/ Reload PROVE TypeOK'
    <2>1. composer' \in ComposerRecord
      BY <1>0, <1>5, ComposerAssumption DEF Close, Reload, Closed, ComposerRecord
    <2>2. sender' \in [account : Account \union {None}, binding : {"editable", "save_attempt"}]
      BY <1>5 DEF Close, Reload, NoSender
    <2>3. calls' \subseteq Call
      <3>1. \A q \in Call : [q EXCEPT !.alive = FALSE] \in Call  BY DEF Call
      <3>. QED  BY <1>5, <3>1 DEF Close, Reload, TypeOK
    <2>. QED  BY <1>5, <2>1, <2>2, <2>3, SpendsTyped DEF Close, Reload, TypeOK
  <1>6. CASE ReadShell  BY <1>6 DEF ReadShell, TypeOK
  <1>7. ASSUME NEW a \in Account, ChangeSender(a) PROVE TypeOK'
    <2>1. composer' \in ComposerRecord
      <3>1. composer.text \in 0 .. MaxText  BY <1>0 DEF ComposerRecord
      <3>. QED  BY <1>0, <1>7, <3>1, UnsavedTyped DEF ChangeSender
    <2>. QED  BY <1>7, <2>1, SpendsTyped DEF ChangeSender, TypeOK
  <1>8. ASSUME NEW x \in Account \union {All}, SelectScope(x) PROVE TypeOK'
    BY <1>8, SpendsTyped DEF SelectScope, TypeOK
  <1>. QED  BY <1>1, <1>2, <1>3, <1>4, <1>5, <1>6, <1>7, <1>8

LEMMA OutsideTyped ==
    ASSUME TypeOK, Numbered,
           \/ \E q \in calls : ServeDenied(q) \/ ServeSave(q) \/ ServeSend(q) \/ Lose(q)
           \/ \E i \in Id : Discard(i)
           \/ \E a \in Account, x \in Status : AccountTurns(a, x)
    PROVE  TypeOK'
  <1>1. ASSUME NEW q \in calls, ServeDenied(q) PROVE TypeOK'
    <2>1. composer' \in ComposerRecord  BY <1>1, HearsTyped DEF ServeDenied
    <2>. QED  BY <1>1, <2>1 DEF ServeDenied, TypeOK
  <1>2. ASSUME NEW q \in calls, ServeSave(q) PROVE TypeOK'
    <2>1. /\ saved' \in [Id -> {"none", "pending", "complete"}]
          /\ draft' \in [Id -> {"none", "draft", "sent", "gone"}]
      BY <1>2 DEF ServeSave, TypeOK
    <2>2. /\ calls' \subseteq Call /\ composer' \in ComposerRecord
          /\ status' \in [Account -> Status] /\ spent' \in [{"moves", "faults"} -> Nat]
      <3>1. CASE HearsDraft(q) /\ UNCHANGED <<status, spent>>
        BY <3>1, HearsTyped DEF TypeOK
      <3>2. CASE calls' = calls \ {q} /\ HearsError(q, "send_error") /\ UNCHANGED <<status, spent>>
        BY <3>2, HearsTyped DEF TypeOK
      <3>3. CASE Fails(q)  BY <3>3, FailsTyped
      <3>. QED  BY <1>2, <3>1, <3>2, <3>3 DEF ServeSave
    <2>. QED  BY <1>2, <2>1, <2>2 DEF ServeSave, TypeOK
  <1>3. ASSUME NEW q \in calls, ServeSend(q) PROVE TypeOK'
    <2>0. /\ sent \in [Id -> {"none", "prepared", "complete"}]
          /\ draft \in [Id -> {"none", "draft", "sent", "gone"}]
      BY DEF TypeOK
    <2>1. /\ sent' \in [Id -> {"none", "prepared", "complete"}]
          /\ draft' \in [Id -> {"none", "draft", "sent", "gone"}]
      BY <1>3, <2>0 DEF ServeSend
    <2>2. /\ calls' \subseteq Call /\ composer' \in ComposerRecord
          /\ status' \in [Account -> Status] /\ spent' \in [{"moves", "faults"} -> Nat]
      <3>1. CASE HearsSent(q) /\ UNCHANGED <<status, spent>>
        BY <3>1, HearsTyped DEF TypeOK
      <3>2. CASE calls' = calls \ {q} /\ HearsError(q, "send_error") /\ UNCHANGED <<status, spent>>
        BY <3>2, HearsTyped DEF TypeOK
      <3>3. CASE Fails(q)  BY <3>3, FailsTyped
      <3>. QED  BY <1>3, <3>1, <3>2, <3>3 DEF ServeSend
    <2>. QED  BY <1>3, <2>1, <2>2 DEF ServeSend, TypeOK
  <1>4. ASSUME NEW q \in calls, Lose(q) PROVE TypeOK'
    <2>1. composer' \in ComposerRecord  BY <1>4, HearsTyped DEF Lose
    <2>2. calls' \subseteq Call  BY <1>4 DEF Lose, TypeOK, Call
    <2>. QED  BY <1>4, <2>1, <2>2, SpendsTyped DEF Lose, TypeOK
  <1>5. ASSUME NEW i \in Id, Discard(i) PROVE TypeOK'
    BY <1>5, SpendsTyped DEF Discard, TypeOK
  <1>6. ASSUME NEW a \in Account, NEW x \in Status, AccountTurns(a, x) PROVE TypeOK'
    BY <1>6, SpendsTyped DEF AccountTurns, TypeOK, Status
  <1>. QED  BY <1>1, <1>2, <1>3, <1>4, <1>5, <1>6

-----------------------------------------------------------------------------
(* What the steps have in common.                                          *)

\* What the invariant needs of the types.
LEMMA Typed ==
    ASSUME TypeOK
    PROVE  /\ composer \in ComposerRecord /\ calls \subseteq Call
           /\ attempts \in Seq(Attempt) /\ DOMAIN attempts \subseteq Id
           /\ Len(attempts) \in Nat /\ DOMAIN attempts = 1 .. Len(attempts)
           /\ \A i \in DOMAIN attempts : attempts[i] \in Attempt /\ i # 0
           /\ DOMAIN sent = Id /\ DOMAIN draft = Id
  <1>1. /\ composer \in ComposerRecord /\ calls \subseteq Call
        /\ attempts \in Seq(Attempt) /\ Len(attempts) <= MaxAttempts
        /\ DOMAIN sent = Id /\ DOMAIN draft = Id
    BY DEF TypeOK
  <1>2. Len(attempts) \in Nat /\ DOMAIN attempts = 1 .. Len(attempts)  BY <1>1
  <1>3. DOMAIN attempts \subseteq Id  BY <1>1, <1>2, BoundsTyped DEF Id
  <1>4. \A i \in DOMAIN attempts : attempts[i] \in Attempt /\ i # 0
    BY <1>1, <1>2
  <1>. QED  BY <1>1, <1>2, <1>3, <1>4

\* The composer waits for one answer.
LEMMA OneHeard ==
    ASSUME TypeOK, Awaited, NEW p \in calls, NEW q \in calls, Heard(p), Heard(q)
    PROVE  p = q
  <1>1. p \in Call /\ q \in Call  BY Typed
  <1>2. p.of = q.of /\ p.op = q.op /\ p.alive = q.alive
    BY <1>1 DEF Awaited, Heard, Call
  <1>. QED  BY <1>1, <1>2 DEF Call

\* A message that can be edited has not left, and no call about it is waited for.
LEMMA NotLocked ==
    ASSUME IInv, ~Locked, composer.kind # "none", NEW i \in DOMAIN attempts, Shown(i)
    PROVE  ~MayLeave(i) /\ ~\E q \in calls : q.of = i /\ q.alive
  <1>1. ASSUME NEW q \in calls, q.of = i, q.alive PROVE FALSE
    <2>1. composer.status = "sending"  BY <1>1 DEF IInv, Awaited, Heard
    <2>. QED  BY <2>1 DEF Locked, IsComposeDraftLocked
  <1>2. ASSUME MayLeave(i) PROVE FALSE
    <2>1. CASE composer.attempt = 0
      <3>1. composer.status # "sent"
        BY Typed DEF IInv, OfItsMessage, Locked, IsComposeDraftLocked, ComposerRecord
      <3>. QED  BY <1>2, <2>1, <3>1 DEF IInv, Afresh, Standing
    <2>2. CASE composer.attempt # 0
      <3>1. composer.kind = "page" /\ composer.phase = "save"
        BY <2>2, Typed DEF IInv, OfItsMessage, Locked, IsComposeDraftLocked, ComposerRecord
      <3>2. composer.attempt \in DOMAIN attempts /\ ~MayLeave(composer.attempt)
        BY <2>2, <3>1 DEF IInv, OfItsMessage, Unsent
      <3>3. attempts[composer.attempt].session = attempts[i].session
        BY <2>2 DEF IInv, OfItsMessage, Shown
      <3>4. i = composer.attempt
        BY <1>2, <3>2, <3>3 DEF IInv, OnePerMessage, Standing
      <3>. QED  BY <1>2, <3>2, <3>4
    <2>. QED  BY <2>1, <2>2
  <1>. QED  BY <1>1, <1>2

\* No call is begun, and no attempt comes closer to leaving.
Subsides ==
    /\ attempts' = attempts
    /\ \A q \in calls' : \E p \in calls : p.of = q.of /\ p.op = q.op /\ (q.alive => p.alive)
    /\ \A i \in DOMAIN attempts : MayLeave(i)' => MayLeave(i)
    /\ \A i \in Id : i \notin DOMAIN attempts => draft'[i] = "none" /\ sent'[i] = "none"

LEMMA SubsidingRows ==
    ASSUME IInv, Subsides, composer'.session >= composer.session, composer' \in ComposerRecord
    PROVE  Numbered'
  <1>1. \A q \in calls' : q.of \in DOMAIN attempts
    BY DEF Subsides, IInv, Numbered
  <1>2. \A i \in DOMAIN attempts : attempts[i].session <= composer'.session
    BY Typed DEF IInv, Numbered, ComposerRecord, Attempt
  <1>. QED  BY <1>1, <1>2 DEF Subsides, Numbered

\* Of the composer at most the status changes.
LEMMA SubsidingQuiet ==
    ASSUME IInv, TypeOK', Subsides, sender' = sender,
           composer'.kind = composer.kind, composer'.session = composer.session,
           composer'.text = composer.text, composer'.attempt = composer.attempt,
           composer'.phase = composer.phase,
           composer.status = "sent" => composer'.status = "sent",
           composer.kind = "reply" => composer'.status \notin {"sent", "reconnect_required"},
           \A q \in calls' : Heard(q)' => composer'.status = "sending"
    PROVE  IInv'
  <1>1. Numbered'  BY Typed, SubsidingRows DEF IInv, TypeOK, ComposerRecord
  <1>2. OfItsMessage'  BY DEF IInv, OfItsMessage, Subsides
  <1>3. \A i \in DOMAIN attempts : (Standing(i)' => Standing(i)) /\ (Shown(i)' <=> Shown(i))
    BY DEF Standing, Subsides, Shown
  <1>4. OnePerMessage'  BY <1>3 DEF IInv, OnePerMessage, Subsides
  <1>5. Awaited'
    <2> SUFFICES ASSUME NEW q \in calls', Heard(q)'
                 PROVE  composer'.attempt = q.of /\ composer'.phase = q.op
      BY DEF Awaited
    <2>1. PICK p \in calls : p.of = q.of /\ p.op = q.op /\ (q.alive => p.alive)
      BY DEF Subsides
    <2>2. Heard(p)  BY <2>1 DEF Heard, Shown, Subsides
    <2>. QED  BY <2>1, <2>2 DEF IInv, Awaited
  <1>6. Unsent'  BY DEF IInv, Unsent, OfItsMessage, Subsides
  <1>7. Afresh'  BY <1>3 DEF IInv, Afresh, Subsides
  <1>8. AsShown'  BY <1>3 DEF IInv, AsShown, Agrees, Subsides
  <1>. QED  BY <1>1, <1>2, <1>4, <1>5, <1>6, <1>7, <1>8 DEF IInv

\* The composer shows a message of which nothing stands.
LEMMA Blank ==
    ASSUME IInv, TypeOK', Subsides, composer'.session >= composer.session,
           composer'.attempt = 0,
           composer'.kind # "none" => composer'.session # 0,
           composer'.status = "editing",
           \A i \in DOMAIN attempts : Shown(i)' => ~Standing(i)'
    PROVE  IInv'
  <1>1. Numbered'  BY SubsidingRows DEF TypeOK
  <1>2. OfItsMessage'  BY DEF OfItsMessage
  <1>3. \A i \in DOMAIN attempts : Standing(i)' => Standing(i)
    <2> SUFFICES ASSUME NEW i \in DOMAIN attempts, Standing(i)' PROVE Standing(i)
      OBVIOUS
    <2>1. i # 0  BY Typed DEF IInv
    <2>. QED  BY <2>1 DEF Standing, Subsides
  <1>4. OnePerMessage'  BY <1>3 DEF IInv, OnePerMessage, Subsides
  <1>5. Awaited'  BY <1>1 DEF Awaited, Heard, Standing, Numbered, Subsides
  <1>6. Unsent' /\ Afresh' /\ AsShown'  BY DEF Unsent, Afresh, AsShown, Subsides
  <1>. QED  BY <1>1, <1>2, <1>4, <1>5, <1>6 DEF IInv

-----------------------------------------------------------------------------
(* The person at the tab.                                                  *)

\* The same calls and rows.
LEMMA SameRows ==
    ASSUME IInv, attempts' = attempts, calls' = calls, sent' = sent, draft' = draft
    PROVE  Subsides
BY DEF Subsides, MayLeave, IInv, Numbered

LEMMA OpenPreserves ==
    ASSUME IInv, TypeOK', NEW kind \in {"page", "reply"}, Open(kind)
    PROVE  IInv'
  <1>1. Subsides  BY SameRows DEF Open
  <1>2. /\ composer'.session = composer.session + 1 /\ composer'.attempt = 0
        /\ composer'.status = "editing"
    BY DEF Open, Closed
  <1>3. composer.session \in Nat  BY Typed, BoundsTyped DEF IInv, ComposerRecord
  <1>4. \A i \in DOMAIN attempts : ~Shown(i)'
    BY <1>2, <1>3, Typed DEF IInv, Numbered, Shown, Open, Attempt
  <1>. QED  BY <1>1, <1>2, <1>3, <1>4, Blank

\* Edit and ChangeSender.
LEMMA CorrectionPreserves ==
    ASSUME IInv, TypeOK', composer.kind # "none", ~Locked,
           NEW x \in 0 .. MaxText, composer' = Unsaved(x),
           UNCHANGED <<attempts, calls, sent, draft>>
    PROVE  IInv'
  <1>1. Subsides  BY SameRows
  <1>2. composer \in ComposerRecord /\ composer.session \in Nat
    BY Typed, BoundsTyped DEF IInv, ComposerRecord
  <1>3. /\ composer'.session = composer.session /\ composer'.attempt = 0
        /\ composer'.status = "editing" /\ composer'.kind = composer.kind
    BY <1>2 DEF Unsaved, ComposerRecord
  <1>4. ASSUME NEW i \in DOMAIN attempts, Shown(i)' PROVE ~Standing(i)'
    <2>1. Shown(i)  BY <1>3, <1>4 DEF Shown
    <2>2. ~MayLeave(i) /\ ~\E q \in calls : q.of = i /\ q.alive
      BY <2>1, NotLocked
    <2>3. i # 0  BY Typed DEF IInv
    <2>. QED  BY <1>3, <2>2, <2>3 DEF Standing, MayLeave
  <1>. QED  BY <1>1, <1>2, <1>3, <1>4, Blank DEF IInv, OfItsMessage

LEMMA PressInVainPreserves ==
    ASSUME IInv, TypeOK', PressInVain
    PROVE  IInv'
  <1>1. Subsides  BY SameRows DEF PressInVain
  <1>2. composer \in ComposerRecord  BY Typed DEF IInv
  <1>3. /\ composer'.kind = composer.kind /\ composer'.session = composer.session
        /\ composer'.text = composer.text /\ composer'.attempt = composer.attempt
        /\ composer'.phase = composer.phase /\ composer'.status = "error"
        /\ composer.status \notin {"sending", "sent"}
        /\ sender' = sender /\ calls' = calls /\ attempts' = attempts
    BY <1>2 DEF PressInVain, CanPress, ComposerRecord
  <1>4. \A q \in calls' : ~Heard(q)'  BY <1>3 DEF IInv, Awaited, Heard, Shown
  <1>. QED  BY <1>1, <1>3, <1>4, SubsidingQuiet

\* Close and Reload, and a reply that was sent.
LEMMA LeavingPreserves ==
    ASSUME IInv, TypeOK', Subsides, composer' = Closed(composer.session)
    PROVE  IInv'
  <1>1. /\ composer'.session = composer.session /\ composer'.attempt = 0
        /\ composer'.status = "editing" /\ composer'.kind = "none"
    BY DEF Closed
  <1>2. composer.session \in Nat  BY Typed, BoundsTyped DEF IInv, ComposerRecord
  <1>. QED  BY <1>1, <1>2, Blank DEF Shown

LEMMA ReloadSubsides ==
    ASSUME IInv, Reload
    PROVE  Subsides
  <1>1. \A p \in calls : /\ [p EXCEPT !.alive = FALSE].of = p.of
                         /\ [p EXCEPT !.alive = FALSE].op = p.op
                         /\ [p EXCEPT !.alive = FALSE].alive = FALSE
    BY Typed DEF IInv, Call
  <1>2. \A q \in calls' : \E p \in calls : p.of = q.of /\ p.op = q.op /\ q.alive = FALSE
    BY <1>1 DEF Reload
  <1>. QED  BY <1>2 DEF Subsides, MayLeave, IInv, Numbered, Reload

\* A new attempt stands alone: nothing stood of the message it is begun for.
LEMMA FreshPressPreserves ==
    ASSUME IInv, TypeOK', Press, composer.attempt = 0
    PROVE  IInv'
  <1> DEFINE n == Len(attempts) + 1
             call == [of |-> n, op |-> "save", alive |-> TRUE]
             new == [session |-> composer.session, text |-> composer.text, account |-> Sender]
  <1>1. /\ n \in Id /\ attempts' = Append(attempts, new) /\ calls' = calls \union {call}
        /\ sent' = sent /\ draft' = draft
        /\ composer' = [composer EXCEPT !.attempt = n, !.phase = "save", !.status = "sending"]
        /\ sender' = IF composer.kind = "reply" THEN sender
                     ELSE [account |-> attempts'[n].account, binding |-> "save_attempt"]
        /\ composer.kind # "none" /\ composer.status # "sent"
    BY DEF Press, CanPress
  <1>2. /\ composer \in ComposerRecord /\ composer.session \in Nat
        /\ Len(attempts) \in Nat /\ DOMAIN attempts = 1 .. Len(attempts)
        /\ attempts \in Seq(Attempt)
    BY Typed, BoundsTyped DEF IInv, ComposerRecord
  <1>3. /\ composer'.attempt = n /\ composer'.phase = "save" /\ composer'.status = "sending"
        /\ composer'.kind = composer.kind /\ composer'.session = composer.session
        /\ composer'.text = composer.text
    BY <1>1, <1>2 DEF ComposerRecord
  <1>4. /\ DOMAIN attempts' = DOMAIN attempts \union {n} /\ n \notin DOMAIN attempts
        /\ attempts'[n] = new /\ \A i \in DOMAIN attempts : attempts'[i] = attempts[i]
    <2>1. n \notin DOMAIN attempts  BY <1>2
    <2>2. attempts'[n] = new /\ \A i \in DOMAIN attempts : attempts'[i] = attempts[i]
      BY <1>1, <1>2
    <2>3. Len(attempts') = n  BY <1>1, <1>2
    <2>4. DOMAIN attempts' = 1 .. Len(attempts')
      BY Typed, BoundsTyped DEF TypeOK
    <2>. QED  BY <1>2, <2>1, <2>2, <2>3, <2>4
  <1>5. new.session = composer.session /\ new.text = composer.text /\ new.account = Sender
    OBVIOUS
  <1>6. call.of = n /\ call.op = "save" /\ call.alive = TRUE  OBVIOUS
  <1> HIDE DEF n, call, new
  <1>7. \A i \in DOMAIN attempts : Shown(i) => ~Standing(i)
    BY <1>1 DEF IInv, Afresh
  <1>8. \A i \in DOMAIN attempts : /\ Standing(i)' => Standing(i)
                                   /\ Shown(i)' <=> Shown(i)
    BY <1>1, <1>3, <1>4, <1>6 DEF Standing, MayLeave, Shown
  <1>9. draft[n] = "none" /\ sent[n] = "none" /\ \A q \in calls : q.of # n
    BY <1>1, <1>4 DEF IInv, Numbered
  <1>10. Numbered'
    <2>1. \A i \in Id : i \notin DOMAIN attempts' => draft'[i] = "none" /\ sent'[i] = "none"
      BY <1>1, <1>4 DEF IInv, Numbered
    <2>2. \A q \in calls' : q.of \in DOMAIN attempts'
      BY <1>1, <1>4, <1>6 DEF IInv, Numbered
    <2>3. \A i \in DOMAIN attempts' : attempts'[i].session <= composer'.session
      BY <1>2, <1>3, <1>4, <1>5 DEF IInv, Numbered
    <2>. QED  BY <2>1, <2>2, <2>3 DEF Numbered
  <1>11. OfItsMessage'  BY <1>1, <1>3, <1>4, <1>5 DEF IInv, OfItsMessage
  <1>12. OnePerMessage'
    <2> SUFFICES ASSUME NEW i \in DOMAIN attempts', NEW j \in DOMAIN attempts',
                        attempts'[i].session = attempts'[j].session,
                        Standing(i)', Standing(j)'
                 PROVE  i = j
      BY DEF OnePerMessage
    <2>1. CASE i \in DOMAIN attempts /\ j \in DOMAIN attempts
      BY <2>1, <1>4, <1>8 DEF IInv, OnePerMessage
    <2>2. CASE i = n /\ j \in DOMAIN attempts
      BY <2>2, <1>1, <1>4, <1>5, <1>7, <1>8 DEF Shown
    <2>3. CASE j = n /\ i \in DOMAIN attempts
      BY <2>3, <1>1, <1>4, <1>5, <1>7, <1>8 DEF Shown
    <2>. QED  BY <1>4, <2>1, <2>2, <2>3
  <1>13. Awaited'
    <2> SUFFICES ASSUME NEW q \in calls', Heard(q)'
                 PROVE  composer'.attempt = q.of /\ composer'.phase = q.op
      BY <1>3 DEF Awaited
    <2>1. CASE q = call  BY <2>1, <1>3, <1>6
    <2>2. CASE q \in calls
      <3>1. q.of \in DOMAIN attempts  BY <2>2 DEF IInv, Numbered
      <3>2. Shown(q.of) /\ Standing(q.of)
        BY <2>2, <3>1, <1>8 DEF Heard, Standing
      <3>. QED  BY <3>1, <3>2, <1>7
    <2>. QED  BY <1>1, <2>1, <2>2
  <1>14. Unsent'  BY <1>1, <1>3, <1>6, <1>9 DEF Unsent, MayLeave
  <1>15. Afresh'  BY <1>1, <1>3 DEF Afresh, IInv, TypeOK, Id
  <1>16. AsShown'
    <2> SUFFICES ASSUME NEW i \in DOMAIN attempts', Shown(i)', Standing(i)' PROVE Agrees(i)'
      BY DEF AsShown
    <2>1. i = n  BY <1>4, <1>7, <1>8
    <2>2. composer.kind = "reply" => Sender = ReplyAccount  BY DEF Sender
    <2>. QED  BY <2>1, <2>2, <1>1, <1>3, <1>4, <1>5 DEF Agrees
  <1>. QED  BY <1>10, <1>11, <1>12, <1>13, <1>14, <1>15, <1>16 DEF IInv

\* A repeated attempt is the one that stands.
LEMMA RepeatPreserves ==
    ASSUME IInv, TypeOK', Press, composer.attempt # 0
    PROVE  IInv'
  <1> DEFINE n == composer.attempt
             call == [of |-> n, op |-> composer.phase, alive |-> TRUE]
  <1>1. /\ attempts' = attempts /\ calls' = calls \union {call}
        /\ sent' = sent /\ draft' = draft
        /\ composer' = [composer EXCEPT !.attempt = n, !.phase = composer.phase, !.status = "sending"]
        /\ sender' = IF composer.kind = "reply" THEN sender
                     ELSE [account |-> attempts[n].account, binding |-> "save_attempt"]
        /\ composer.kind # "none" /\ composer.status \notin {"sending", "sent"}
    BY DEF Press, CanPress
  <1>2. composer \in ComposerRecord  BY Typed DEF IInv
  <1>3. /\ composer'.attempt = n /\ composer'.phase = composer.phase /\ composer'.status = "sending"
        /\ composer'.kind = composer.kind /\ composer'.session = composer.session
        /\ composer'.text = composer.text
    BY <1>1, <1>2 DEF ComposerRecord
  <1>4. n \in DOMAIN attempts /\ attempts[n].session = composer.session /\ Shown(n) /\ Standing(n)
    BY <1>1 DEF IInv, OfItsMessage, Shown, Standing
  <1>5. call.of = n /\ call.op = composer.phase /\ call.alive = TRUE  OBVIOUS
  <1> HIDE DEF call
  <1>6. sender' = sender
    BY <1>1, <1>2, <1>4 DEF IInv, AsShown, Agrees, ComposerRecord
  <1>7. \A i \in DOMAIN attempts : (Standing(i)' => Standing(i)) /\ (Shown(i)' <=> Shown(i))
    BY <1>1, <1>3, <1>4, <1>5 DEF Standing, MayLeave, Shown
  <1>8. Numbered'  BY <1>1, <1>3, <1>4, <1>5 DEF IInv, Numbered
  <1>9. OfItsMessage'  BY <1>1, <1>3 DEF IInv, OfItsMessage
  <1>10. OnePerMessage'  BY <1>1, <1>7 DEF IInv, OnePerMessage
  <1>11. Awaited'
    <2> SUFFICES ASSUME NEW q \in calls', Heard(q)'
                 PROVE  composer'.attempt = q.of /\ composer'.phase = q.op
      BY <1>3 DEF Awaited
    <2>1. CASE q = call  BY <2>1, <1>3, <1>5
    <2>2. CASE q \in calls  BY <2>2, <1>1, <1>3 DEF IInv, Awaited, Heard, Shown
    <2>. QED  BY <1>1, <2>1, <2>2
  <1>12. Unsent'  BY <1>1, <1>3, <1>5 DEF IInv, Unsent, MayLeave
  <1>13. Afresh'  BY <1>3 DEF Afresh
  <1>14. AsShown'  BY <1>1, <1>3, <1>6, <1>7 DEF IInv, AsShown, Agrees
  <1>. QED  BY <1>8, <1>9, <1>10, <1>11, <1>12, <1>13, <1>14 DEF IInv

-----------------------------------------------------------------------------
(* The API.                                                                *)

\* The tab hears of a failure of the call it waits for.
LEMMA FailureHeard ==
    ASSUME IInv, TypeOK', Subsides, sender' = sender, NEW q \in calls,
           NEW why \in {"send_error", "reconnect_required"}, HearsError(q, why),
           \A p \in calls' : p.alive => p \in calls \ {q}
    PROVE  IInv'
  <1>1. composer \in ComposerRecord  BY Typed DEF IInv
  <1>2. /\ composer'.kind = composer.kind /\ composer'.session = composer.session
        /\ composer'.text = composer.text /\ composer'.attempt = composer.attempt
        /\ composer'.phase = composer.phase
        /\ composer'.status =
             IF Heard(q) THEN (IF composer.kind = "page" THEN why ELSE "send_error") ELSE composer.status
    BY <1>1 DEF HearsError, ComposerRecord
  <1>3. Heard(q) => composer.status = "sending"  BY DEF IInv, Awaited
  <1>4. ASSUME NEW p \in calls', Heard(p)' PROVE composer'.status = "sending"
    <2>1. p \in calls /\ p # q /\ Heard(p)
      BY <1>2, <1>4 DEF Heard, Shown, Subsides
    <2>2. ~Heard(q) /\ composer.status = "sending"
      BY <2>1, OneHeard DEF IInv, Awaited
    <2>. QED  BY <1>2, <2>2
  <1>5. composer.kind = "reply" => composer'.status \notin {"sent", "reconnect_required"}
    BY <1>2 DEF IInv, OfItsMessage
  <1>6. composer.status = "sent" => composer'.status = "sent"  BY <1>2, <1>3
  <1>. QED  BY <1>2, <1>4, <1>5, <1>6, SubsidingQuiet

LEMMA ServeDeniedPreserves ==
    ASSUME IInv, TypeOK', NEW q \in calls, ServeDenied(q)
    PROVE  IInv'
  <1>1. Subsides  BY DEF Subsides, ServeDenied, MayLeave, IInv, Numbered
  <1>. QED  BY <1>1, FailureHeard DEF ServeDenied

LEMMA LosePreserves ==
    ASSUME IInv, TypeOK', NEW q \in calls, Lose(q)
    PROVE  IInv'
  <1> DEFINE dead == [q EXCEPT !.alive = FALSE]
  <1>1. dead.of = q.of /\ dead.op = q.op /\ dead.alive = FALSE
    BY Typed DEF IInv, Call
  <1>2. calls' = (calls \ {q}) \union {dead}  BY DEF Lose
  <1> HIDE DEF dead
  <1>3. Subsides  BY <1>1, <1>2 DEF Subsides, Lose, MayLeave, IInv, Numbered
  <1>. QED  BY <1>1, <1>2, <1>3, FailureHeard DEF Lose

\* An attempt that is found saved: its send is the next call.
LEMMA DraftHeard ==
    ASSUME IInv, TypeOK', NEW q \in calls, q.op = "save", HearsDraft(q),
           sender' = sender, attempts' = attempts, sent' = sent,
           NEW d, d = draft[q.of] \/ d = "draft", draft' = [draft EXCEPT ![q.of] = d]
    PROVE  IInv'
  <1> DEFINE call == [of |-> q.of, op |-> "send", alive |-> TRUE]
  <1>1. calls' = (calls \ {q}) \union (IF q.alive THEN {call} ELSE {})
    BY DEF HearsDraft
  <1>2. call.of = q.of /\ call.op = "send" /\ call.alive = TRUE  OBVIOUS
  <1> HIDE DEF call
  <1>3. composer \in ComposerRecord  BY Typed DEF IInv
  <1>4. /\ composer'.attempt = composer.attempt /\ composer'.status = composer.status
        /\ composer'.kind = composer.kind /\ composer'.session = composer.session
        /\ composer'.text = composer.text
        /\ composer'.phase = IF Heard(q) THEN "send" ELSE composer.phase
    BY <1>3 DEF HearsDraft, ComposerRecord
  <1>5. q.of \in DOMAIN attempts /\ q.of \in Id /\ DOMAIN draft = Id
    BY Typed DEF IInv, Numbered
  <1>6. /\ \A i \in Id : i # q.of => draft'[i] = draft[i]
        /\ draft'[q.of] = "sent" => draft[q.of] = "sent"
    BY <1>5
  <1>7. ASSUME NEW i \in DOMAIN attempts
        PROVE  /\ MayLeave(i)' => MayLeave(i) \/ (i = q.of /\ q.alive)
               /\ Standing(i)' => Standing(i)
               /\ Shown(i)' <=> Shown(i)
    <2>1. i \in Id  BY Typed DEF IInv
    <2>2. draft'[i] = "sent" => draft[i] = "sent"  BY <2>1, <1>6
    <2>3. MayLeave(i)' => MayLeave(i) \/ (i = q.of /\ q.alive)
      BY <2>2, <1>1, <1>2 DEF MayLeave
    <2>4. \A p \in calls' : p.of = i /\ p.alive => \E r \in calls : r.of = i /\ r.alive
      BY <1>1, <1>2
    <2>5. Standing(i)' => Standing(i)  BY <2>3, <2>4, <1>4 DEF Standing
    <2>. QED  BY <2>3, <2>5, <1>4 DEF Shown
  <1>8. Numbered'
    <2>1. \A i \in Id : i \notin DOMAIN attempts => draft'[i] = "none" /\ sent'[i] = "none"
      BY <1>5, <1>6 DEF IInv, Numbered
    <2>2. \A p \in calls' : p.of \in DOMAIN attempts
      BY <1>1, <1>2, <1>5 DEF IInv, Numbered
    <2>. QED  BY <2>1, <2>2, <1>4 DEF IInv, Numbered
  <1>9. OfItsMessage'  BY <1>4 DEF IInv, OfItsMessage
  <1>10. OnePerMessage'  BY <1>7 DEF IInv, OnePerMessage
  <1>11. Awaited'
    <2> SUFFICES ASSUME NEW p \in calls', Heard(p)'
                 PROVE  /\ composer'.status = "sending" /\ composer'.attempt = p.of
                        /\ composer'.phase = p.op
      BY DEF Awaited
    <2>1. CASE q.alive /\ p = call
      <3>1. Heard(q)  BY <2>1, <1>2, <1>5, <1>7 DEF Heard
      <3>. QED  BY <2>1, <3>1, <1>2, <1>4 DEF IInv, Awaited
    <2>2. CASE p \in calls \ {q}
      <3>1. Heard(p)  BY <2>2, <1>4 DEF Heard, Shown
      <3>2. ~Heard(q)  BY <2>2, <3>1, OneHeard DEF IInv
      <3>. QED  BY <2>2, <3>1, <3>2, <1>4 DEF IInv, Awaited
    <2>. QED  BY <1>1, <2>1, <2>2
  <1>12. Unsent'
    <2> SUFFICES ASSUME NEW i, i = composer.attempt, i # 0, composer'.phase = "save"
                 PROVE  ~MayLeave(i)'
      BY <1>4 DEF Unsent, MayLeave
    <2>1. ~Heard(q) /\ composer.phase = "save"  BY <1>4
    <2>2. i \in DOMAIN attempts /\ Shown(i) /\ ~MayLeave(i)
      BY <2>1 DEF IInv, OfItsMessage, Unsent, Shown
    <2>. QED  BY <2>1, <2>2, <1>7 DEF Heard
  <1>13. Afresh'  BY <1>4, <1>7 DEF IInv, Afresh
  <1>14. AsShown'  BY <1>4, <1>7 DEF IInv, AsShown, Agrees
  <1>. QED  BY <1>8, <1>9, <1>10, <1>11, <1>12, <1>13, <1>14 DEF IInv

\* A send that is found carried out ends the message.
LEMMA SentHeard ==
    ASSUME IInv, TypeOK', NEW q \in calls, Subsides, HearsSent(q), sender' = sender
    PROVE  IInv'
  <1>1. calls' = calls \ {q} /\ attempts' = attempts  BY DEF HearsSent, Subsides
  <1>2. CASE ~Heard(q)
    <2>1. composer' = composer  BY <1>2 DEF HearsSent
    <2>2. \A p \in calls' : Heard(p)' => composer'.status = "sending"
      BY <1>1, <2>1 DEF Heard, Shown, IInv, Awaited
    <2>. QED  BY <2>1, <2>2, SubsidingQuiet DEF IInv, OfItsMessage
  <1>3. CASE Heard(q) /\ composer.kind # "page"
    <2>1. composer' = Closed(composer.session)  BY <1>3 DEF HearsSent
    <2>. QED  BY <2>1, LeavingPreserves
  <1>4. CASE Heard(q) /\ composer.kind = "page"
    <2>1. composer' = [composer EXCEPT !.status = "sent", !.attempt = 0, !.phase = "none"]
      BY <1>4 DEF HearsSent
    <2>2. composer \in ComposerRecord  BY Typed DEF IInv
    <2>3. /\ composer'.status = "sent" /\ composer'.attempt = 0
          /\ composer'.kind = composer.kind /\ composer'.session = composer.session
          /\ composer'.text = composer.text
      BY <2>1, <2>2 DEF ComposerRecord
    <2>4. \A i \in DOMAIN attempts : (Standing(i)' => Standing(i)) /\ (Shown(i)' <=> Shown(i))
      <3> SUFFICES ASSUME NEW i \in DOMAIN attempts
                   PROVE  (Standing(i)' => Standing(i)) /\ (Shown(i)' <=> Shown(i))
        OBVIOUS
      <3>1. i # 0  BY Typed DEF IInv
      <3>. QED  BY <3>1, <2>3, <1>1 DEF Standing, Shown, Subsides
    <2>5. Numbered'
      BY <2>2, <2>3, SubsidingRows, Typed, BoundsTyped DEF TypeOK, ComposerRecord
    <2>6. OfItsMessage'  BY <1>4, <2>3 DEF IInv, OfItsMessage
    <2>7. OnePerMessage' /\ AsShown'
      BY <1>1, <2>3, <2>4 DEF IInv, OnePerMessage, AsShown, Agrees
    <2>8. ~\E p \in calls' : Heard(p)'
      <3> SUFFICES ASSUME NEW p \in calls', Heard(p)' PROVE FALSE
        OBVIOUS
      <3>1. p \in calls /\ p # q /\ Heard(p)  BY <1>1, <2>3 DEF Heard, Shown
      <3>. QED  BY <3>1, <1>4, OneHeard DEF IInv
    <2>9. Awaited' /\ Unsent' /\ Afresh'
      BY <2>3, <2>8 DEF Awaited, Unsent, Afresh
    <2>. QED  BY <2>5, <2>6, <2>7, <2>9 DEF IInv
  <1>. QED  BY <1>2, <1>3, <1>4

LEMMA ServeSavePreserves ==
    ASSUME IInv, TypeOK', NEW q \in calls, ServeSave(q)
    PROVE  IInv'
  <1> DEFINE i == q.of
  <1>1. q.op = "save" /\ UNCHANGED <<sender, attempts, sent>>  BY DEF ServeSave
  <1>2. i \in DOMAIN attempts /\ i \in Id /\ DOMAIN draft = Id /\ i # 0
    BY Typed DEF IInv, Numbered
  <1>3. CASE /\ HearsDraft(q)
             /\ draft' = [draft EXCEPT ![i] = IF saved[i] = "none" THEN "draft" ELSE @]
    <2> DEFINE d == IF saved[i] = "none" THEN "draft" ELSE draft[i]
    <2>1. draft' = [draft EXCEPT ![i] = d] /\ (d = draft[i] \/ d = "draft")
      BY <1>2, <1>3
    <2> HIDE DEF d
    <2>. QED  BY <1>1, <1>3, <2>1, DraftHeard
  <1>4. CASE /\ draft' = draft /\ calls' = calls \ {q}
             /\ \E why \in {"send_error", "reconnect_required"} : HearsError(q, why)
    <2>1. Subsides  BY <1>1, <1>4 DEF Subsides, MayLeave, IInv, Numbered
    <2>. QED  BY <1>1, <1>4, <2>1, FailureHeard
  <1>5. CASE /\ \E d \in {"none", "draft"} :
                   (saved[i] = "pending" => d = draft[i]) /\ draft' = [draft EXCEPT ![i] = d]
             /\ calls' = calls \ {q}
             /\ \E why \in {"send_error", "reconnect_required"} : HearsError(q, why)
    <2>1. /\ \A j \in Id : j # i => draft'[j] = draft[j]
          /\ draft'[i] \in {"none", "draft"}
      BY <1>2, <1>5
    <2>2. Subsides
      <3>1. \A j \in Id : j \notin DOMAIN attempts => draft'[j] = "none" /\ sent'[j] = "none"
        BY <2>1, <1>1, <1>2 DEF IInv, Numbered
      <3>2. ASSUME NEW j \in DOMAIN attempts, MayLeave(j)' PROVE MayLeave(j)
        BY <2>1, <1>1, <1>5, <3>2, Typed DEF MayLeave, IInv
      <3>. QED  BY <3>1, <3>2, <1>1, <1>5 DEF Subsides
    <2>. QED  BY <1>1, <1>5, <2>2, FailureHeard
  <1>. QED  BY <1>3, <1>4, <1>5 DEF ServeSave, Fails

LEMMA ServeSendPreserves ==
    ASSUME IInv, TypeOK', NEW q \in calls, ServeSend(q)
    PROVE  IInv'
  <1> DEFINE i == q.of
  <1>1. q.op = "send" /\ UNCHANGED <<sender, attempts>> /\ calls' = calls \ {q}
    BY DEF ServeSend, HearsSent, Fails
  <1>2. i \in DOMAIN attempts /\ i \in Id /\ DOMAIN draft = Id /\ DOMAIN sent = Id
    BY Typed DEF IInv, Numbered
  <1>3. /\ \A j \in Id : j # i => draft'[j] = draft[j] /\ sent'[j] = sent[j]
    BY <1>2 DEF ServeSend
  <1>4. Subsides
    <2>1. \A j \in Id : j \notin DOMAIN attempts => draft'[j] = "none" /\ sent'[j] = "none"
      BY <1>2, <1>3 DEF IInv, Numbered
    <2>2. MayLeave(i)  BY <1>1 DEF MayLeave
    <2>3. ASSUME NEW j \in DOMAIN attempts, MayLeave(j)', j # i PROVE MayLeave(j)
      BY <2>3, <1>1, <1>3, Typed DEF MayLeave, IInv
    <2>. QED  BY <2>1, <2>2, <2>3, <1>1 DEF Subsides
  <1>5. \/ HearsSent(q)
        \/ \E why \in {"send_error", "reconnect_required"} : HearsError(q, why)
    BY DEF ServeSend, Fails
  <1>. QED  BY <1>1, <1>4, <1>5, SentHeard, FailureHeard

\* The tab and its calls as they are: what else changes brings no attempt closer.
LEMMA ElsewherePreserves ==
    ASSUME IInv, TypeOK',
           \/ ReadShell
           \/ \E x \in Account \union {All} : SelectScope(x)
           \/ \E i \in Id : Discard(i)
           \/ \E a \in Account, x \in Status : AccountTurns(a, x)
           \/ UNCHANGED vars
    PROVE  IInv'
  <1>1. UNCHANGED <<composer, sender, attempts, calls, sent>>
    BY DEF ReadShell, SelectScope, Discard, AccountTurns, vars
  <1>2. \A i \in Id : draft'[i] = draft[i] \/ (draft[i] = "draft" /\ draft'[i] = "gone")
    BY Typed DEF ReadShell, SelectScope, Discard, AccountTurns, vars, IInv
  <1>3. Subsides
    <2>1. \A i \in DOMAIN attempts : MayLeave(i)' => MayLeave(i)
      BY <1>1, <1>2, Typed DEF MayLeave, IInv
    <2>2. \A i \in Id : i \notin DOMAIN attempts => draft'[i] = "none" /\ sent'[i] = "none"
      BY <1>1, <1>2 DEF IInv, Numbered
    <2>. QED  BY <2>1, <2>2, <1>1 DEF Subsides
  <1>4. \A q \in calls' : Heard(q)' => composer'.status = "sending"
    BY <1>1 DEF IInv, Awaited, Heard, Shown
  <1>. QED  BY <1>1, <1>3, <1>4, SubsidingQuiet DEF IInv, OfItsMessage

-----------------------------------------------------------------------------
LEMMA NextPreserves ==
    ASSUME IInv, [Next]_vars
    PROVE  IInv'
  <1>1. TypeOK'
    <2>1. TypeOK /\ Numbered /\ OfItsMessage  BY DEF IInv
    <2>2. CASE UNCHANGED vars  BY <2>1, <2>2 DEF vars, TypeOK
    <2>. QED  BY <2>1, <2>2, PersonTyped, OutsideTyped DEF Next
  <1>2. ASSUME NEW kind \in {"page", "reply"}, Open(kind) PROVE IInv'
    BY <1>1, <1>2, OpenPreserves
  <1>3. CASE Edit
    <2>1. composer.text + 1 \in 0 .. MaxText
      BY <1>3, Typed, BoundsTyped DEF Edit, IInv, ComposerRecord
    <2>. QED  BY <1>1, <1>3, <2>1, CorrectionPreserves DEF Edit
  <1>4. ASSUME NEW a \in Account, ChangeSender(a) PROVE IInv'
    <2>1. composer.text \in 0 .. MaxText /\ composer.kind # "none"
      BY <1>4, Typed DEF ChangeSender, IInv, ComposerRecord
    <2>. QED  BY <1>1, <1>4, <2>1, CorrectionPreserves DEF ChangeSender
  <1>5. CASE PressInVain  BY <1>1, <1>5, PressInVainPreserves
  <1>6. CASE Press  BY <1>1, <1>6, FreshPressPreserves, RepeatPreserves
  <1>7. CASE Close
    <2>1. Subsides  BY <1>7, SameRows DEF Close
    <2>. QED  BY <1>1, <1>7, <2>1, LeavingPreserves DEF Close
  <1>8. CASE Reload  BY <1>1, <1>8, ReloadSubsides, LeavingPreserves DEF Reload
  <1>9. ASSUME NEW q \in calls, ServeDenied(q) \/ ServeSave(q) \/ ServeSend(q) \/ Lose(q) PROVE IInv'
    BY <1>1, <1>9, ServeDeniedPreserves, ServeSavePreserves, ServeSendPreserves, LosePreserves
  <1>. QED  BY <1>1, <1>2, <1>3, <1>4, <1>5, <1>6, <1>7, <1>8, <1>9, ElsewherePreserves DEF Next

\* Of one message one attempt stands, it is what the composer shows, and without
\* an attempt nothing stands.
THEOREM Inductive == Spec => []IInv
  <1>. QED  BY InitHolds, NextPreserves, PTL DEF Spec

-----------------------------------------------------------------------------
\* One message leaves at most once, and a message that can be edited has not
\* left: whatever calls are lost, repeated or answered late, however often the
\* composer is left and opened again, and for every number of attempts.
THEOREM OneCopy == Spec => []LeavesOnce
  <1>1. ASSUME IInv PROVE LeavesOnce
    <2>1. \A i, j \in DOMAIN attempts :
             attempts[i].session = attempts[j].session /\ MayLeave(i) /\ MayLeave(j) => i = j
      BY <1>1 DEF IInv, OnePerMessage, Standing
    <2>2. ~Locked => \A i \in DOMAIN attempts : Shown(i) => ~MayLeave(i)
      BY <1>1, NotLocked DEF Shown
    <2>. QED  BY <1>1, <2>1, <2>2 DEF LeavesOnce, IInv
  <1>. QED  BY Inductive, <1>1, PTL

\* What leaves, or would be sent again, is the text and the sender that the
\* composer shows (composeSenderAccount), whatever account the address turns to
\* and whatever accounts close meanwhile.
THEOREM ShownIsSent == Spec => []SentAsShown
  <1>1. ASSUME IInv PROVE SentAsShown
    <2> SUFFICES ASSUME NEW i \in DOMAIN attempts, Shown(i), MayLeave(i) \/ composer.attempt = i
                 PROVE  attempts[i].text = composer.text /\ attempts[i].account = Sender
      BY DEF SentAsShown
    <2>1. Agrees(i)  BY <1>1 DEF IInv, AsShown, Standing
    <2>2. composer.kind \in {"page", "reply"}
      BY <1>1, Typed DEF IInv, Shown, ComposerRecord
    <2>. QED  BY <2>1, <2>2 DEF Agrees, Sender
  <1>. QED  BY Inductive, <1>1, PTL
=============================================================================
