------------------------- MODULE ThreadLabelsProofs -------------------------
(***************************************************************************)
(* Theorems about ThreadLabels, for every number of threads, labels and    *)
(* attempts, every mailbox and every bound.                                *)
(***************************************************************************)
EXTENDS ThreadLabels, TLAPS

-----------------------------------------------------------------------------
(* The inductive invariant.                                                *)

\* A key speaks of its thread while the thread is at the version it was reserved at.
Spoken(k) == k.version = threads[k.thread].version
Unsettled(t) == threads[t].state \in {"not_requested", "pending", "running"}
\* What ends a step whose thread has left the recent inbox, or has started over.
GaveUp == {"ineligible", "superseded"}
Undisturbed == spent["revocations"] = 0 /\ spent["faults"] = 0

\* Steps are of versions their threads have reached; a thread runs under a step.
Keyed ==
    /\ \A k \in DOMAIN steps : k.version <= threads[k.thread].version
    /\ \A a \in work : a.key \in DOMAIN steps
    /\ \A t \in Thread : threads[t].state = "running" =>
          Admitted(t) /\ threads[t].after # -1
Chosen == \A t \in Thread : assignment[t].source = "user" => threads[t].state = "complete"
Asked == \A a \in work :
    a.label = Others \/ \E v \in 1 .. MaxDefinition : <<a.label, v>> \in a.key.hash
\* A thread that was labelled stays so at that analysis version.
Stands ==
    /\ \A k \in DOMAIN steps :
          (steps[k].status = "complete" /\ steps[k].result = "complete" /\ Spoken(k))
             => threads[k.thread].state = "complete"
    /\ \A a \in work :
          (a.at = "close" /\ a.outcome = "complete" /\ Spoken(a.key))
             => threads[a.key.thread].state = "complete"
Answered ==
    /\ \A a \in work : a.at = "close" => a.outcome # "none"
    /\ \A k \in DOMAIN steps : steps[k].status = "complete" => steps[k].result # "none"
Found ==
    spent["revocations"] = 0 =>
       /\ connected
       /\ \A a \in work : a.outcome # "missing"
       /\ \A k \in DOMAIN steps : steps[k].result # "missing"

\* Without overlapping or lost attempts a step has one attempt, which alone
\* closes it, and the thread is reserved for that step until it does.
Single == \A a, b \in work : a.key = b.key => a = b
Working == \A a \in work : steps[a.key].status = "open"
Held ==
    /\ \A k \in DOMAIN steps :
          (Spoken(k) /\ Unsettled(k.thread) /\ steps[k].status = "open") =>
             \/ threads[k.thread].state = "running" /\ k.hash = threads[k.thread].hash
             \/ \E a \in work : a.key = k /\ a.at = "close" /\ a.outcome \in GaveUp
    /\ \A a \in work : (Spoken(a.key) /\ Unsettled(a.key.thread)) =>
          /\ a.at = "close" => a.outcome \in GaveUp
          /\ a.at # "failStep"
    /\ \A k \in DOMAIN steps :
          (Spoken(k) /\ Unsettled(k.thread)) =>
             \/ steps[k].status = "open"
             \/ steps[k].status = "complete" /\ steps[k].result \in GaveUp
Alone == Undisturbed => Single /\ Working /\ Held

IInv == TypeOK /\ Keyed /\ Chosen /\ Asked /\ Stands /\ Answered /\ Found /\ Alone

-----------------------------------------------------------------------------
(* Bounds and reservations.                                                *)

\* What using a bound leaves of the counters.
LEMMA SpendIs ==
    ASSUME NEW c \in Counters, NEW bound, spent \in [Counters -> Nat], Spend(c, bound)
    PROVE  /\ spent' \in [Counters -> Nat]
           /\ spent'[c] > 0
           /\ \A d \in Counters : spent'[d] >= spent[d]
  <1>1. spent[c] \in Nat /\ \A d \in Counters : spent[d] \in Nat  OBVIOUS
  <1>2. spent' = [spent EXCEPT ![c] = spent[c] + 1]  BY DEF Spend
  <1>3. spent' \in [Counters -> Nat]  BY <1>1, <1>2
  <1>4. spent'[c] = spent[c] + 1  BY <1>2
  <1>5. \A d \in Counters : d # c => spent'[d] = spent[d]  BY <1>2
  <1>. QED  BY <1>1, <1>3, <1>4, <1>5

\* The counters by name.
LEMMA CounterNames ==
    {"mail", "edits", "faults", "revocations", "boots"} \subseteq Counters
  BY DEF Counters

Grown == spent' \in [Counters -> Nat] /\ \A d \in Counters : spent'[d] >= spent[d]

\* An action that uses no bound.
LEMMA SameGrown == ASSUME spent \in [Counters -> Nat], UNCHANGED spent PROVE Grown
  BY DEF Grown

\* The current definitions are a hash.
LEMMA HashIs == ASSUME TypeOK PROVE CurrentHash \in Hash
  <1>1. \A l \in Label : definitions[l].version \in 1 .. MaxDefinition
    BY DEF TypeOK, Definition
  <1>. QED  BY <1>1 DEF CurrentHash, Hash

\* What a reservation leaves of a thread and of its steps.
Advances(t) ==
    /\ assignment[t].source # "user"
    /\ \/ /\ threads'[t].version = threads[t].version + 1
          /\ threads'[t].state \in {"not_requested", "pending", "running"}
       \/ /\ threads'[t].version = threads[t].version
          /\ threads[t].state \in {"not_requested", "pending"}
          /\ threads'[t].state = "running"
    /\ threads'[t].state = "running" =>
          KeyOf(t, threads'[t]) \in DOMAIN steps' /\ threads'[t].after # -1
Reserves ==
    /\ threads' \in [Thread -> ThreadRecord]
    /\ DOMAIN steps' \subseteq Key /\ \A k \in DOMAIN steps' : steps'[k] \in Step
    /\ \A t \in Thread : threads'[t] = threads[t] \/ Advances(t)
    /\ DOMAIN steps \subseteq DOMAIN steps'
    /\ \A k \in DOMAIN steps : steps'[k] = steps[k]
    /\ \A k \in DOMAIN steps' \ DOMAIN steps :
          /\ steps'[k].status = "open" /\ steps'[k].result = "none"
          /\ k.version = threads'[k.thread].version /\ k.hash = threads'[k.thread].hash
          /\ threads'[k.thread].state = "running"

\* A thread as a transaction leaves it before it reserves.
Left(t, thread) ==
    \/ thread = threads[t]
    \/ /\ assignment[t].source # "user"
       /\ thread.version = threads[t].version + 1
       /\ thread.state \in {"not_requested", "pending"}

\* A reservation moves only threads that await a label, and admits their steps.
LEMMA EnqueueReserves ==
    ASSUME TypeOK, NEW C \in SUBSET Thread, NEW left \in [Thread -> ThreadRecord], NEW box,
           NEW after \in Nat, \A t \in Thread : Left(t, left[t]), EnqueueLive(C, left, box, after)
    PROVE  Reserves
  <1>0. threads \in [Thread -> ThreadRecord] /\ CurrentHash \in Hash
    BY HashIs DEF TypeOK
  <1>. DEFINE taken == {t \in C : MayReserve(t, left[t], box, after)}
              keys == {KeyOf(t, Reserved(left[t], after)) : t \in taken}
  <1>1. /\ threads' = [t \in Thread |-> IF t \in taken THEN Reserved(left[t], after) ELSE left[t]]
        /\ Admit(keys)
    BY DEF EnqueueLive
  <1>2. taken \subseteq Thread  OBVIOUS
  <1>3. \A t \in taken : /\ left[t].state \in {"pending", "not_requested"}
                         /\ assignment[t].source # "user"
    BY DEF MayReserve, AutomaticAllowed
  <1>4. \A t \in Thread : left[t] \in ThreadRecord  OBVIOUS
  <1>5. \A r \in ThreadRecord : /\ Reserved(r, after) \in ThreadRecord
                                /\ Reserved(r, after).version = r.version
                                /\ Reserved(r, after).state = "running"
                                /\ Reserved(r, after).hash = CurrentHash
                                /\ Reserved(r, after).after = after
    BY <1>0 DEF Reserved, ThreadRecord
  <1>6. \A t \in Thread : \A r \in ThreadRecord : KeyOf(t, r) \in Key
    BY DEF KeyOf, Key, ThreadRecord
  <1>. HIDE DEF taken
  <1>7. \A t \in taken : threads'[t] = Reserved(left[t], after)  BY <1>1, <1>2
  <1>8. \A t \in Thread \ taken : threads'[t] = left[t]  BY <1>1
  <1>9. threads' \in [Thread -> ThreadRecord]  BY <1>1, <1>2, <1>4, <1>5
  <1>10. keys \subseteq Key  BY <1>2, <1>4, <1>5, <1>6
  <1>11. \A t \in taken : KeyOf(t, threads'[t]) \in keys  BY <1>7
  <1>. DEFINE fresh == [status |-> "open", tries |-> 0, result |-> "none"]
  <1>12. /\ DOMAIN steps' = DOMAIN steps \union keys
         /\ \A k \in DOMAIN steps : steps'[k] = steps[k]
         /\ \A k \in keys \ DOMAIN steps : steps'[k] = fresh
    BY <1>1 DEF Admit
  <1>13. fresh \in Step  BY LabelsAssumption DEF Step, Outcome
  <1>14. DOMAIN steps' \subseteq Key /\ \A k \in DOMAIN steps' : steps'[k] \in Step
    <2>. HIDE DEF keys, fresh
    <2>. QED  BY <1>10, <1>12, <1>13 DEF TypeOK
  <1>15. ASSUME NEW t \in Thread PROVE threads'[t] = threads[t] \/ Advances(t)
    <2>1. CASE t \in taken
      <3>1. /\ threads'[t].version = left[t].version /\ threads'[t].state = "running"
            /\ threads'[t].after # -1
        BY <2>1, <1>4, <1>5, <1>7
      <3>2. KeyOf(t, threads'[t]) \in DOMAIN steps'  BY <2>1, <1>11, <1>12
      <3>3. assignment[t].source # "user" /\ left[t].state \in {"pending", "not_requested"}
        BY <2>1, <1>3
      <3>4. \/ left[t].version = threads[t].version + 1
            \/ left[t].version = threads[t].version /\ threads[t].state \in {"not_requested", "pending"}
        BY <3>3 DEF Left
      <3>. QED  BY <3>1, <3>2, <3>3, <3>4 DEF Advances
    <2>2. CASE t \notin taken
      <3>1. threads'[t] = left[t]  BY <2>2, <1>8
      <3>. QED  BY <3>1 DEF Left, Advances
    <2>. QED  BY <2>1, <2>2
  <1>16. ASSUME NEW k \in DOMAIN steps' \ DOMAIN steps
         PROVE  /\ steps'[k].status = "open" /\ steps'[k].result = "none"
                /\ k.version = threads'[k.thread].version /\ k.hash = threads'[k.thread].hash
                /\ threads'[k.thread].state = "running"
    <2>1. k \in keys  BY <1>12
    <2>2. PICK t \in taken : k = KeyOf(t, Reserved(left[t], after))  BY <2>1
    <2>3. k.thread = t /\ k.version = threads'[t].version /\ k.hash = threads'[t].hash
      BY <2>2, <1>7 DEF KeyOf
    <2>4. threads'[t].state = "running"  BY <1>2, <1>4, <1>5, <1>7
    <2>. QED  BY <1>12, <2>1, <2>3, <2>4
  <1>. QED  BY <1>9, <1>12, <1>14, <1>15, <1>16 DEF Reserves

-----------------------------------------------------------------------------
(* What the transactions that reserve do.                                  *)

\* A thread that starts over is one a transaction may leave.
LEMMA RestartedIs ==
    ASSUME TypeOK, NEW t \in Thread, VersionLeft(t)
    PROVE  /\ StartOver(t) \in [Thread -> ThreadRecord]
           /\ assignment[t].source # "user" =>
                 \A u \in Thread : Left(u, StartOver(t)[u])
  <1>1. threads \in [Thread -> ThreadRecord] /\ threads[t] \in ThreadRecord
    BY DEF TypeOK
  <1>2. threads[t].version + 1 \in 1 .. MaxVersion
    BY <1>1, LabelsAssumption DEF VersionLeft, ThreadRecord
  <1>3. /\ Restarted(threads[t]) \in ThreadRecord
        /\ Restarted(threads[t]).version = threads[t].version + 1
        /\ Restarted(threads[t]).state = "not_requested"
    BY <1>1, <1>2 DEF Restarted, ThreadRecord
  <1>4. \A u \in Thread : StartOver(t)[u] = IF u = t THEN Restarted(threads[t]) ELSE threads[u]
    BY <1>1 DEF StartOver
  <1>5. StartOver(t) \in [Thread -> ThreadRecord]  BY <1>1, <1>3 DEF StartOver
  <1>. QED  BY <1>3, <1>4, <1>5 DEF Left

\* Every use of a bound lets the counters grow.
LEMMA SpendGrows ==
    ASSUME spent \in [Counters -> Nat]
    PROVE  /\ \A bound : Spend("mail", bound) => Grown
           /\ \A bound : Spend("edits", bound) => Grown
           /\ \A bound : Spend("faults", bound) => Grown /\ spent'["faults"] > 0
           /\ \A bound : Spend("revocations", bound) => Grown /\ spent'["revocations"] > 0
           /\ \A bound : Spend("boots", bound) => Grown
  BY SpendIs, CounterNames DEF Grown

\* New mail.
LEMMA ReceiveIs ==
    ASSUME TypeOK, NEW m \in Message, Receive(m)
    PROVE  /\ Reserves /\ Grown
           /\ inbox' \subseteq Message /\ away' \subseteq Message
           /\ UNCHANGED <<connected, definitions, cutoff, assignment, work, scan, offered>>
  <1>. DEFINE t == ThreadOf[m]
  <1>1. t \in Thread  BY LabelsAssumption
  <1>2. VersionLeft(t) /\ inbox' \subseteq Message /\ away' \subseteq Message
    BY DEF Receive, TypeOK
  <1>3. PICK left : left = IF InInbox(inbox', t) /\ AutomaticAllowed(t) THEN StartOver(t) ELSE threads
    OBVIOUS
  <1>4. PICK box : box = inbox'  OBVIOUS
  <1>5. PICK after : after = cutoff  OBVIOUS
  <1>6. PICK C : C = {t}  OBVIOUS
  <1>7. EnqueueLive(C, left, box, after)  BY <1>3, <1>4, <1>5, <1>6 DEF Receive
  <1>8. left \in [Thread -> ThreadRecord] /\ \A u \in Thread : Left(u, left[u])
    BY <1>1, <1>2, <1>3, RestartedIs DEF TypeOK, AutomaticAllowed, Left
  <1>9. Reserves  BY <1>1, <1>5, <1>6, <1>7, <1>8, EnqueueReserves DEF TypeOK
  <1>10. Grown  BY SpendGrows DEF Receive, TypeOK
  <1>. QED  BY <1>2, <1>9, <1>10 DEF Receive

\* A change of labels.
LEMMA RelabelIs ==
    ASSUME TypeOK, NEW m \in Message, NEW resync \in BOOLEAN, Relabel(m, resync)
    PROVE  /\ Reserves /\ Grown
           /\ inbox' \subseteq Message /\ away' \subseteq Message
           /\ UNCHANGED <<connected, definitions, cutoff, assignment, work, scan, offered>>
  <1>. DEFINE t == ThreadOf[m]
              box0 == IF m \in inbox THEN inbox \ {m} ELSE inbox \union {m}
              enters == ~InInbox(inbox, t) /\ InInbox(box0, t)
  <1>1. t \in Thread  BY LabelsAssumption
  <1>2. VersionLeft(t) /\ inbox' \subseteq Message /\ away' \subseteq Message
    BY DEF Relabel, TypeOK
  <1>3. PICK left : left = IF enters /\ (\/ assignment[t].source = "none"
                                         \/ resync /\ AutomaticAllowed(t))
                           THEN StartOver(t) ELSE threads
    OBVIOUS
  <1>4. PICK box : box = box0  OBVIOUS
  <1>5. PICK after : after = cutoff  OBVIOUS
  <1>6. PICK C : C = {t}  OBVIOUS
  <1>7. EnqueueLive(C, left, box, after)  BY <1>3, <1>4, <1>5, <1>6 DEF Relabel
  <1>8. left \in [Thread -> ThreadRecord] /\ \A u \in Thread : Left(u, left[u])
    <2>1. left = threads \/ (left = StartOver(t) /\ assignment[t].source # "user")
      BY <1>3 DEF AutomaticAllowed
    <2>. QED  BY <1>1, <1>2, <2>1, RestartedIs DEF TypeOK, Left
  <1>9. Reserves  BY <1>1, <1>5, <1>6, <1>7, <1>8, EnqueueReserves DEF TypeOK
  <1>10. Grown  BY SpendGrows DEF Relabel, TypeOK
  <1>. QED  BY <1>2, <1>9, <1>10 DEF Relabel

\* A page of the scan.
LEMMA PageIs ==
    ASSUME TypeOK, ScanPage
    PROVE  /\ Reserves /\ Grown /\ scan' \in Scan
           /\ UNCHANGED <<connected, definitions, inbox, away, cutoff, assignment, work, offered>>
  <1>. DEFINE found == {t \in Thread : /\ t > scan.cursor
                                       /\ threads[t].state \in {"pending", "not_requested"}
                                       /\ Recent(inbox, t, scan.reference)}
              page == {t \in found : Cardinality({u \in found : u < t}) < PageSize}
              last == {t \in page : \A u \in page : u <= t}
  <1>1. scan.reference \in Nat  BY DEF TypeOK, Scan
  <1>2. PICK after : after = scan.reference  OBVIOUS
  <1>3. PICK left : left = threads  OBVIOUS
  <1>4. PICK box : box = inbox  OBVIOUS
  <1>5. PICK C : C = page  OBVIOUS
  <1>6. page \subseteq Thread  OBVIOUS
  <1>7. EnqueueLive(C, left, box, after)  BY <1>2, <1>3, <1>4, <1>5 DEF ScanPage
  <1>8. Reserves
    <2>. HIDE DEF page
    <2>. QED  BY <1>1, <1>2, <1>3, <1>5, <1>6, <1>7, EnqueueReserves DEF TypeOK, Left
  <1>9. Grown /\ scan' \in Scan
    <2>1. CASE scan' = scan /\ Spend("faults", MaxFaults)
      BY <2>1, SpendGrows DEF TypeOK
    <2>2. CASE /\ \E next \in IF found = page THEN {0} ELSE last :
                     scan' = [scan EXCEPT !.at = "decide", !.next = next]
               /\ UNCHANGED spent
      <3>1. PICK next \in IF found = page THEN {0} ELSE last :
                     scan' = [scan EXCEPT !.at = "decide", !.next = next]
        BY <2>2
      <3>2. next \in Nat
        <4>1. last \subseteq Thread  BY <1>6
        <4>. HIDE DEF found, page, last
        <4>. QED  BY <3>1, <4>1, LabelsAssumption DEF Thread
      <3>3. scan' \in Scan  BY <3>1, <3>2 DEF TypeOK, Scan
      <3>. QED  BY <2>2, <3>3, SameGrown DEF TypeOK
    <2>. QED  BY <2>1, <2>2 DEF ScanPage
  <1>. QED  BY <1>8, <1>9 DEF ScanPage, ScanFrame

\* The thread has changed since the attempt's definitions.
LEMMA RequeueIs ==
    ASSUME TypeOK, NEW t \in Thread, assignment[t].source # "user", threads[t].after # -1,
           Requeue(t)
    PROVE  Reserves /\ threads'[t].version > threads[t].version
  <1>1. PICK left : left = [threads EXCEPT ![t].state = "pending", ![t].version = threads[t].version + 1]
    OBVIOUS
  <1>2. PICK after : after = threads[t].after  OBVIOUS
  <1>3. PICK box : box = inbox  OBVIOUS
  <1>4. PICK C : C = {t}  OBVIOUS
  <1>5. threads \in [Thread -> ThreadRecord] /\ threads[t] \in ThreadRecord
    BY DEF TypeOK
  <1>6. threads[t].version \in Nat /\ threads[t].version + 1 \in 1 .. MaxVersion /\ after \in Nat
    BY <1>2, <1>5, LabelsAssumption DEF Requeue, VersionLeft, ThreadRecord
  <1>7. PICK v : v = threads[t].version + 1  OBVIOUS
  <1>8. PICK r : r = [threads[t] EXCEPT !.state = "pending", !.version = v]
    OBVIOUS
  <1>9. r \in ThreadRecord /\ r.version = v /\ r.state = "pending"
    BY <1>5, <1>6, <1>7, <1>8 DEF ThreadRecord
  <1>10. left = [threads EXCEPT ![t] = r]
    BY <1>1, <1>5, <1>7, <1>8 DEF ThreadRecord
  <1>11. left \in [Thread -> ThreadRecord] /\ left[t] = r
         /\ \A u \in Thread : u # t => left[u] = threads[u]
    BY <1>5, <1>9, <1>10
  <1>12. \A u \in Thread : Left(u, left[u])  BY <1>7, <1>9, <1>11 DEF Left
  <1>13. EnqueueLive(C, left, box, after)  BY <1>1, <1>2, <1>3, <1>4 DEF Requeue
  <1>14. Reserves  BY <1>4, <1>6, <1>11, <1>12, <1>13, EnqueueReserves
  <1>15. threads'[t].version = v
    <2>1. \/ threads'[t] = left[t] \/ threads'[t] = Reserved(left[t], after)
      BY <1>13 DEF EnqueueLive
    <2>2. Reserved(r, after).version = v  BY <1>9 DEF Reserved, ThreadRecord
    <2>. QED  BY <1>9, <1>11, <2>1, <2>2
  <1>. QED  BY <1>6, <1>7, <1>14, <1>15

\* The types of what is stored, one by one.
LEMMA ThreadsOf ==
    ASSUME TypeOK
    PROVE  /\ \A a \in work : a.key.thread \in Thread /\ a.key \in Key /\ a \in Attempt
           /\ \A k \in DOMAIN steps : k.thread \in Thread /\ k \in Key /\ steps[k] \in Step
           /\ \A t \in Thread : threads[t] \in ThreadRecord /\ assignment[t] \in Assignment
  BY DEF TypeOK, Attempt, Key

\* The first state has its type.
LEMMA InitTyped == Init => TypeOK
  <1>1. SUFFICES ASSUME Init PROVE TypeOK  OBVIOUS
  <1>2. 1 \in 1 .. MaxVersion /\ 1 \in 1 .. MaxDefinition /\ 0 \in 0 .. MaxDefinition
    BY LabelsAssumption
  <1>3. definitions \in [Label -> Definition]
    BY <1>1, <1>2 DEF Init, Definition
  <1>4. threads \in [Thread -> ThreadRecord]
    BY <1>1, <1>2 DEF Init, ThreadRecord, Hash
  <1>5. assignment \in [Thread -> Assignment]
    BY <1>1, <1>2 DEF Init, Assignment
  <1>6. DOMAIN steps = {} /\ work = {}  BY <1>1 DEF Init
  <1>7. scan \in Scan  BY <1>1 DEF Init, Scan
  <1>8. inbox \subseteq Message /\ away \subseteq Message  BY <1>1 DEF Init
  <1>. QED  BY <1>1, <1>3, <1>4, <1>5, <1>6, <1>7, <1>8 DEF Init, TypeOK

\* EndsEarly, one line for each of its answers.
Ends(a, o) ==
    /\ o \in Outcome \ {"none", "complete", "failed"}
    /\ work' = (work \ {a}) \union {[a EXCEPT !.at = "close", !.outcome = o]}
\* The five ways in which an attempt ends early.
LEMMA EndsEarlyIs ==
    ASSUME TypeOK, NEW a \in work, NEW ineligible \in {"ineligible", "superseded"},
           EndsEarly(a, ineligible)
    PROVE  \/ ~connected /\ Ends(a, "missing") /\ UNCHANGED <<threads, steps>>
           \/ ~Spoken(a.key) /\ Ends(a, "superseded") /\ UNCHANGED <<threads, steps>>
           \/ /\ Ends(a, "resolved") /\ UNCHANGED <<threads, steps>>
              /\ \/ assignment[a.key.thread].source = "user"
                 \/ threads[a.key.thread].state # "running"
                 \/ threads[a.key.thread].after = -1
           \/ /\ Ends(a, "superseded") /\ Reserves
              /\ assignment[a.key.thread].source # "user"
              /\ a.key.version = threads[a.key.thread].version
              /\ threads'[a.key.thread].version > threads[a.key.thread].version
           \/ /\ Ends(a, ineligible) /\ Unrequested(a.key.thread) /\ UNCHANGED steps
              /\ assignment[a.key.thread].source # "user"
              /\ threads[a.key.thread].state = "running" /\ Spoken(a.key)
  <1>. DEFINE t == a.key.thread
  <1>1. t \in Thread  BY ThreadsOf
  <1>2. {"missing", "superseded", "resolved", "ineligible"} \subseteq Outcome \ {"none", "complete", "failed"}
    BY DEF Outcome
  <1>3. CASE ~connected /\ Closes(a, "missing") /\ UNCHANGED <<threads, steps>>
    BY <1>2, <1>3 DEF Closes, Ends
  <1>4. CASE ~Matches(threads[t], a) /\ Closes(a, "superseded") /\ UNCHANGED <<threads, steps>>
    BY <1>2, <1>4 DEF Closes, Ends, Matches, Spoken
  <1>5. CASE /\ Closes(a, "resolved") /\ UNCHANGED <<threads, steps>>
             /\ ~(Matches(threads[t], a) /\ AutomaticAllowed(t)
                   /\ threads[t].state = "running" /\ threads[t].after # -1)
             /\ Matches(threads[t], a)
    BY <1>2, <1>5 DEF Closes, Ends, AutomaticAllowed
  <1>6. CASE /\ Closes(a, "superseded") /\ Requeue(t)
             /\ Matches(threads[t], a) /\ AutomaticAllowed(t) /\ threads[t].after # -1
    BY <1>1, <1>2, <1>6, RequeueIs DEF Closes, Ends, Matches, AutomaticAllowed
  <1>7. CASE /\ Closes(a, ineligible) /\ Unrequested(t) /\ UNCHANGED steps
             /\ Matches(threads[t], a) /\ AutomaticAllowed(t) /\ threads[t].state = "running"
    BY <1>2, <1>7 DEF Closes, Ends, Matches, AutomaticAllowed, Spoken
  <1>. QED  BY <1>3, <1>4, <1>5, <1>6, <1>7 DEF EndsEarly

\* A thread whose recent mail has left the inbox.
LEMMA UnrequestedIs ==
    ASSUME TypeOK, NEW t \in Thread, Unrequested(t)
    PROVE  /\ threads' \in [Thread -> ThreadRecord]
           /\ threads'[t].state = "not_requested" /\ threads'[t].version = threads[t].version
           /\ \A u \in Thread : u # t => threads'[u] = threads[u]
  <1>1. threads \in [Thread -> ThreadRecord] /\ threads[t] \in ThreadRecord
    BY DEF TypeOK
  <1>2. PICK r : r = [threads[t] EXCEPT !.state = "not_requested", !.after = -1]
    OBVIOUS
  <1>3. r \in ThreadRecord /\ r.state = "not_requested" /\ r.version = threads[t].version
    BY <1>1, <1>2 DEF ThreadRecord
  <1>4. threads' = [threads EXCEPT ![t] = r]
    BY <1>1, <1>2 DEF Unrequested, ThreadRecord
  <1>. QED  BY <1>1, <1>3, <1>4

\* A thread that is labelled or has failed.
SettledAs(t, state) ==
    /\ threads' \in [Thread -> ThreadRecord]
    /\ threads'[t].state = state /\ threads'[t].version = threads[t].version
    /\ \A u \in Thread : u # t => threads'[u] = threads[u]
\* A thread that is labelled or fails.
LEMMA SettlesIs ==
    ASSUME TypeOK, NEW t \in Thread
    PROVE  /\ \A state \in {"complete", "failed"} :
                 threads' = [threads EXCEPT ![t].state = state] => SettledAs(t, state)
           /\ threads' = [threads EXCEPT ![t].state = "complete", ![t].hash = CurrentHash]
                 => SettledAs(t, "complete")
  <1>1. threads \in [Thread -> ThreadRecord] /\ threads[t] \in ThreadRecord /\ CurrentHash \in Hash
    BY HashIs DEF TypeOK
  <1>2. ASSUME NEW state \in {"complete", "failed"}, threads' = [threads EXCEPT ![t].state = state]
        PROVE  SettledAs(t, state)
    <2>1. PICK r : r = [threads[t] EXCEPT !.state = state]  OBVIOUS
    <2>2. r \in ThreadRecord /\ r.state = state /\ r.version = threads[t].version
      BY <1>1, <2>1 DEF ThreadRecord
    <2>3. threads' = [threads EXCEPT ![t] = r]
      BY <1>1, <1>2, <2>1 DEF ThreadRecord
    <2>. QED  BY <1>1, <2>2, <2>3 DEF SettledAs
  <1>3. ASSUME threads' = [threads EXCEPT ![t].state = "complete", ![t].hash = CurrentHash]
        PROVE  SettledAs(t, "complete")
    <2>1. PICK h : h = CurrentHash  OBVIOUS
    <2>2. PICK r : r = [threads[t] EXCEPT !.state = "complete", !.hash = h]
      OBVIOUS
    <2>3. r \in ThreadRecord /\ r.state = "complete" /\ r.version = threads[t].version
      BY <1>1, <2>1, <2>2 DEF ThreadRecord
    <2>4. threads' = [threads EXCEPT ![t] = r]
      BY <1>1, <1>3, <2>1, <2>2 DEF ThreadRecord
    <2>. QED  BY <1>1, <2>3, <2>4 DEF SettledAs
  <1>. QED  BY <1>2, <1>3

\* failThreadLabelAnalysis writes the thread it still holds, or nothing.
LEMMA FailThreadIs ==
    ASSUME TypeOK, NEW a \in work, FailThread(a)
    PROVE  LET t == a.key.thread
           IN \/ /\ threads' = threads
                 /\ \/ ~connected \/ ~Spoken(a.key) \/ threads[t].hash # a.key.hash
                    \/ threads[t].state # "running" \/ assignment[t].source = "user"
              \/ SettledAs(t, "failed") /\ assignment[t].source # "user"
                   /\ threads[t].state = "running"
  <1>. DEFINE t == a.key.thread
  <1>1. t \in Thread  BY ThreadsOf
  <1>2. CASE /\ connected /\ Matches(threads[t], a) /\ threads[t].hash = a.key.hash
             /\ threads[t].state = "running" /\ AutomaticAllowed(t)
    <2>1. threads' = [threads EXCEPT ![t].state = "failed"]
      BY <1>2 DEF FailThread
    <2>2. SettledAs(t, "failed")  BY <1>1, <2>1, SettlesIs
    <2>. QED  BY <1>2, <2>2 DEF AutomaticAllowed
  <1>3. CASE ~(/\ connected /\ Matches(threads[t], a) /\ threads[t].hash = a.key.hash
               /\ threads[t].state = "running" /\ AutomaticAllowed(t))
    BY <1>3 DEF FailThread, Matches, AutomaticAllowed, Spoken
  <1>. QED  BY <1>2, <1>3

-----------------------------------------------------------------------------
(* The kinds of steps, and the kind of every action.                       *)

\* What a step does, as far as the invariant is concerned.
Idle ==
    /\ UNCHANGED <<threads, assignment, steps, work>>
    /\ connected' = connected \/ connected' = TRUE \/ spent'["revocations"] > 0
Files == Reserves /\ UNCHANGED <<connected, assignment, work>>
Decides(t) ==
    /\ SettledAs(t, "complete") /\ assignment'[t].source = "user"
    /\ \A u \in Thread : u # t => assignment'[u] = assignment[u]
    /\ UNCHANGED <<connected, steps, work>>
Starts(k, b) ==
    /\ steps[k].status = "open"
    /\ DOMAIN steps' = DOMAIN steps
    /\ \A j \in DOMAIN steps : steps'[j].status = steps[j].status /\ steps'[j].result = steps[j].result
    /\ b.key = k /\ b.at \in {"begin", "fail"} /\ b.label = Others /\ b.outcome = "none"
    /\ work' = work \union {b}
    /\ (\E a \in work : a.key = k) => spent'["faults"] > 0
    /\ UNCHANGED <<connected, threads, assignment>>
Goes(a, B) ==
    /\ work' = (work \ {a}) \union B
    /\ \A b \in B :
          /\ b.key = a.key /\ b.at \notin {"close", "failStep"} /\ b.outcome = a.outcome
          /\ \/ b.label \in {Others, a.label}
             \/ \E v \in 1 .. MaxDefinition : <<b.label, v>> \in a.key.hash
    /\ \A b, c \in B : b = c
    /\ a.at \in {"close", "failStep"} => spent'["faults"] > 0
    /\ UNCHANGED <<connected, threads, assignment, steps>>
Reports(a, b) ==
    /\ b.key = a.key /\ b.at = "close" /\ b.label = a.label
    /\ work' = (work \ {a}) \union {b}
    /\ connected' = connected
Stops(a, b) ==
    /\ Reports(a, b) /\ UNCHANGED <<threads, assignment, steps>>
    /\ a.at \in {"begin", "apply"}
    /\ \/ b.outcome = "missing" /\ ~connected
       \/ b.outcome = "superseded" /\ ~Spoken(a.key)
       \/ /\ b.outcome = "resolved"
          /\ \/ assignment[a.key.thread].source = "user"
             \/ threads[a.key.thread].state # "running"
             \/ threads[a.key.thread].after = -1
Requeues(a, b) ==
    /\ Reports(a, b) /\ Reserves /\ UNCHANGED assignment
    /\ a.at \in {"begin", "apply"}
    /\ b.outcome = "superseded"
    /\ a.key.version = threads[a.key.thread].version
    /\ threads'[a.key.thread].version > threads[a.key.thread].version
Unrequests(a, b) ==
    /\ Reports(a, b) /\ UNCHANGED <<steps, assignment>>
    /\ a.at \in {"begin", "apply"}
    /\ b.outcome \in GaveUp
    /\ Spoken(a.key) /\ threads[a.key.thread].state = "running"
    /\ assignment[a.key.thread].source # "user"
    /\ SettledAs(a.key.thread, "not_requested")
Applies(a, b) ==
    /\ Reports(a, b) /\ UNCHANGED steps
    /\ a.at = "apply" /\ b.outcome = "complete"
    /\ SettledAs(a.key.thread, "complete")
    /\ \A u \in Thread : u # a.key.thread => assignment'[u] = assignment[u]
    /\ assignment[a.key.thread].source # "user"
    /\ assignment'[a.key.thread].source = "ai" /\ assignment'[a.key.thread].label = a.label
    /\ a.label # Others => assignment'[a.key.thread].version = definitions[a.label].version
    /\ Spoken(a.key) /\ a.key.hash = CurrentHash
Fails(a, b) ==
    /\ b.key = a.key /\ b.label = a.label
    /\ work' = (work \ {a}) \union {b}
    /\ a.at \in {"begin", "fail"}
    /\ \/ b.at = "close" /\ b.outcome = "failed"
       \/ b.at = "failStep" /\ b.outcome = a.outcome
    /\ UNCHANGED <<connected, assignment, steps>>
    /\ \/ /\ UNCHANGED threads
          /\ \/ ~connected \/ ~Spoken(a.key) \/ threads[a.key.thread].hash # a.key.hash
             \/ threads[a.key.thread].state # "running" \/ assignment[a.key.thread].source = "user"
       \/ /\ SettledAs(a.key.thread, "failed")
          /\ assignment[a.key.thread].source # "user" /\ threads[a.key.thread].state = "running"
Shuts(a) ==
    /\ work' = work \ {a}
    /\ DOMAIN steps' = DOMAIN steps
    /\ \A k \in DOMAIN steps : k # a.key => steps'[k] = steps[k]
    /\ \/ steps'[a.key] = steps[a.key] /\ steps[a.key].status # "open"
       \/ a.at = "close" /\ steps'[a.key].status = "complete" /\ steps'[a.key].result = a.outcome
       \/ /\ a.at = "failStep"
          /\ steps'[a.key].status = "failed" /\ steps'[a.key].result = steps[a.key].result
    /\ UNCHANGED <<connected, threads, assignment>>
Attempts(a) ==
    \/ \E B : Goes(a, B)
    \/ \E b : Stops(a, b) \/ Requeues(a, b) \/ Unrequests(a, b) \/ Applies(a, b) \/ Fails(a, b)
    \/ Shuts(a)
Kind ==
    /\ Grown
    /\ \/ Idle \/ Files
       \/ \E t \in Thread : Decides(t)
       \/ \E k \in DOMAIN steps : \E b : Starts(k, b)
       \/ \E a \in work : Attempts(a)

\* What the user, the account, the clock and the scan do beside the threads.
LEMMA IdleIs ==
    ASSUME TypeOK,
           (\E l \in Label : EditLabel(l)) \/ DayPasses \/ RevokeGrant \/ Reconnect \/ Boot
             \/ DispatchScan \/ ScanDecide \/ UNCHANGED vars
    PROVE  TypeOK' /\ Kind
  <1>. USE DEF TypeOK, Kind, Idle
  <1>0. TypeOK  OBVIOUS
  <1>1. ASSUME NEW l \in Label, EditLabel(l) PROVE TypeOK' /\ Kind
    <2>1. definitions' \in [Label -> Definition]
      <3>0. definitions \in [Label -> Definition] /\ definitions[l] \in Definition
        OBVIOUS
      <3>1. CASE /\ definitions[l].version < MaxDefinition
                 /\ definitions' = [definitions EXCEPT ![l].version = definitions[l].version + 1]
        <4>1. definitions[l].version + 1 \in 1 .. MaxDefinition
          BY <3>0, <3>1, LabelsAssumption DEF Definition
        <4>2. PICK v \in 1 .. MaxDefinition : v = definitions[l].version + 1
          BY <4>1
        <4>3. PICK d : d = [definitions[l] EXCEPT !.version = v]  OBVIOUS
        <4>4. d \in Definition  BY <3>0, <4>2, <4>3 DEF Definition
        <4>5. definitions' = [definitions EXCEPT ![l] = d]
          BY <3>0, <3>1, <4>2, <4>3 DEF Definition
        <4>. QED  BY <3>0, <4>4, <4>5
      <3>2. CASE definitions' = [definitions EXCEPT ![l].enabled = ~definitions[l].enabled]
        <4>1. PICK e \in BOOLEAN : e = ~definitions[l].enabled
          BY <3>0, Zenon DEF Definition
        <4>2. definitions' = [definitions EXCEPT ![l].enabled = e]
          BY <3>2, <4>1
        <4>. QED  BY <3>0, <4>1, <4>2 DEF Definition
      <3>. QED  BY <1>1, <3>1, <3>2 DEF EditLabel
    <2>2. Grown  BY <1>1, SpendGrows DEF EditLabel
    <2>. QED  BY <1>1, <2>1, <2>2 DEF EditLabel, Grown
  <1>2. CASE DayPasses  BY <1>2, SameGrown DEF DayPasses
  <1>3. CASE RevokeGrant  BY <1>3, SpendGrows DEF RevokeGrant, Grown
  <1>4. CASE Reconnect  BY <1>4, SameGrown DEF Reconnect
  <1>5. CASE Boot  BY <1>5, SpendGrows DEF Boot, ScanFrame, Grown
  <1>6. CASE DispatchScan
    <2>1. scan' \in Scan  BY <1>6 DEF DispatchScan, SignalScan, Scan
    <2>. QED  BY <1>6, <2>1, SameGrown DEF DispatchScan, ScanFrame
  <1>7. CASE ScanDecide
    <2>1. scan' \in Scan  BY <1>7 DEF ScanDecide, Scan
    <2>. QED  BY <1>7, <2>1, SameGrown DEF ScanDecide, ScanFrame
  <1>8. CASE UNCHANGED vars  BY <1>8, SameGrown DEF vars
  <1>. QED  BY <1>1, <1>2, <1>3, <1>4, <1>5, <1>6, <1>7, <1>8

\* Mail and pages of the scan reserve.
LEMMA FilesIs ==
    ASSUME TypeOK, (\E m \in Message : Receive(m) \/ Relabel(m, TRUE) \/ Relabel(m, FALSE)) \/ ScanPage
    PROVE  TypeOK' /\ Kind
  <1>1. ASSUME NEW m \in Message, Receive(m) PROVE TypeOK' /\ Kind
    BY <1>1, ReceiveIs DEF TypeOK, Kind, Files, Reserves, Grown
  <1>2. ASSUME NEW m \in Message, NEW r \in BOOLEAN, Relabel(m, r) PROVE TypeOK' /\ Kind
    BY <1>2, RelabelIs DEF TypeOK, Kind, Files, Reserves, Grown
  <1>3. CASE ScanPage  BY <1>3, PageIs DEF TypeOK, Kind, Files, Reserves, Grown
  <1>. QED  BY <1>1, <1>2, <1>3

\* The user chooses a label.
LEMMA DecidesIs ==
    ASSUME TypeOK, NEW t \in Thread, NEW l \in Label \union {Others}, SetUserLabel(t, l)
    PROVE  TypeOK' /\ Kind
  <1>1. PICK v : v = IF l = Others THEN 1 ELSE definitions[l].version  OBVIOUS
  <1>2. v \in 0 .. MaxDefinition
    BY <1>1, LabelsAssumption DEF TypeOK, Definition
  <1>3. PICK r : r = [source |-> "user", label |-> l, version |-> v]  OBVIOUS
  <1>4. r \in Assignment  BY <1>2, <1>3 DEF Assignment
  <1>5. assignment' = [assignment EXCEPT ![t] = r]
    BY <1>1, <1>3 DEF SetUserLabel
  <1>6. /\ assignment' \in [Thread -> Assignment] /\ assignment'[t] = r
        /\ \A u \in Thread : u # t => assignment'[u] = assignment[u]
    BY <1>4, <1>5 DEF TypeOK
  <1>7. SettledAs(t, "complete")  BY SettlesIs DEF SetUserLabel
  <1>8. Grown  BY SpendGrows DEF SetUserLabel, TypeOK
  <1>. QED  BY <1>3, <1>6, <1>7, <1>8 DEF SetUserLabel, TypeOK, Kind, Decides, SettledAs, Grown

\* An attempt starts.
LEMMA StartAttemptIs ==
    ASSUME TypeOK, NEW k \in DOMAIN steps, StartAttempt(k)
    PROVE  TypeOK' /\ Kind
  <1>1. k \in Key /\ steps[k] \in Step  BY DEF TypeOK
  <1>2. PICK n : n = steps[k].tries + 1  OBVIOUS
  <1>3. n \in 1 .. MaxAttempts /\ n \in 0 .. MaxAttempts
    BY <1>1, <1>2, LabelsAssumption DEF StartAttempt, MayRetry, Step
  <1>4. PICK s : s = [steps[k] EXCEPT !.tries = n]  OBVIOUS
  <1>5. s \in Step /\ s.status = steps[k].status /\ s.result = steps[k].result
    BY <1>1, <1>3, <1>4 DEF Step
  <1>6. steps' = [steps EXCEPT ![k] = s]  BY <1>2, <1>4 DEF StartAttempt
  <1>7. PICK b : b = [key |-> k, n |-> n, at |-> "begin", label |-> Others, outcome |-> "none"]
    OBVIOUS
  <1>8. b \in Attempt /\ b.key = k /\ b.at = "begin" /\ b.label = Others /\ b.outcome = "none"
    BY <1>1, <1>3, <1>7 DEF Attempt, Outcome
  <1>9. work' = work \union {b}  BY <1>2, <1>7 DEF StartAttempt
  <1>10. Grown /\ ((\E a \in work : a.key = k) => spent'["faults"] > 0)
    BY SameGrown, SpendGrows DEF StartAttempt, TypeOK
  <1>11. Starts(k, b)
    BY <1>5, <1>6, <1>8, <1>9, <1>10 DEF StartAttempt, AttemptFrame, Starts
  <1>12. DOMAIN steps' \subseteq Key /\ \A j \in DOMAIN steps' : steps'[j] \in Step
    BY <1>5, <1>6 DEF TypeOK
  <1>13. TypeOK'
    BY <1>8, <1>9, <1>10, <1>12 DEF TypeOK, StartAttempt, AttemptFrame, Grown
  <1>. QED  BY <1>10, <1>11, <1>13 DEF Kind

\* A step whose attempts are used up gets its last.
LEMMA ReconcileIs ==
    ASSUME TypeOK, NEW k \in DOMAIN steps, Reconcile(k)
    PROVE  TypeOK' /\ Kind
  <1>1. k \in Key /\ MaxAttempts \in 1 .. MaxAttempts
    BY LabelsAssumption DEF TypeOK
  <1>7. PICK b : b = [key |-> k, n |-> MaxAttempts, at |-> "fail", label |-> Others, outcome |-> "none"]
    OBVIOUS
  <1>8. b \in Attempt /\ b.key = k /\ b.at = "fail" /\ b.label = Others /\ b.outcome = "none"
    BY <1>1, <1>7 DEF Attempt, Outcome
  <1>9. work' = work \union {b}  BY <1>7 DEF Reconcile
  <1>10. Grown /\ ((\E a \in work : a.key = k) => spent'["faults"] > 0)
    BY SameGrown, SpendGrows DEF Reconcile, TypeOK
  <1>11. Starts(k, b)  BY <1>8, <1>9, <1>10 DEF Reconcile, AttemptFrame, Starts
  <1>13. TypeOK'
    BY <1>8, <1>9, <1>10 DEF TypeOK, Reconcile, AttemptFrame, Grown
  <1>. QED  BY <1>10, <1>11, <1>13 DEF Kind

\* An attempt that ends early is about to close its step.
LEMMA EndsReports ==
    ASSUME TypeOK, NEW a \in work, NEW o, Ends(a, o), connected' = connected
    PROVE  \E b : /\ Reports(a, b) /\ b \in Attempt /\ b.outcome = o
                  /\ work' \subseteq Attempt
  <1>1. a \in Attempt  BY DEF TypeOK
  <1>2. PICK b : b = [a EXCEPT !.at = "close", !.outcome = o]  OBVIOUS
  <1>3. b \in Attempt /\ b.key = a.key /\ b.at = "close" /\ b.label = a.label /\ b.outcome = o
    BY <1>1, <1>2 DEF Ends, Attempt
  <1>. QED  BY <1>2, <1>3 DEF Ends, Reports, TypeOK

\* An attempt ends early: it stops, starts the thread over or un-requests it.
LEMMA EndsEarlyKind ==
    ASSUME TypeOK, NEW a \in work, a.at \in {"begin", "apply"},
           NEW ineligible \in {"ineligible", "superseded"}, EndsEarly(a, ineligible),
           UNCHANGED <<assignment, spent>>, AttemptFrame
    PROVE  TypeOK' /\ Kind
  <1>. DEFINE t == a.key.thread
  <1>1. t \in Thread  BY ThreadsOf
  <1>2. Grown /\ connected' = connected  BY SameGrown DEF TypeOK, AttemptFrame
  <1>3. \A b : Stops(a, b) \/ Requeues(a, b) \/ Unrequests(a, b) => Kind
    BY <1>2 DEF Kind, Attempts
  <1>4. (/\ work' \subseteq Attempt /\ threads' \in [Thread -> ThreadRecord]
         /\ DOMAIN steps' \subseteq Key /\ \A k \in DOMAIN steps' : steps'[k] \in Step) => TypeOK'
    BY <1>2 DEF TypeOK, AttemptFrame, Grown
  <1>5. CASE ~connected /\ Ends(a, "missing") /\ UNCHANGED <<threads, steps>>
    <2>1. PICK b : Reports(a, b) /\ b.outcome = "missing" /\ work' \subseteq Attempt
      BY <1>2, <1>5, EndsReports
    <2>2. Stops(a, b)  BY <1>5, <2>1 DEF Stops
    <2>. QED  BY <1>3, <1>4, <1>5, <2>1, <2>2 DEF TypeOK
  <1>6. CASE ~Spoken(a.key) /\ Ends(a, "superseded") /\ UNCHANGED <<threads, steps>>
    <2>1. PICK b : Reports(a, b) /\ b.outcome = "superseded" /\ work' \subseteq Attempt
      BY <1>2, <1>6, EndsReports
    <2>2. Stops(a, b)  BY <1>6, <2>1 DEF Stops
    <2>. QED  BY <1>3, <1>4, <1>6, <2>1, <2>2 DEF TypeOK
  <1>7. CASE /\ Ends(a, "resolved") /\ UNCHANGED <<threads, steps>>
             /\ \/ assignment[t].source = "user" \/ threads[t].state # "running"
                \/ threads[t].after = -1
    <2>1. PICK b : Reports(a, b) /\ b.outcome = "resolved" /\ work' \subseteq Attempt
      BY <1>2, <1>7, EndsReports
    <2>2. Stops(a, b)  BY <1>7, <2>1 DEF Stops
    <2>. QED  BY <1>3, <1>4, <1>7, <2>1, <2>2 DEF TypeOK
  <1>8. CASE /\ Ends(a, "superseded") /\ Reserves
             /\ a.key.version = threads[t].version
             /\ threads'[t].version > threads[t].version
    <2>1. PICK b : Reports(a, b) /\ b.outcome = "superseded" /\ work' \subseteq Attempt
      BY <1>2, <1>8, EndsReports
    <2>2. Requeues(a, b)  BY <1>8, <2>1 DEF Requeues
    <2>. QED  BY <1>3, <1>4, <1>8, <2>1, <2>2 DEF Reserves
  <1>9. CASE /\ Ends(a, ineligible) /\ Unrequested(t) /\ UNCHANGED steps
             /\ assignment[t].source # "user"
             /\ threads[t].state = "running" /\ Spoken(a.key)
    <2>1. PICK b : Reports(a, b) /\ b.outcome = ineligible /\ work' \subseteq Attempt
      BY <1>2, <1>9, EndsReports
    <2>2. SettledAs(t, "not_requested")
      BY <1>1, <1>9, UnrequestedIs DEF SettledAs
    <2>3. Unrequests(a, b)  BY <1>9, <2>1, <2>2 DEF Unrequests, GaveUp
    <2>. QED  BY <1>3, <1>4, <1>9, <2>1, <2>2, <2>3 DEF TypeOK, SettledAs
  <1>. QED  BY <1>5, <1>6, <1>7, <1>8, <1>9, EndsEarlyIs

\* An attempt moves on, or is gone, and nothing else happens.
LEMMA GoesKind ==
    ASSUME TypeOK, NEW a \in work, NEW B \in SUBSET Attempt, Goes(a, B), Grown, AttemptFrame
    PROVE  TypeOK' /\ Kind
  <1>1. Kind  BY DEF Kind, Attempts
  <1>2. TypeOK'  BY DEF Goes, TypeOK, AttemptFrame, Grown
  <1>. QED  BY <1>1, <1>2

\* An attempt proceeds, is answered, fails or is lost.
LEMMA MovesOnIs ==
    ASSUME TypeOK, NEW a \in work,
           \/ Begin(a) /\ Proceeds(a) /\ Moves(a, "classify") /\ UNCHANGED <<threads, steps>>
           \/ Classify(a) \/ ModelFails(a) \/ Lose(a)
    PROVE  TypeOK' /\ Kind
  <1>0. a \in Attempt  BY DEF TypeOK
  <1>1. CASE \/ Begin(a) /\ Moves(a, "classify") /\ UNCHANGED <<threads, steps>>
             \/ ModelFails(a) /\ Moves(a, "fail")
    <2>1. PICK at \in {"classify", "fail"} : Moves(a, at) /\ UNCHANGED <<threads, steps>>
      BY <1>1 DEF ModelFails
    <2>2. PICK b : b = [a EXCEPT !.at = at]  OBVIOUS
    <2>3. b \in Attempt /\ b.key = a.key /\ b.at = at /\ b.label = a.label /\ b.outcome = a.outcome
      BY <1>0, <2>2 DEF Attempt
    <2>4. PICK B : B = {b}  OBVIOUS
    <2>5. Grown  BY <1>1, SameGrown DEF Begin, ModelFails, TypeOK
    <2>6. /\ AttemptFrame /\ UNCHANGED <<threads, assignment, steps>>
          /\ a.at \in {"begin", "classify"}
      BY <1>1, <2>1 DEF Begin, ModelFails
    <2>7. work' = (work \ {a}) \union B  BY <2>1, <2>2, <2>4 DEF Moves
    <2>8. Goes(a, B)  BY <2>3, <2>4, <2>6, <2>7 DEF AttemptFrame, Goes
    <2>. QED  BY <2>3, <2>4, <2>5, <2>6, <2>8, GoesKind
  <1>2. CASE Classify(a)
    <2>1. PICK l \in {d[1] : d \in a.key.hash} \union {Others} :
             work' = (work \ {a}) \union {[a EXCEPT !.at = "apply", !.label = l]}
      BY <1>2 DEF Classify
    <2>2. a.key.hash \subseteq Label \X (1 .. MaxDefinition)
      BY <1>0 DEF Attempt, Key, Hash
    <2>3. l = Others \/ (l \in Label /\ \E v \in 1 .. MaxDefinition : <<l, v>> \in a.key.hash)
      <3>1. ASSUME NEW d \in a.key.hash
            PROVE  d[1] \in Label /\ \E v \in 1 .. MaxDefinition : <<d[1], v>> \in a.key.hash
        <4>1. PICK x \in Label, v \in 1 .. MaxDefinition : d = <<x, v>>  BY <2>2
        <4>. QED  BY <4>1
      <3>. QED  BY <2>1, <3>1
    <2>4. PICK b : b = [a EXCEPT !.at = "apply", !.label = l]  OBVIOUS
    <2>5. b \in Attempt /\ b.key = a.key /\ b.at = "apply" /\ b.label = l /\ b.outcome = a.outcome
      BY <1>0, <2>3, <2>4 DEF Attempt
    <2>6. PICK B : B = {b}  OBVIOUS
    <2>7. Grown  BY <1>2, SameGrown DEF Classify, TypeOK
    <2>8. Goes(a, B) /\ AttemptFrame
      BY <1>2, <2>1, <2>3, <2>4, <2>5, <2>6 DEF Classify, AttemptFrame, Goes
    <2>. QED  BY <2>5, <2>6, <2>7, <2>8, GoesKind
  <1>3. CASE (ModelFails(a) \/ Lose(a)) /\ work' = work \ {a}
    <2>1. PICK B : B = {}  OBVIOUS
    <2>2. Grown /\ (a.at \in {"close", "failStep"} => spent'["faults"] > 0)
      <3>1. CASE ModelFails(a)  BY <3>1, SameGrown DEF ModelFails, TypeOK
      <3>2. CASE Lose(a)  BY <3>2, SpendGrows DEF Lose, TypeOK
      <3>. QED  BY <1>3, <3>1, <3>2
    <2>3. Goes(a, B) /\ AttemptFrame
      BY <1>3, <2>1, <2>2 DEF ModelFails, Lose, AttemptFrame, Goes
    <2>. QED  BY <2>1, <2>2, <2>3, GoesKind
  <1>. QED  BY <1>1, <1>2, <1>3 DEF ModelFails, Lose

\* The answer of the model is applied, or the attempt ends early.
LEMMA AppliesIs ==
    ASSUME TypeOK, NEW a \in work, Apply(a)
    PROVE  TypeOK' /\ Kind
  <1>. DEFINE t == a.key.thread
  <1>0. a \in Attempt /\ t \in Thread /\ a.at = "apply"
    BY ThreadsOf DEF TypeOK, Apply
  <1>1. CASE EndsEarly(a, "superseded") /\ UNCHANGED assignment
    BY <1>0, <1>1, EndsEarlyKind DEF Apply
  <1>2. CASE /\ Proceeds(a) /\ Closes(a, "complete")
             /\ assignment' = [assignment EXCEPT ![t] =
                   [source |-> "ai", label |-> a.label,
                    version |-> IF a.label = Others THEN 1 ELSE definitions[a.label].version]]
             /\ threads' = [threads EXCEPT ![t].state = "complete", ![t].hash = CurrentHash]
             /\ UNCHANGED steps
    <2>1. PICK v : v = IF a.label = Others THEN 1 ELSE definitions[a.label].version
      OBVIOUS
    <2>2. v \in 0 .. MaxDefinition /\ a.label \in Label \union {Others}
      BY <1>0, <2>1, LabelsAssumption DEF TypeOK, Definition, Attempt
    <2>3. PICK r : r = [source |-> "ai", label |-> a.label, version |-> v]
      OBVIOUS
    <2>4. r \in Assignment  BY <2>2, <2>3 DEF Assignment
    <2>5. assignment' = [assignment EXCEPT ![t] = r]  BY <1>2, <2>1, <2>3
    <2>6. /\ assignment' \in [Thread -> Assignment] /\ assignment'[t] = r
          /\ \A u \in Thread : u # t => assignment'[u] = assignment[u]
      BY <1>0, <2>4, <2>5 DEF TypeOK
    <2>7. SettledAs(t, "complete")  BY <1>0, <1>2, SettlesIs
    <2>8. PICK b : b = [a EXCEPT !.at = "close", !.outcome = "complete"]
      OBVIOUS
    <2>9. b \in Attempt /\ b.key = a.key /\ b.at = "close" /\ b.label = a.label /\ b.outcome = "complete"
      BY <1>0, <2>8 DEF Outcome, Attempt
    <2>10. Grown /\ connected' = connected
      BY SameGrown DEF Apply, AttemptFrame, TypeOK
    <2>11. Reports(a, b)  BY <1>2, <2>8, <2>9, <2>10 DEF Closes, Reports
    <2>12. Spoken(a.key) /\ a.key.hash = CurrentHash /\ assignment[t].source # "user"
      BY <1>2 DEF Proceeds, Matches, Spoken, SameDefinitions, AutomaticAllowed
    <2>13. a.label # Others => v = definitions[a.label].version  BY <2>1
    <2>14. r.source = "ai" /\ r.label = a.label /\ r.version = v  BY <2>3
    <2>15. Applies(a, b)
      BY <1>0, <1>2, <2>6, <2>7, <2>9, <2>11, <2>12, <2>13, <2>14 DEF Applies
    <2>16. TypeOK'
      BY <1>2, <2>6, <2>7, <2>9, <2>10, <2>11 DEF TypeOK, Apply, AttemptFrame, SettledAs, Reports, Grown
    <2>. QED  BY <2>10, <2>15, <2>16 DEF Kind, Attempts
  <1>. QED  BY <1>1, <1>2 DEF Apply

\* An attempt without a model, or the last one, fails its thread.
LEMMA FailsIs ==
    ASSUME TypeOK, NEW a \in work, NoModel(a) \/ Fail(a)
    PROVE  TypeOK' /\ Kind
  <1>. DEFINE t == a.key.thread
  <1>0. a \in Attempt /\ t \in Thread /\ FailThread(a)
    BY ThreadsOf DEF TypeOK, NoModel, Fail
  <1>1. PICK b : /\ work' = (work \ {a}) \union {b} /\ b \in Attempt /\ b.key = a.key /\ b.label = a.label
                 /\ \/ b.at = "close" /\ b.outcome = "failed"
                    \/ b.at = "failStep" /\ b.outcome = a.outcome
    <2>1. CASE NoModel(a)
      <3>1. PICK b : b = [a EXCEPT !.at = "close", !.outcome = "failed"]
        OBVIOUS
      <3>2. /\ b \in Attempt /\ b.key = a.key /\ b.label = a.label
            /\ b.at = "close" /\ b.outcome = "failed"
        BY <1>0, <3>1 DEF Attempt, Outcome
      <3>. QED  BY <2>1, <3>1, <3>2 DEF NoModel, Closes
    <2>2. CASE Fail(a)
      <3>1. PICK b : b = [a EXCEPT !.at = "failStep"]  OBVIOUS
      <3>2. /\ b \in Attempt /\ b.key = a.key /\ b.label = a.label
            /\ b.at = "failStep" /\ b.outcome = a.outcome
        BY <1>0, <3>1 DEF Attempt
      <3>. QED  BY <2>2, <3>1, <3>2 DEF Fail, Moves
    <2>. QED  BY <2>1, <2>2
  <1>2. Grown /\ UNCHANGED <<connected, assignment, steps>> /\ a.at \in {"begin", "fail"}
    BY SameGrown DEF NoModel, Fail, AttemptFrame, TypeOK
  <1>3. \/ /\ UNCHANGED threads
           /\ \/ ~connected \/ ~Spoken(a.key) \/ threads[t].hash # a.key.hash
              \/ threads[t].state # "running" \/ assignment[t].source = "user"
        \/ SettledAs(t, "failed") /\ assignment[t].source # "user" /\ threads[t].state = "running"
    BY <1>0, FailThreadIs
  <1>4. Fails(a, b)  BY <1>1, <1>2, <1>3 DEF Fails
  <1>5. threads' \in [Thread -> ThreadRecord]  BY <1>3 DEF SettledAs, TypeOK
  <1>6. TypeOK'
    BY <1>1, <1>2, <1>5 DEF TypeOK, NoModel, Fail, AttemptFrame, Grown
  <1>. QED  BY <1>2, <1>4, <1>6 DEF Kind, Attempts

\* A step is closed or failed.
LEMMA ShutsIs ==
    ASSUME TypeOK, NEW a \in work, a.key \in DOMAIN steps, CloseStep(a) \/ FailStep(a)
    PROVE  TypeOK' /\ Kind
  <1>0. a \in Attempt /\ steps[a.key] \in Step /\ a.outcome \in Outcome
    BY DEF TypeOK, Attempt
  <1>1. Grown /\ UNCHANGED <<connected, threads, assignment>> /\ work' = work \ {a}
    BY SameGrown DEF CloseStep, FailStep, AttemptFrame, TypeOK
  <1>2. CASE steps[a.key].status # "open"
    <2>1. steps' = steps  BY <1>2 DEF CloseStep, FailStep
    <2>2. Shuts(a)  BY <1>1, <1>2, <2>1 DEF Shuts
    <2>3. TypeOK'
      BY <1>1, <2>1 DEF TypeOK, CloseStep, FailStep, AttemptFrame, Grown
    <2>. QED  BY <1>1, <2>2, <2>3 DEF Kind, Attempts
  <1>3. CASE steps[a.key].status = "open"
    <2>1. PICK s \in Step : /\ steps' = [steps EXCEPT ![a.key] = s]
                            /\ \/ a.at = "close" /\ s.status = "complete" /\ s.result = a.outcome
                               \/ a.at = "failStep" /\ s.status = "failed" /\ s.result = steps[a.key].result
      <3>1. CASE CloseStep(a)
        <4>1. PICK o : o = a.outcome  OBVIOUS
        <4>2. PICK s : s = [steps[a.key] EXCEPT !.status = "complete", !.result = o]
          OBVIOUS
        <4>3. s \in Step /\ s.status = "complete" /\ s.result = o
          BY <1>0, <4>1, <4>2 DEF Step
        <4>4. steps' = [steps EXCEPT ![a.key].status = "complete", ![a.key].result = o]
          BY <1>3, <3>1, <4>1 DEF CloseStep
        <4>5. steps' = [steps EXCEPT ![a.key] = s]  BY <1>0, <4>2, <4>4 DEF Step
        <4>. QED  BY <3>1, <4>1, <4>3, <4>5 DEF CloseStep
      <3>2. CASE FailStep(a)
        <4>1. PICK s : s = [steps[a.key] EXCEPT !.status = "failed"]  OBVIOUS
        <4>2. s \in Step /\ s.status = "failed" /\ s.result = steps[a.key].result
          BY <1>0, <4>1 DEF Step
        <4>3. steps' = [steps EXCEPT ![a.key] = s]
          BY <1>3, <3>2, <4>1 DEF FailStep
        <4>. QED  BY <3>2, <4>2, <4>3 DEF FailStep
      <3>. QED  BY <3>1, <3>2
    <2>2. Shuts(a)  BY <1>1, <2>1 DEF Shuts
    <2>3. DOMAIN steps' \subseteq Key /\ \A k \in DOMAIN steps' : steps'[k] \in Step
      BY <2>1 DEF TypeOK
    <2>4. TypeOK'
      BY <1>1, <2>3 DEF TypeOK, CloseStep, FailStep, AttemptFrame, Grown
    <2>. QED  BY <1>1, <2>2, <2>4 DEF Kind, Attempts
  <1>. QED  BY <1>2, <1>3

\* Every step keeps the types and is of one of these kinds.
LEMMA KindOfNext ==
    ASSUME TypeOK, \A a \in work : a.key \in DOMAIN steps, [Next]_vars
    PROVE  TypeOK' /\ Kind
  <1>1. ASSUME NEW k \in DOMAIN steps, AttemptStep(k) PROVE TypeOK' /\ Kind
    <2>1. CASE StartAttempt(k) \/ Reconcile(k)
      BY <2>1, StartAttemptIs, ReconcileIs
    <2>2. ASSUME NEW a \in work,
                 Begin(a) \/ Classify(a) \/ ModelFails(a) \/ Apply(a)
                   \/ CloseStep(a) \/ Fail(a) \/ FailStep(a)
          PROVE  TypeOK' /\ Kind
      <3>1. CASE Begin(a) /\ EndsEarly(a, "ineligible")
        BY <3>1, EndsEarlyKind DEF Begin
      <3>2. CASE Begin(a) /\ ~EndsEarly(a, "ineligible")
        BY <3>2, MovesOnIs DEF Begin
      <3>3. CASE Classify(a) \/ ModelFails(a)  BY <3>3, MovesOnIs
      <3>4. CASE Apply(a)  BY <3>4, AppliesIs
      <3>5. CASE CloseStep(a) \/ FailStep(a)  BY <3>5, ShutsIs
      <3>6. CASE Fail(a)  BY <3>6, FailsIs
      <3>. QED  BY <2>2, <3>1, <3>2, <3>3, <3>4, <3>5, <3>6
    <2>. QED  BY <1>1, <2>1, <2>2 DEF AttemptStep
  <1>2. ASSUME NEW a \in work, NoModel(a) \/ Lose(a) PROVE TypeOK' /\ Kind
    BY <1>2, FailsIs, MovesOnIs
  <1>3. ASSUME NEW t \in Thread, NEW l \in Label \union {Others}, SetUserLabel(t, l)
        PROVE TypeOK' /\ Kind
    BY <1>3, DecidesIs
  <1>. QED  BY <1>1, <1>2, <1>3, IdleIs, FilesIs DEF Next, ScanStep

-----------------------------------------------------------------------------
(* Preservation.                                                           *)

\* What becomes of the threads.
Turns ==
    \/ UNCHANGED <<threads, assignment>>
    \/ Reserves /\ UNCHANGED assignment
    \/ \E t \in Thread : /\ SettledAs(t, "complete")
                         /\ \A u \in Thread : u # t => assignment'[u] = assignment[u]
    \/ \E t \in Thread : \E state \in {"failed", "not_requested"} :
          /\ SettledAs(t, state) /\ UNCHANGED assignment
          /\ threads[t].state = "running" /\ assignment[t].source # "user"
\* Every step does one of these to the threads.
LEMMA KindTurns == ASSUME TypeOK, Kind PROVE Turns
  <1>1. ASSUME NEW a \in work, Attempts(a) PROVE Turns
    <2>1. a.key.thread \in Thread  BY ThreadsOf
    <2>2. CASE \E B : Goes(a, B)  BY <2>2 DEF Goes, Turns
    <2>3. CASE \E b : Stops(a, b) \/ Requeues(a, b)
      BY <2>3 DEF Stops, Requeues, Turns
    <2>4. CASE \E b : Unrequests(a, b)  BY <2>1, <2>4 DEF Unrequests, Turns
    <2>5. CASE \E b : Applies(a, b)  BY <2>1, <2>5 DEF Applies, Turns
    <2>6. CASE \E b : Fails(a, b)  BY <2>1, <2>6 DEF Fails, Turns
    <2>7. CASE Shuts(a)  BY <2>7 DEF Shuts, Turns
    <2>. QED  BY <1>1, <2>2, <2>3, <2>4, <2>5, <2>6, <2>7 DEF Attempts
  <1>. QED  BY <1>1 DEF Kind, Idle, Files, Decides, Starts, Turns

\* Analysis versions grow, and what is settled stays settled while its version stays.
LEMMA Versions ==
    ASSUME TypeOK, Kind, NEW t \in Thread
    PROVE  /\ threads[t].version \in Nat
           /\ threads'[t].version \in Nat /\ threads'[t].version >= threads[t].version
           /\ threads'[t].version = threads[t].version =>
                 /\ threads[t].state \in {"complete", "failed"} =>
                       threads'[t].state \in {"complete", "failed"}
                 /\ threads[t].state = "complete" => threads'[t].state = "complete"
  <1>1. threads[t].version \in Nat  BY LabelsAssumption DEF TypeOK, ThreadRecord
  <1>2. CASE UNCHANGED threads  BY <1>1, <1>2
  <1>3. CASE Reserves  BY <1>1, <1>3 DEF Reserves, Advances
  <1>4. CASE \E u \in Thread : SettledAs(u, "complete")
    BY <1>1, <1>4 DEF SettledAs
  <1>5. CASE \E u \in Thread : \E state \in {"failed", "not_requested"} :
                SettledAs(u, state) /\ threads[u].state = "running"
    BY <1>1, <1>5 DEF SettledAs
  <1>. QED  BY <1>2, <1>3, <1>4, <1>5, KindTurns DEF Turns

\* What becomes of steps and attempts.
LEMMA StepsAndWork ==
    ASSUME TypeOK, Keyed, Kind
    PROVE  /\ DOMAIN steps \subseteq DOMAIN steps'
           /\ \A k \in DOMAIN steps' \ DOMAIN steps :
                 /\ k.version = threads'[k.thread].version /\ k.hash = threads'[k.thread].hash
                 /\ steps'[k].status = "open" /\ steps'[k].result = "none"
                 /\ threads'[k.thread].state = "running"
           /\ \A b \in work' : b.key \in DOMAIN steps
  <1>1. \A a \in work : a.key \in DOMAIN steps  BY DEF Keyed
  <1>2. CASE Idle \/ (\E t \in Thread : Decides(t))
    BY <1>1, <1>2 DEF Idle, Decides
  <1>3. CASE Files  BY <1>1, <1>3 DEF Files, Reserves
  <1>4. CASE \E k \in DOMAIN steps : \E b : Starts(k, b)
    BY <1>1, <1>4 DEF Starts
  <1>5. ASSUME NEW a \in work, \E B : Goes(a, B)
        PROVE  UNCHANGED steps /\ \A b \in work' : b.key \in DOMAIN steps
    BY <1>1, <1>5 DEF Goes
  <1>6. ASSUME NEW a \in work, NEW b, Stops(a, b) \/ Unrequests(a, b) \/ Applies(a, b) \/ Fails(a, b)
        PROVE  UNCHANGED steps /\ \A c \in work' : c.key \in DOMAIN steps
    BY <1>1, <1>6 DEF Stops, Unrequests, Applies, Fails, Reports
  <1>7. CASE \E a \in work : \E b : Requeues(a, b)
    BY <1>1, <1>7 DEF Requeues, Reports, Reserves
  <1>8. CASE \E a \in work : Shuts(a)  BY <1>1, <1>8 DEF Shuts
  <1>. QED  BY <1>2, <1>3, <1>4, <1>5, <1>6, <1>7, <1>8 DEF Kind, Attempts

\* A thread that runs has been running, or was reserved with its step.
LEMMA RunningIs ==
    ASSUME TypeOK, Kind, NEW t \in Thread, threads'[t].state = "running"
    PROVE  \/ threads'[t] = threads[t]
           \/ KeyOf(t, threads'[t]) \in DOMAIN steps' /\ threads'[t].after # -1
  BY KindTurns DEF Turns, Reserves, Advances, SettledAs

\* Keyed is kept.
LEMMA KeyedStays ==
    ASSUME TypeOK, TypeOK', Keyed, Kind
    PROVE  Keyed'
  <1>1. DOMAIN steps \subseteq DOMAIN steps' /\ \A b \in work' : b.key \in DOMAIN steps'
    BY StepsAndWork
  <1>2. ASSUME NEW k \in DOMAIN steps' PROVE k.version <= threads'[k.thread].version
    <2>1. k \in Key /\ k.thread \in Thread /\ k.version \in Nat
      BY LabelsAssumption DEF TypeOK, Key
    <2>2. CASE k \in DOMAIN steps  BY <2>1, <2>2, Versions DEF Keyed
    <2>3. CASE k \notin DOMAIN steps  BY <2>1, <2>3, Versions, StepsAndWork
    <2>. QED  BY <2>2, <2>3
  <1>3. ASSUME NEW t \in Thread, threads'[t].state = "running"
        PROVE  KeyOf(t, threads'[t]) \in DOMAIN steps' /\ threads'[t].after # -1
    BY <1>1, <1>3, RunningIs DEF Keyed, Admitted
  <1>. QED  BY <1>1, <1>2, <1>3 DEF Keyed, Admitted, KeyOf

\* Chosen is kept.
LEMMA ChosenStays ==
    ASSUME TypeOK, Chosen, Kind
    PROVE  Chosen'
  <1>. SUFFICES ASSUME NEW t \in Thread, assignment'[t].source = "user"
                PROVE  threads'[t].state = "complete"
    BY DEF Chosen
  <1>0. assignment[t].source = "user" => threads[t].state = "complete"
    BY DEF Chosen
  <1>1. CASE Reserves /\ UNCHANGED assignment
    BY <1>0, <1>1 DEF Reserves, Advances
  <1>2. CASE UNCHANGED <<threads, assignment>>  BY <1>0, <1>2
  <1>3. CASE \E u \in Thread : /\ SettledAs(u, "complete")
                              /\ \A v \in Thread : v # u => assignment'[v] = assignment[v]
    BY <1>0, <1>3 DEF SettledAs
  <1>4. CASE \E u \in Thread : \E state \in {"failed", "not_requested"} :
                SettledAs(u, state) /\ assignment[u].source # "user" /\ UNCHANGED assignment
    BY <1>0, <1>4 DEF SettledAs
  <1>. QED  BY <1>1, <1>2, <1>3, <1>4, KindTurns DEF Turns

\* Asked is kept.
LEMMA AskedStays ==
    ASSUME TypeOK, Asked, Kind
    PROVE  Asked'
  <1>. DEFINE Fair(b) == b.label = Others \/ \E v \in 1 .. MaxDefinition : <<b.label, v>> \in b.key.hash
  <1>0. \A a \in work : Fair(a)  BY DEF Asked
  <1>1. \A b \in work' : Fair(b)
    <2>1. CASE Idle \/ Files \/ \E t \in Thread : Decides(t)
      BY <1>0, <2>1 DEF Idle, Files, Decides
    <2>2. CASE \E k \in DOMAIN steps : \E b : Starts(k, b)
      BY <1>0, <2>2 DEF Starts
    <2>3. ASSUME NEW a \in work, NEW b,
                 Stops(a, b) \/ Requeues(a, b) \/ Unrequests(a, b) \/ Applies(a, b) \/ Fails(a, b)
          PROVE  \A c \in work' : Fair(c)
      <3>1. b.key = a.key /\ b.label = a.label /\ work' = (work \ {a}) \union {b}
        BY <2>3 DEF Stops, Requeues, Unrequests, Applies, Fails, Reports
      <3>. QED  BY <1>0, <3>1
    <2>4. CASE \E a \in work : \E B : Goes(a, B)
      <3>1. PICK a \in work : \E B : Goes(a, B)  BY <2>4
      <3>2. PICK B : Goes(a, B)  BY <3>1
      <3>3. \A b \in B : Fair(b)  BY <1>0, <3>2 DEF Goes
      <3>. QED  BY <1>0, <3>2, <3>3 DEF Goes
    <2>5. CASE \E a \in work : Shuts(a)  BY <1>0, <2>5 DEF Shuts
    <2>. QED  BY <2>1, <2>2, <2>3, <2>4, <2>5 DEF Kind, Attempts
  <1>. QED  BY <1>1 DEF Asked

\* What an attempt that is closing has found; what a step that is over has.
LEMMA ReportsAre ==
    ASSUME TypeOK, Keyed, Kind
    PROVE  /\ \A b \in work' :
                 \/ b \in work
                 \/ b.at # "close" /\ b.outcome = "none"
                 \/ b.at # "close" /\ \E a \in work : b.outcome = a.outcome
                 \/ \E a \in work : Stops(a, b) \/ Requeues(a, b) \/ Unrequests(a, b) \/ Applies(a, b)
                                     \/ (Fails(a, b) /\ b.outcome = "failed")
           /\ \A k \in DOMAIN steps :
                 \/ steps'[k].status = steps[k].status /\ steps'[k].result = steps[k].result
                 \/ \E a \in work : /\ a.key = k /\ a.at = "close" /\ Shuts(a)
                                    /\ steps'[k].status = "complete" /\ steps'[k].result = a.outcome
                 \/ \E a \in work : /\ a.key = k /\ a.at = "failStep" /\ Shuts(a)
                                    /\ steps'[k].status = "failed" /\ steps'[k].result = steps[k].result
  <1>. DEFINE Told(b) == \/ b \in work
                         \/ b.at # "close" /\ b.outcome = "none"
                         \/ b.at # "close" /\ \E a \in work : b.outcome = a.outcome
                         \/ \E a \in work : Stops(a, b) \/ Requeues(a, b) \/ Unrequests(a, b) \/ Applies(a, b)
                                             \/ (Fails(a, b) /\ b.outcome = "failed")
  <1>1. \A b \in work' : Told(b)
    <2>1. CASE Idle \/ Files \/ \E t \in Thread : Decides(t)
      BY <2>1 DEF Idle, Files, Decides
    <2>2. CASE \E k \in DOMAIN steps : \E b : Starts(k, b)  BY <2>2 DEF Starts
    <2>3. ASSUME NEW a \in work, NEW b, Stops(a, b) \/ Requeues(a, b) \/ Unrequests(a, b) \/ Applies(a, b)
          PROVE  \A c \in work' : Told(c)
      <3>1. work' = (work \ {a}) \union {b}
        BY <2>3 DEF Stops, Requeues, Unrequests, Applies, Reports
      <3>2. Told(b)  BY <2>3
      <3>. QED  BY <3>1, <3>2
    <2>4. ASSUME NEW a \in work, NEW b, Fails(a, b)
          PROVE  \A c \in work' : Told(c)
      <3>1. work' = (work \ {a}) \union {b}  BY <2>4 DEF Fails
      <3>2. b.outcome = "failed" \/ (b.at # "close" /\ b.outcome = a.outcome)
        BY <2>4 DEF Fails
      <3>3. Told(b)  BY <2>4, <3>2
      <3>. QED  BY <3>1, <3>3
    <2>5. ASSUME NEW a \in work, NEW B, Goes(a, B)
          PROVE  \A c \in work' : Told(c)
      BY <2>5 DEF Goes
    <2>6. CASE \E a \in work : Shuts(a)  BY <2>6 DEF Shuts
    <2>. QED  BY <2>1, <2>2, <2>3, <2>4, <2>5, <2>6 DEF Kind, Attempts
  <1>2. ASSUME NEW k \in DOMAIN steps
        PROVE  \/ steps'[k].status = steps[k].status /\ steps'[k].result = steps[k].result
               \/ \E a \in work : /\ a.key = k /\ a.at = "close" /\ Shuts(a)
                                  /\ steps'[k].status = "complete" /\ steps'[k].result = a.outcome
               \/ \E a \in work : /\ a.key = k /\ a.at = "failStep" /\ Shuts(a)
                                  /\ steps'[k].status = "failed" /\ steps'[k].result = steps[k].result
    <2>1. CASE UNCHANGED steps  BY <2>1
    <2>2. CASE Reserves  BY <2>2 DEF Reserves
    <2>3. CASE \E j \in DOMAIN steps : \E b : Starts(j, b)  BY <2>3 DEF Starts
    <2>4. ASSUME NEW a \in work, Shuts(a), a.key = k
          PROVE  \/ steps'[k] = steps[k]
                 \/ a.at = "close" /\ steps'[k].status = "complete" /\ steps'[k].result = a.outcome
                 \/ a.at = "failStep" /\ steps'[k].status = "failed" /\ steps'[k].result = steps[k].result
      BY <2>4 DEF Shuts
    <2>5. ASSUME NEW a \in work, Shuts(a), a.key # k
          PROVE  steps'[k] = steps[k]
      BY <2>5 DEF Shuts
    <2>6. \/ UNCHANGED steps \/ Reserves
          \/ \E j \in DOMAIN steps : \E b : Starts(j, b)
          \/ \E a \in work : Shuts(a)
      <3>1. Idle => UNCHANGED steps  BY DEF Idle
      <3>2. Files => Reserves  BY DEF Files
      <3>3. \A t \in Thread : Decides(t) => UNCHANGED steps  BY DEF Decides
      <3>4. ASSUME NEW a \in work, Attempts(a) PROVE UNCHANGED steps \/ Reserves \/ Shuts(a)
        <4>1. \A B : Goes(a, B) => UNCHANGED steps  BY DEF Goes
        <4>2. \A b : Requeues(a, b) => Reserves  BY DEF Requeues
        <4>3. \A b : Stops(a, b) \/ Unrequests(a, b) \/ Applies(a, b) \/ Fails(a, b) => UNCHANGED steps
          BY DEF Stops, Unrequests, Applies, Fails
        <4>. QED  BY <3>4, <4>1, <4>2, <4>3 DEF Attempts
      <3>. QED  BY <3>1, <3>2, <3>3, <3>4 DEF Kind
    <2>. QED  BY <2>1, <2>2, <2>3, <2>4, <2>5, <2>6
  <1>. QED  BY <1>1, <1>2

\* A step that speaks of its thread now did before: versions only grow.
LEMMA WasSpoken ==
    ASSUME TypeOK, Keyed, Kind, NEW k \in DOMAIN steps, Spoken(k)'
    PROVE  Spoken(k) /\ threads'[k.thread].version = threads[k.thread].version
  <1>1. k.thread \in Thread /\ k.version \in Nat /\ k.version <= threads[k.thread].version
    BY LabelsAssumption DEF TypeOK, Key, Keyed
  <1>. QED  BY <1>1, Versions DEF Spoken

\* Stands is kept.
LEMMA StandsStays ==
    ASSUME TypeOK, Keyed, Stands, Kind
    PROVE  Stands'
  <1>1. ASSUME NEW k \in DOMAIN steps', steps'[k].status = "complete", steps'[k].result = "complete",
               Spoken(k)'
        PROVE  threads'[k.thread].state = "complete"
    <2>1. k \in DOMAIN steps  BY <1>1, StepsAndWork
    <2>2. k.thread \in Thread /\ Spoken(k) /\ threads'[k.thread].version = threads[k.thread].version
      BY <1>1, <2>1, WasSpoken, ThreadsOf
    <2>3. threads[k.thread].state = "complete"
      BY <1>1, <2>1, <2>2, ReportsAre DEF Stands
    <2>. QED  BY <2>2, <2>3, Versions
  <1>2. ASSUME NEW b \in work', b.at = "close", b.outcome = "complete", Spoken(b.key)'
        PROVE  threads'[b.key.thread].state = "complete"
    <2>1. PICK k \in DOMAIN steps : k = b.key  BY StepsAndWork
    <2>2. k.thread \in Thread /\ Spoken(k) /\ threads'[k.thread].version = threads[k.thread].version
      BY <1>2, <2>1, WasSpoken, ThreadsOf
    <2>3. CASE b \in work  BY <1>2, <2>1, <2>2, <2>3, Versions DEF Stands
    <2>4. CASE \E a \in work : Applies(a, b)
      BY <2>1, <2>4 DEF Applies, Reports, SettledAs
    <2>5. \A a \in work : ~Stops(a, b) /\ ~Requeues(a, b) /\ ~Unrequests(a, b)
      BY <1>2 DEF Stops, Requeues, Unrequests, GaveUp
    <2>. QED  BY <1>2, <2>3, <2>4, <2>5, ReportsAre
  <1>. QED  BY <1>1, <1>2 DEF Stands, Spoken

\* Answered is kept.
LEMMA AnsweredStays ==
    ASSUME TypeOK, Keyed, Answered, Kind
    PROVE  Answered'
  <1>1. ASSUME NEW k \in DOMAIN steps', steps'[k].status = "complete"
        PROVE  steps'[k].result # "none"
    <2>1. k \in DOMAIN steps  BY <1>1, StepsAndWork
    <2>. QED  BY <1>1, <2>1, ReportsAre DEF Answered
  <1>2. ASSUME NEW b \in work', b.at = "close"
        PROVE  b.outcome # "none"
    <2>1. \A a \in work : Stops(a, b) \/ Requeues(a, b) \/ Unrequests(a, b) \/ Applies(a, b)
                            => b.outcome # "none"
      BY DEF Stops, Requeues, Unrequests, Applies, GaveUp
    <2>. QED  BY <1>2, <2>1, ReportsAre DEF Answered
  <1>. QED  BY <1>1, <1>2 DEF Answered

\* Found is kept.
LEMMA FoundStays ==
    ASSUME TypeOK, Keyed, Found, Kind
    PROVE  Found'
  <1>. SUFFICES ASSUME spent'["revocations"] = 0
                PROVE  /\ connected'
                       /\ \A b \in work' : b.outcome # "missing"
                       /\ \A k \in DOMAIN steps' : steps'[k].result # "missing"
    BY DEF Found
  <1>1. spent["revocations"] = 0  BY CounterNames DEF Kind, Grown, TypeOK
  <1>2. connected = TRUE  BY <1>1 DEF Found, TypeOK
  <1>3. connected'
    <2>1. \/ connected' = connected \/ connected' = TRUE
          \/ spent'["revocations"] > 0
      <3>1. ASSUME NEW a \in work, Attempts(a) PROVE connected' = connected
        <4>1. ASSUME NEW B, Goes(a, B) PROVE connected' = connected
          BY <4>1, Zenon DEF Goes
        <4>2. ASSUME NEW b, Stops(a, b) \/ Requeues(a, b) \/ Unrequests(a, b) \/ Applies(a, b) \/ Fails(a, b)
              PROVE  connected' = connected
          BY <4>2, Zenon DEF Stops, Requeues, Unrequests, Applies, Fails, Reports
        <4>3. CASE Shuts(a)  BY <4>3, Zenon DEF Shuts
        <4>. QED  BY <3>1, <4>1, <4>2, <4>3, Zenon DEF Attempts
      <3>2. CASE Idle  BY <3>2, Zenon DEF Idle
      <3>3. CASE Files \/ (\E t \in Thread : Decides(t)) \/ (\E k \in DOMAIN steps : \E b : Starts(k, b))
        BY <3>3, Zenon DEF Files, Decides, Starts
      <3>. QED  BY <3>1, <3>2, <3>3, Zenon DEF Kind
    <2>2. ~(spent'["revocations"] > 0)  OBVIOUS
    <2>. QED  BY <1>2, <2>1, <2>2, Zenon
  <1>4. ASSUME NEW b \in work' PROVE b.outcome # "missing"
    <2>1. \A a \in work : Stops(a, b) \/ Requeues(a, b) \/ Unrequests(a, b) \/ Applies(a, b)
                            => b.outcome # "missing"
      BY <1>2 DEF Stops, Requeues, Unrequests, Applies, GaveUp
    <2>. QED  BY <1>1, <2>1, ReportsAre DEF Found
  <1>5. ASSUME NEW k \in DOMAIN steps' PROVE steps'[k].result # "missing"
    <2>1. CASE k \in DOMAIN steps  BY <1>1, <2>1, ReportsAre DEF Found
    <2>2. CASE k \notin DOMAIN steps  BY <2>2, StepsAndWork
    <2>. QED  BY <2>1, <2>2
  <1>. QED  BY <1>3, <1>4, <1>5

-----------------------------------------------------------------------------
(* Without overlapping attempts.                                           *)

\* An attempt that still has the thread in hand finds it reserved for it.
LEMMA InHand ==
    ASSUME TypeOK, Keyed, Chosen, Single, Working, Held, NEW a \in work,
           a.at \notin {"close", "failStep"}, Spoken(a.key), Unsettled(a.key.thread)
    PROVE  LET t == a.key.thread
           IN /\ threads[t].state = "running" /\ threads[t].after # -1
              /\ threads[t].hash = a.key.hash /\ threads[t].version = a.key.version
              /\ assignment[t].source # "user"
  <1>. DEFINE t == a.key.thread
  <1>1. t \in Thread /\ a.key \in DOMAIN steps /\ steps[a.key].status = "open"
    BY ThreadsOf DEF Keyed, Working
  <1>2. ~\E c \in work : c.key = a.key /\ c.at = "close"  BY DEF Single
  <1>3. threads[t].state = "running" /\ a.key.hash = threads[t].hash
    BY <1>1, <1>2 DEF Held
  <1>4. threads[t].after # -1 /\ assignment[t].source # "user"
    BY <1>1, <1>3 DEF Keyed, Chosen
  <1>. QED  BY <1>3, <1>4 DEF Spoken

\* Without an overlap no second attempt of a step starts.
LEMMA SingleStays ==
    ASSUME Single, Kind, spent'["faults"] = 0
    PROVE  Single'
  <1>1. \A a, b \in work : a.key = b.key => a = b  BY DEF Single
  <1>2. ~(spent'["faults"] > 0)  OBVIOUS
  <1>3. CASE Idle \/ Files \/ \E t \in Thread : Decides(t)
    BY <1>1, <1>3 DEF Idle, Files, Decides, Single
  <1>4. CASE \E k \in DOMAIN steps : \E b : Starts(k, b)
    BY <1>1, <1>2, <1>4 DEF Starts, Single
  <1>5. ASSUME NEW a \in work, NEW B, Goes(a, B) PROVE Single'
    BY <1>1, <1>5 DEF Goes, Single
  <1>6. ASSUME NEW a \in work, NEW b,
               Stops(a, b) \/ Requeues(a, b) \/ Unrequests(a, b) \/ Applies(a, b) \/ Fails(a, b)
        PROVE  Single'
    <2>1. b.key = a.key /\ work' = (work \ {a}) \union {b}
      BY <1>6 DEF Stops, Requeues, Unrequests, Applies, Fails, Reports
    <2>. QED  BY <1>1, <2>1 DEF Single
  <1>7. CASE \E a \in work : Shuts(a)  BY <1>1, <1>7 DEF Shuts, Single
  <1>. QED  BY <1>3, <1>4, <1>5, <1>6, <1>7 DEF Kind, Attempts

\* Without an overlap only its own attempt closes a step.
LEMMA WorkingStays ==
    ASSUME TypeOK, Keyed, Single, Working, Kind
    PROVE  Working'
  <1>. SUFFICES ASSUME NEW b \in work' PROVE steps'[b.key].status = "open"
    BY DEF Working
  <1>1. PICK k \in DOMAIN steps : k = b.key  BY StepsAndWork
  <1>2. CASE \E a \in work : Shuts(a)
    <2>1. PICK a \in work : Shuts(a)  BY <1>2
    <2>2. b \in work /\ b # a /\ k # a.key  BY <1>1, <2>1 DEF Shuts, Single
    <2>. QED  BY <1>1, <2>1, <2>2 DEF Shuts, Working
  <1>3. CASE ~\E a \in work : Shuts(a)
    <2>1. steps'[k].status = steps[k].status  BY <1>3, ReportsAre
    <2>2. CASE \E a \in work : a.key = k  BY <1>1, <2>1, <2>2 DEF Working
    <2>3. CASE ~\E a \in work : a.key = k
      <3>1. CASE Idle \/ Files \/ \E t \in Thread : Decides(t)
        BY <1>1, <2>3, <3>1 DEF Idle, Files, Decides
      <3>2. CASE \E j \in DOMAIN steps : \E c : Starts(j, c)
        BY <1>1, <2>1, <2>3, <3>2 DEF Starts
      <3>3. ASSUME NEW a \in work, \E B : Goes(a, B) PROVE FALSE
        BY <1>1, <2>3, <3>3 DEF Goes
      <3>4. ASSUME NEW a \in work, NEW c,
                   Stops(a, c) \/ Requeues(a, c) \/ Unrequests(a, c) \/ Applies(a, c) \/ Fails(a, c)
            PROVE  FALSE
        <4>1. c.key = a.key /\ work' = (work \ {a}) \union {c}
          BY <3>4 DEF Stops, Requeues, Unrequests, Applies, Fails, Reports
        <4>. QED  BY <1>1, <2>3, <4>1
      <3>. QED  BY <1>3, <3>1, <3>2, <3>3, <3>4 DEF Kind, Attempts
    <2>. QED  BY <2>2, <2>3
  <1>. QED  BY <1>1, <1>2, <1>3

\* What is unsettled at an analysis version has been since that version began.
LEMMA WasUnsettled ==
    ASSUME TypeOK, Keyed, Kind, NEW k \in DOMAIN steps, Spoken(k)', Unsettled(k.thread)'
    PROVE  Spoken(k) /\ Unsettled(k.thread)
  <1>1. k.thread \in Thread /\ Spoken(k) /\ threads'[k.thread].version = threads[k.thread].version
    BY WasSpoken, ThreadsOf
  <1>2. threads'[k.thread].state \notin {"complete", "failed"}  BY DEF Unsettled
  <1>3. threads[k.thread].state \notin {"complete", "failed"}
    BY <1>1, <1>2, Versions
  <1>. QED  BY <1>1, <1>3 DEF Unsettled, TypeOK, ThreadRecord

\* Held is kept: only the attempt that holds a thread un-requests it.
LEMMA HeldStays ==
    ASSUME TypeOK, Keyed, Chosen, Single, Working, Held, Kind,
           connected, spent'["faults"] = 0
    PROVE  Held'
  <1>0. ~(spent'["faults"] > 0)  OBVIOUS
  <1>1. ASSUME NEW k \in DOMAIN steps', Spoken(k)', Unsettled(k.thread)', steps'[k].status = "open"
        PROVE  \/ threads'[k.thread].state = "running" /\ k.hash = threads'[k.thread].hash
               \/ \E b \in work' : b.key = k /\ b.at = "close" /\ b.outcome \in GaveUp
    <2>. DEFINE t == k.thread
    <2>1. CASE k \notin DOMAIN steps  BY <2>1, StepsAndWork
    <2>2. CASE k \in DOMAIN steps
      <3>1. /\ t \in Thread /\ Spoken(k) /\ Unsettled(t)
            /\ threads'[t].version = threads[t].version /\ threads[t].version \in Nat
        BY <1>1, <2>2, WasSpoken, WasUnsettled, ThreadsOf, Versions
      <3>2. steps[k].status = "open"  BY <1>1, <2>2, ReportsAre
      <3>3. CASE \E b \in work : b.key = k /\ b.at = "close" /\ b.outcome \in GaveUp
        <4>1. PICK c \in work : c.key = k /\ c.at = "close" /\ c.outcome \in GaveUp
          BY <3>3
        <4>2. CASE \/ Idle \/ Files \/ \E u \in Thread : Decides(u)
                   \/ \E j \in DOMAIN steps : \E b : Starts(j, b)
          BY <4>1, <4>2 DEF Idle, Files, Decides, Starts
        <4>3. ASSUME NEW a \in work, Attempts(a) PROVE c \in work'
          <5>1. CASE \E B : Goes(a, B)  BY <1>0, <4>1, <5>1 DEF Goes
          <5>2. CASE \E b : Stops(a, b) \/ Requeues(a, b) \/ Unrequests(a, b) \/ Applies(a, b) \/ Fails(a, b)
            BY <4>1, <5>2 DEF Stops, Requeues, Unrequests, Applies, Fails, Reports
          <5>3. CASE Shuts(a)
            <6>1. a.key # k  BY <1>1, <3>2, <5>3 DEF Shuts
            <6>. QED  BY <4>1, <5>3, <6>1 DEF Shuts
          <5>. QED  BY <4>3, <5>1, <5>2, <5>3 DEF Attempts
        <4>. QED  BY <4>1, <4>2, <4>3 DEF Kind
      <3>4. CASE threads[t].state = "running" /\ k.hash = threads[t].hash
        <4>1. CASE threads'[t] = threads[t]  BY <3>4, <4>1
        <4>2. CASE Reserves  BY <3>1, <3>4, <4>1, <4>2 DEF Reserves, Advances
        <4>3. CASE \E u \in Thread : \E state \in {"complete", "failed"} : SettledAs(u, state)
          BY <1>1, <3>1, <4>1, <4>3 DEF SettledAs, Unsettled
        <4>4. ASSUME NEW a \in work, NEW b, Unrequests(a, b), threads'[t] # threads[t]
              PROVE  b \in work' /\ b.key = k /\ b.at = "close" /\ b.outcome \in GaveUp
          <5>1. a.key.thread \in Thread /\ a.key \in Key /\ k \in Key
            BY <2>2, ThreadsOf
          <5>2. t = a.key.thread  BY <3>1, <4>4 DEF Unrequests, SettledAs
          <5>3. a.key.hash = threads[t].hash /\ a.key.version = threads[t].version
            BY <3>1, <4>4, <5>2, InHand DEF Unrequests
          <5>4. a.key = k  BY <3>1, <3>4, <5>1, <5>2, <5>3 DEF Key, Spoken
          <5>. QED  BY <4>4, <5>4 DEF Unrequests, Reports
        <4>5. \/ threads' = threads \/ Reserves
              \/ \E u \in Thread : \E state \in {"complete", "failed"} : SettledAs(u, state)
              \/ \E a \in work : \E b : Unrequests(a, b)
          <5>1. ASSUME NEW a \in work, NEW b, Applies(a, b) \/ Fails(a, b)
                PROVE  \/ threads' = threads
                       \/ \E u \in Thread : \E state \in {"complete", "failed"} : SettledAs(u, state)
            BY <5>1, ThreadsOf DEF Applies, Fails
          <5>. QED  BY <5>1 DEF Kind, Attempts, Idle, Files, Decides, Starts, Goes, Stops, Requeues, Shuts
        <4>. QED  BY <4>1, <4>2, <4>3, <4>4, <4>5
      <3>. QED  BY <2>2, <3>1, <3>2, <3>3, <3>4 DEF Held
    <2>. QED  BY <2>1, <2>2
  <1>2. ASSUME NEW b \in work', Spoken(b.key)', Unsettled(b.key.thread)'
        PROVE  (b.at = "close" => b.outcome \in GaveUp) /\ b.at # "failStep"
    <2>1. PICK k \in DOMAIN steps : k = b.key  BY StepsAndWork
    <2>2. Spoken(k) /\ Unsettled(k.thread) /\ k.thread \in Thread
      BY <1>2, <2>1, WasUnsettled, ThreadsOf
    <2>3. CASE b \in work  BY <2>1, <2>2, <2>3 DEF Held
    <2>4. ASSUME NEW a \in work, Stops(a, b)
          PROVE  b.at = "close" /\ b.outcome \in GaveUp
      <3>1. a.key = k /\ b.at = "close" /\ a.at \notin {"close", "failStep"}
        BY <2>1, <2>4 DEF Stops, Reports
      <3>2. /\ threads[k.thread].state = "running" /\ threads[k.thread].after # -1
            /\ assignment[k.thread].source # "user"
        BY <2>2, <3>1, InHand
      <3>. QED  BY <2>4, <3>1, <3>2 DEF Stops, GaveUp
    <2>5. ASSUME NEW a \in work, Requeues(a, b) \/ Unrequests(a, b)
          PROVE  b.at = "close" /\ b.outcome \in GaveUp
      BY <2>5 DEF Requeues, Unrequests, Reports, GaveUp
    <2>6. ASSUME NEW a \in work, Applies(a, b)
          PROVE  FALSE
      <3>1. a.key = k /\ threads'[k.thread].state = "complete"
        BY <2>1, <2>6 DEF Applies, Reports, SettledAs
      <3>. QED  BY <1>2, <2>1, <3>1 DEF Unsettled
    <2>7. ASSUME NEW a \in work, Fails(a, b)
          PROVE  FALSE
      <3>1. a.key = k /\ a.at \notin {"close", "failStep"}
        BY <2>1, <2>7 DEF Fails
      <3>2. /\ threads[k.thread].state = "running" /\ threads[k.thread].hash = k.hash
            /\ assignment[k.thread].source # "user"
        BY <2>2, <3>1, InHand
      <3>3. threads'[k.thread].state = "failed"
        BY <2>2, <2>7, <3>1, <3>2 DEF Fails, SettledAs
      <3>. QED  BY <1>2, <2>1, <3>3 DEF Unsettled
    <2>8. \/ b \in work \/ b.at \notin {"close", "failStep"}
          \/ \E a \in work : Stops(a, b) \/ Requeues(a, b) \/ Unrequests(a, b) \/ Applies(a, b) \/ Fails(a, b)
      <3>1. CASE Idle \/ Files \/ \E t \in Thread : Decides(t)
        BY <3>1 DEF Idle, Files, Decides
      <3>2. CASE \E j \in DOMAIN steps : \E c : Starts(j, c)  BY <3>2 DEF Starts
      <3>3. ASSUME NEW a \in work, \E B : Goes(a, B)
            PROVE  b \in work \/ b.at \notin {"close", "failStep"}
        BY <3>3 DEF Goes
      <3>4. ASSUME NEW a \in work, NEW c,
                   Stops(a, c) \/ Requeues(a, c) \/ Unrequests(a, c) \/ Applies(a, c) \/ Fails(a, c)
            PROVE  b \in work \/ b = c
        BY <3>4 DEF Stops, Requeues, Unrequests, Applies, Fails, Reports
      <3>5. CASE \E a \in work : Shuts(a)  BY <3>5 DEF Shuts
      <3>. QED  BY <3>1, <3>2, <3>3, <3>4, <3>5 DEF Kind, Attempts
    <2>. QED  BY <2>3, <2>4, <2>5, <2>6, <2>7, <2>8
  <1>3. ASSUME NEW k \in DOMAIN steps', Spoken(k)', Unsettled(k.thread)'
        PROVE  steps'[k].status = "open" \/ (steps'[k].status = "complete" /\ steps'[k].result \in GaveUp)
    <2>1. CASE k \notin DOMAIN steps  BY <2>1, StepsAndWork
    <2>2. CASE k \in DOMAIN steps
      <3>1. Spoken(k) /\ Unsettled(k.thread)  BY <1>3, <2>2, WasUnsettled
      <3>2. \A a \in work : a.key = k => (a.at = "close" => a.outcome \in GaveUp) /\ a.at # "failStep"
        BY <3>1 DEF Held
      <3>3. steps[k].status = "open" \/ (steps[k].status = "complete" /\ steps[k].result \in GaveUp)
        BY <2>2, <3>1 DEF Held
      <3>. QED  BY <2>2, <3>2, <3>3, ReportsAre
    <2>. QED  BY <2>1, <2>2
  <1>. QED  BY <1>1, <1>2, <1>3 DEF Held, Spoken, Unsettled

\* Alone is kept.
LEMMA AloneStays ==
    ASSUME TypeOK, Keyed, Chosen, Found, Alone, Kind
    PROVE  Alone'
  <1>. SUFFICES ASSUME Undisturbed' PROVE Single' /\ Working' /\ Held'
    BY DEF Alone
  <1>1. spent'["faults"] = 0 /\ spent["faults"] = 0 /\ spent["revocations"] = 0
    BY CounterNames DEF Undisturbed, Kind, Grown, TypeOK
  <1>2. Single /\ Working /\ Held /\ connected
    BY <1>1 DEF Alone, Undisturbed, Found
  <1>. QED  BY <1>1, <1>2, SingleStays, WorkingStays, HeldStays

\* The invariant holds at first.
LEMMA InitInvariant == Init => IInv
  <1>1. Init => TypeOK  BY InitTyped
  <1>2. Init => DOMAIN steps = {} /\ work = {} /\ connected  BY DEF Init
  <1>3. Init => \A t \in Thread : threads[t].state = "not_requested" /\ assignment[t].source = "none"
    BY DEF Init
  <1>. QED  BY <1>1, <1>2, <1>3 DEF IInv, Keyed, Chosen, Asked, Stands, Answered, Found, Alone,
            Single, Working, Held

\* Every step keeps the invariant.
LEMMA NextInvariant == IInv /\ [Next]_vars => IInv' /\ Kind
  <1>. SUFFICES ASSUME IInv, [Next]_vars PROVE IInv' /\ Kind
    OBVIOUS
  <1>1. TypeOK /\ Keyed /\ Chosen /\ Asked /\ Stands /\ Answered /\ Found /\ Alone
    BY DEF IInv
  <1>2. TypeOK' /\ Kind  BY <1>1, KindOfNext DEF Keyed
  <1>3. Keyed' /\ Chosen' /\ Asked' /\ Stands' /\ Answered' /\ Found' /\ Alone'
    BY <1>1, <1>2, KeyedStays, ChosenStays, AskedStays, StandsStays, AnsweredStays, FoundStays, AloneStays
  <1>. QED  BY <1>2, <1>3 DEF IInv

-----------------------------------------------------------------------------
(* The theorems.                                                           *)

\* The inductive invariant holds: threads, steps and attempts of the labelling agree.
THEOREM LabelsAccounted == Spec => []IInv
  BY InitInvariant, NextInvariant, PTL DEF Spec

\* The variables of ThreadLabels keep their types.
THEOREM WellTyped == Spec => []TypeOK
  <1>1. IInv => TypeOK  BY DEF IInv
  <1>. QED  BY <1>1, LabelsAccounted, PTL

\* A running thread has a step of its own that is open or has ended without a label, and
\* only overlapping or lost attempts leave it one that failed (RunningAccounted).
THEOREM NoneRunsLabelled == Spec => []RunningAccounted
  <1>1. ASSUME IInv PROVE RunningAccounted
    <2>1. TypeOK /\ Keyed /\ Stands /\ Answered /\ Found /\ Alone
      BY <1>1 DEF IInv
    <2>2. ASSUME spent["revocations"] = 0, NEW t \in Thread, threads[t].state = "running"
          PROVE  Admitted(t) /\ (StepOf(t).status = "open" \/ EndedUnlabelled(StepOf(t)))
      <3>1. PICK k : k = KeyOf(t, threads[t])  OBVIOUS
      <3>2. k \in DOMAIN steps /\ k.thread = t /\ Spoken(k) /\ Unsettled(t)
        BY <2>1, <2>2, <3>1 DEF Keyed, Admitted, KeyOf, Spoken, Unsettled
      <3>3. steps[k].status \in {"open", "complete", "failed"} /\ steps[k].result \in Outcome
        BY <2>1, <3>2 DEF TypeOK, Step
      <3>4. CASE spent["faults"] = 0
        BY <2>1, <2>2, <3>1, <3>2, <3>4
           DEF Alone, Undisturbed, Held, GaveUp, Admitted, StepOf, EndedUnlabelled
      <3>5. CASE spent["faults"] # 0
        <4>1. spent["faults"] > 0  BY <2>1, <3>5, CounterNames DEF TypeOK
        <4>2. steps[k].status = "complete" =>
                steps[k].result \in {"superseded", "resolved", "ineligible", "failed"}
          BY <2>1, <2>2, <3>2, <3>3 DEF Stands, Answered, Found, Outcome
        <4>. QED  BY <3>1, <3>2, <3>3, <4>1, <4>2 DEF Admitted, StepOf, EndedUnlabelled
      <3>. QED  BY <3>4, <3>5
    <2>. QED  BY <2>1, <2>2 DEF RunningAccounted
  <1>. QED  BY <1>1, LabelsAccounted, PTL

\* Who writes an assignment.
LEMMA Assigned ==
    ASSUME TypeOK, Kind, NEW t \in Thread
    PROVE  \/ assignment'[t] = assignment[t]
           \/ assignment'[t].source = "user"
           \/ \E a \in work : \E b : Applies(a, b) /\ a.key.thread = t
  <1>1. CASE UNCHANGED assignment  BY <1>1
  <1>2. CASE \E u \in Thread : Decides(u)  BY <1>2 DEF Decides
  <1>3. CASE \E a \in work : \E b : Applies(a, b)  BY <1>3 DEF Applies
  <1>4. UNCHANGED assignment \/ (\E u \in Thread : Decides(u)) \/ \E a \in work : \E b : Applies(a, b)
    <2>1. Idle \/ Files => UNCHANGED assignment  BY DEF Idle, Files
    <2>2. \A k, b : Starts(k, b) => UNCHANGED assignment  BY DEF Starts
    <2>3. ASSUME NEW a \in work, Attempts(a) PROVE UNCHANGED assignment \/ \E b : Applies(a, b)
      <3>1. \A B : Goes(a, B) => UNCHANGED assignment  BY DEF Goes
      <3>2. \A b : Stops(a, b) \/ Requeues(a, b) \/ Unrequests(a, b) \/ Fails(a, b) => UNCHANGED assignment
        BY DEF Stops, Requeues, Unrequests, Fails
      <3>3. Shuts(a) => UNCHANGED assignment  BY DEF Shuts
      <3>. QED  BY <2>3, <3>1, <3>2, <3>3 DEF Attempts
    <2>. QED  BY <2>1, <2>2, <2>3 DEF Kind
  <1>. QED  BY <1>1, <1>2, <1>3, <1>4

\* No attempt replaces a label the user chose (UserDecisionKept).
THEOREM UsersChoiceStands == Spec => UserDecisionKept
  <1>1. ASSUME IInv, [Next]_vars, NEW t \in Thread, assignment[t].source = "user"
        PROVE  assignment'[t].source = "user"
    <2>1. TypeOK /\ Kind  BY <1>1, NextInvariant DEF IInv
    <2>. QED  BY <1>1, <2>1, Assigned DEF Applies
  <1>2. IInv /\ [Next]_vars =>
           [\A t \in Thread : assignment[t].source = "user" => assignment'[t].source = "user"]_vars
    BY <1>1
  <1>. QED  BY <1>2, LabelsAccounted, PTL DEF Spec, UserDecisionKept

\* An answer is applied only for the thread, the analysis version and the definitions it
\* was asked about, while they are current (AppliedCurrent).
THEOREM AnswersAreCurrent == Spec => AppliedCurrent
  <1>. DEFINE Current(t) ==
         (assignment'[t] # assignment[t] /\ assignment'[t].source = "ai") =>
             /\ \E a \in work : /\ a.key.thread = t /\ a.key.version = threads[t].version
                               /\ a.key.hash = CurrentHash /\ a.label = assignment'[t].label
             /\ \/ assignment'[t].label = Others
                \/ <<assignment'[t].label, assignment'[t].version>> \in CurrentHash
  <1>1. ASSUME IInv, [Next]_vars, NEW t \in Thread PROVE Current(t)
    <2>1. TypeOK /\ Kind /\ Asked  BY <1>1, NextInvariant DEF IInv
    <2>2. CASE assignment'[t] = assignment[t] \/ assignment'[t].source = "user"
      BY <2>2
    <2>3. CASE \E a \in work : \E b : Applies(a, b) /\ a.key.thread = t
      <3>1. PICK a \in work : \E b : Applies(a, b) /\ a.key.thread = t  BY <2>3
      <3>2. /\ Spoken(a.key) /\ a.key.hash = CurrentHash /\ a.key.thread = t
            /\ assignment'[t].label = a.label
            /\ a.label # Others => assignment'[t].version = definitions[a.label].version
        BY <3>1 DEF Applies
      <3>3. a.label = Others \/ \E v \in 1 .. MaxDefinition : <<a.label, v>> \in CurrentHash
        BY <2>1, <3>2 DEF Asked
      <3>4. \A v : <<a.label, v>> \in CurrentHash => v = definitions[a.label].version
        BY DEF CurrentHash
      <3>. QED  BY <3>2, <3>3, <3>4 DEF Spoken
    <2>. QED  BY <2>1, <2>2, <2>3, Assigned
  <1>2. IInv /\ [Next]_vars => [\A t \in Thread : Current(t)]_vars  BY <1>1
  <1>. QED  BY <1>2, LabelsAccounted, PTL DEF Spec, AppliedCurrent
=============================================================================
