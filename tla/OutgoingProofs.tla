--------------------------- MODULE OutgoingProofs ---------------------------
(***************************************************************************)
(* Theorems about what leaves the server: Outbox, which hands recorded     *)
(* steps to Temporal, for every set of commands and processes, size of a   *)
(* batch and bound; and DraftWrites, which saves and sends drafts, for     *)
(* every set of intents and requests, pool and bound, with drafts that are *)
(* edited at any moment.  The two share no state: each has its own         *)
(* invariant.                                                              *)
(*                                                                         *)
(* Of DraftWrites, the first part shows that targets exist and sends are   *)
(* on record; the second, on top of it, that a save is written once and    *)
(* that what is sent is what was saved and approved.                       *)
(***************************************************************************)
EXTENDS Outbox, DraftWrites, FiniteSetTheorems, SequenceTheorems, TLAPS

-----------------------------------------------------------------------------
(* Outbox: the inductive invariant.                                        *)

\* Temporal has answered the offer of c, and if c is a step it has an Execution.
Known(c) == c \in received /\ (~Admission(c) => execution[c].status # "none")

\* An Execution x of command c whose row is r: an attempt is only waited for
\* while it is open, and by a step; one more may begin or the end is being
\* recorded; and it does not end before the row of its step has.
Sound(c, x, r) ==
    /\ x.current # 0 => x.status = "open" /\ ~x.reconciling /\ ~Admission(c)
    /\ x.status = "open" /\ x.current = 0 /\ ~x.reconciling => x.tries < MaxAttempts
    /\ ~Admission(c) /\ x.status \in {"completed", "failed"} => r \in Terminal

\* A process has started only what its batch holds, and offers what is recorded.
Orderly(p) ==
    /\ p.at \in {"sweep", "wait"} => p.started = {}
    /\ p.started \subseteq p.batch
    /\ p.at = "start" => \A c \in p.started : Known(c)
    /\ \A c \in p.batch \union p.sweep : steps[c] # "none"

Executions == \A c \in Command : Sound(c, execution[c], steps[c])
Processes == \A w \in Worker : Orderly(worker[w])
Recorded ==
    /\ \A c \in Command : c \in waiting \union owed \/ execution[c].status # "none" => steps[c] # "none"
    /\ \A a \in attempts : ~Admission(a.of) /\ steps[a.of] # "none"
Handed == \A c \in Command : steps[c] # "none" /\ c \notin waiting => Known(c)

OutboxInv == OutboxTypeOK /\ Executions /\ Processes /\ Recorded /\ Handed

-----------------------------------------------------------------------------
LEMMA OutboxInitHolds == OutboxInit => OutboxInv
  <1> SUFFICES ASSUME OutboxInit PROVE OutboxInv  OBVIOUS
  <1>1. Down \in Process /\ None \in Execution
    BY OutboxAssumption DEF Down, Process, None, Execution
  <1>2. OutboxTypeOK
    BY <1>1, OutboxAssumption DEF OutboxInit, OutboxTypeOK, AccountStatus
  <1>3. Executions  BY DEF OutboxInit, Executions, Sound, None
  <1>4. Processes  BY DEF OutboxInit, Processes, Orderly, Down
  <1>5. Recorded /\ Handed  BY DEF OutboxInit, Recorded, Handed, None
  <1>. QED  BY <1>2, <1>3, <1>4, <1>5 DEF OutboxInv

\* One process moves to p; what is recorded stays so, and what the other
\* processes have started stays known.
LEMMA ProcessMoves ==
    ASSUME OutboxInv, NEW w \in Worker, NEW p \in Process,
           worker' = [worker EXCEPT ![w] = p],
           Orderly(p)',
           \A c \in Command : steps[c] # "none" => steps'[c] # "none",
           \A c \in Command : Known(c) /\ Locked(c) => Known(c)'
    PROVE  worker' \in [Worker -> Process] /\ Processes'
  <1>. worker \in [Worker -> Process]  BY DEF OutboxInv, OutboxTypeOK
  <1>1. worker' \in [Worker -> Process]  OBVIOUS
  <1>2. ASSUME NEW v \in Worker PROVE Orderly(worker[v])'
    <2>1. CASE v = w
      <3>1. worker'[v] = p  BY <2>1
      <3>. QED  BY <3>1 DEF Orderly, Known
    <2>2. CASE v # w
      <3>1. worker'[v] = worker[v]  BY <2>2
      <3>2. Orderly(worker[v])  BY DEF OutboxInv, Processes
      <3>3. worker[v].batch \subseteq Command /\ worker[v].sweep \subseteq Command
        BY DEF Process
      <3>4. ASSUME worker[v].at = "start", NEW c \in worker[v].started PROVE Known(c)'
        <4>1. c \in worker[v].batch /\ Known(c)  BY <3>2, <3>4 DEF Orderly
        <4>2. Locked(c)  BY <3>4, <4>1 DEF Locked
        <4>. QED  BY <3>3, <4>1, <4>2
      <3>. QED  BY <3>1, <3>2, <3>3, <3>4 DEF Orderly, Known
    <2>. QED  BY <2>1, <2>2
  <1>. QED  BY <1>1, <1>2 DEF Processes

-----------------------------------------------------------------------------
(* Rows.                                                                   *)

LEMMA EnqueueKeeps ==
    ASSUME OutboxInv, NEW c \in Command, Enqueue(c) PROVE OutboxInv'
  <1>. USE DEF OutboxInv
  <1>1. steps' \in [Command -> {"none"} \union OpenRow \union Terminal]
    BY DEF OutboxTypeOK, Enqueue, OpenRow
  <1>2. \A d \in Command : steps'[d] = IF d = c THEN "queued" ELSE steps[d]
    BY DEF OutboxTypeOK, Enqueue
  <1>3. \A w \in Worker : /\ worker'[w] \in Process
                          /\ worker'[w].at = worker[w].at /\ worker'[w].batch = worker[w].batch
                          /\ worker'[w].started = worker[w].started
                          /\ worker'[w].sweep = worker[w].sweep
    BY DEF OutboxTypeOK, Enqueue, Process
  <1>4. OutboxTypeOK'
    <2>1. worker' \in [Worker -> Process]  BY <1>3 DEF Enqueue
    <2>. QED  BY <1>1, <2>1 DEF OutboxTypeOK, Enqueue
  <1>5. Executions'  BY <1>2 DEF Executions, Sound, Enqueue, Recorded, Terminal
  <1>6. Processes'
    <2> SUFFICES ASSUME NEW w \in Worker PROVE Orderly(worker[w])'  BY DEF Processes
    <2>1. Orderly(worker[w]) /\ worker[w].batch \subseteq Command /\ worker[w].sweep \subseteq Command
      BY DEF Processes, OutboxTypeOK, Process
    <2>2. \A d : Known(d)' = Known(d)  BY DEF Known, Enqueue
    <2>. QED  BY <1>2, <1>3, <2>1, <2>2 DEF Orderly
  <1>7. Recorded'
    <2>1. \A a \in attempts : a.of \in Command  BY DEF OutboxTypeOK, Attempt
    <2>2. \A a \in attempts : ~Admission(a.of) /\ steps'[a.of] # "none"
      BY <1>2, <2>1 DEF Recorded
    <2>3. \A d \in Command :
             d \in waiting' \union owed' \/ execution'[d].status # "none" => steps'[d] # "none"
      BY <1>2 DEF Recorded, Enqueue
    <2>. QED  BY <2>2, <2>3 DEF Recorded, Enqueue
  <1>8. Handed'  BY <1>2 DEF Handed, Known, Enqueue
  <1>. QED  BY <1>4, <1>5, <1>6, <1>7, <1>8

LEMMA AccountTurnsKeeps ==
    ASSUME OutboxInv, NEW status \in AccountStatus, AccountTurns(status) PROVE OutboxInv'
  <1>. USE DEF OutboxInv
  <1>1. /\ steps' \in [Command -> {"none"} \union OpenRow \union Terminal]
        /\ \A d \in Command : steps'[d] = steps[d] \/ (steps[d] \in OpenRow /\ steps'[d] = "failed")
        /\ owed' \subseteq owed
    BY DEF OutboxTypeOK, AccountTurns, Terminal
  <1>2. turns' \in 0 .. MaxTurns
    BY OutboxAssumption DEF OutboxTypeOK, AccountTurns
  <1>3. OutboxTypeOK'  BY <1>1, <1>2 DEF OutboxTypeOK, AccountTurns
  <1>4. Executions'
    <2> SUFFICES ASSUME NEW c \in Command PROVE Sound(c, execution'[c], steps'[c])
      BY DEF Executions, Sound
    <2>1. execution' = execution /\ Sound(c, execution[c], steps[c])
      BY DEF AccountTurns, Executions
    <2>. QED  BY <1>1, <2>1 DEF Sound, Terminal
  <1>5. Processes'
    <2> SUFFICES ASSUME NEW w \in Worker PROVE Orderly(worker[w])'  BY DEF Processes
    <2>1. Orderly(worker[w]) /\ worker[w].batch \subseteq Command /\ worker[w].sweep \subseteq Command
      BY DEF Processes, OutboxTypeOK, Process
    <2>2. (\A d : Known(d)' = Known(d)) /\ worker' = worker  BY DEF Known, AccountTurns
    <2>. QED  BY <1>1, <2>1, <2>2 DEF Orderly
  <1>6. Recorded'  BY <1>1 DEF Recorded, AccountTurns, OutboxTypeOK, Attempt
  <1>7. Handed'  BY <1>1 DEF Handed, Known, AccountTurns, OpenRow
  <1>. QED  BY <1>3, <1>4, <1>5, <1>6, <1>7

-----------------------------------------------------------------------------
(* Processes.                                                              *)

\* A step of a process that touches neither rows nor Executions.
LEMMA OnlyMoves ==
    ASSUME OutboxInv, NEW w \in Worker, NEW p \in Process,
           worker' = [worker EXCEPT ![w] = p], mishaps' \in 0 .. MaxMishaps,
           Orderly(p),
           UNCHANGED <<steps, waiting, owed, execution, received, attempts, account, turns>>
    PROVE  OutboxInv'
  <1>1. Orderly(p)'  BY DEF Orderly, Known
  <1>2. \A c \in Command : steps[c] # "none" => steps'[c] # "none"  OBVIOUS
  <1>3. \A c \in Command : Known(c) /\ Locked(c) => Known(c)'  BY DEF Known
  <1>4. worker' \in [Worker -> Process] /\ Processes'  BY <1>1, <1>2, <1>3, ProcessMoves, Zenon
  <1>5. OutboxTypeOK'  BY <1>4 DEF OutboxInv, OutboxTypeOK
  <1>6. Executions' /\ Recorded' /\ Handed'
    BY DEF OutboxInv, Executions, Recorded, Handed, Known, Sound
  <1>. QED  BY <1>4, <1>5, <1>6 DEF OutboxInv

\* What is known of a process before it moves.
LEMMA Before ==
    ASSUME OutboxInv, NEW w \in Worker
    PROVE  worker[w] \in Process /\ Orderly(worker[w]) /\ mishaps \in 0 .. MaxMishaps /\ MaxMishaps \in Nat
  BY OutboxAssumption DEF OutboxInv, OutboxTypeOK, Processes

LEMMA QuietMoves ==
    ASSUME OutboxInv, NEW w \in Worker,
           Boot(w) \/ SweepEnds(w) \/ Selects(w) \/ Exits(w) \/ RequestStop(w)
             \/ StartFails(w) \/ Crashes(w) \/ LosesSubscription(w)
    PROVE  OutboxInv'
  <1>1. worker[w] \in Process /\ Orderly(worker[w]) /\ mishaps \in 0 .. MaxMishaps /\ MaxMishaps \in Nat
    BY Before
  <1>2. Down \in Process /\ Orderly(Down)  BY DEF Down, Process, Orderly
  <1>3. CASE Boot(w)
    <2> DEFINE p == [Down EXCEPT !.at = "sweep", !.subscribed = TRUE,
                                 !.sweep = IF account = "connected" THEN owed ELSE {}]
    <2>1. p \in Process /\ Orderly(p)
      BY DEF Down, Process, Orderly, OutboxInv, OutboxTypeOK, Recorded
    <2>2. PICK q \in Process : q = p  BY <2>1
    <2>3. Orderly(q)  BY <2>1, <2>2
    <2>. QED  BY <1>1, <1>3, <2>2, <2>3, OnlyMoves DEF Boot, Becomes
  <1>4. CASE SweepEnds(w)
    <2>1. PICK q \in Process : q = Swept(worker[w])  BY <1>1 DEF Swept, Process
    <2>2. Orderly(q)  BY <1>1, <1>4, <2>1 DEF SweepEnds, Swept, Orderly, Process
    <2>. QED  BY <1>1, <1>4, <2>1, <2>2, OnlyMoves DEF SweepEnds, Becomes
  <1>5. CASE Selects(w)
    <2> DEFINE p == [worker[w] EXCEPT !.pending = FALSE]
    <2>1. p \in Process /\ p.at = worker[w].at /\ p.batch = worker[w].batch
          /\ p.started = worker[w].started /\ p.sweep = worker[w].sweep
      BY <1>1 DEF Process
    <2>2. Orderly(p)  BY <1>1, <2>1 DEF Orderly
    <2>3. CASE Becomes(w, Down)
      BY <1>1, <1>2, <1>5, <2>3, OnlyMoves DEF Selects, Becomes
    <2>4. CASE Becomes(w, p)
      <3>1. PICK q \in Process : q = p  BY <2>1
      <3>2. Orderly(q)  BY <2>2, <3>1
      <3>. QED  BY <1>1, <1>5, <2>4, <3>1, <3>2, OnlyMoves DEF Selects, Becomes
    <2>5. ASSUME NEW b \in Batches, Becomes(w, [p EXCEPT !.at = "start", !.batch = b])
          PROVE  OutboxInv'
      <3>1. b \subseteq waiting /\ waiting \subseteq Command
        BY DEF Batches, Free, OutboxInv, OutboxTypeOK
      <3>2. PICK q \in Process : q = [p EXCEPT !.at = "start", !.batch = b]
        BY <2>1, <3>1 DEF Process
      <3>3. q.at = "start" /\ q.batch = b /\ q.started = {} /\ q.sweep = worker[w].sweep
        BY <1>1, <1>5, <2>1, <3>2 DEF Selects, Orderly, Process
      <3>4. Orderly(q)  BY <1>1, <3>1, <3>3 DEF Orderly, OutboxInv, Recorded
      <3>. QED  BY <1>1, <1>5, <2>5, <3>2, <3>4, OnlyMoves DEF Selects, Becomes
    <2>. QED  BY <1>5, <2>3, <2>4, <2>5 DEF Selects
  <1>6. CASE Exits(w)  BY <1>1, <1>2, <1>6, OnlyMoves DEF Exits, Becomes
  <1>7. CASE RequestStop(w)
    <2>1. PICK q \in Process : q = [worker[w] EXCEPT !.stop = TRUE, !.pending = TRUE]
      BY <1>1 DEF Process
    <2>2. Orderly(q)  BY <1>1, <2>1 DEF Orderly, Process
    <2>3. mishaps' \in 0 .. MaxMishaps  BY <1>1, <1>7 DEF RequestStop, Mishap
    <2>. QED  BY <1>7, <2>1, <2>2, <2>3, OnlyMoves DEF RequestStop, Becomes
  <1>8. CASE StartFails(w)
    <2>1. PICK q \in Process : q = [worker[w] EXCEPT !.at = "failed"]
      BY <1>1 DEF Process
    <2>2. Orderly(q)  BY <1>1, <2>1 DEF Orderly, Process
    <2>3. mishaps' \in 0 .. MaxMishaps  BY <1>1, <1>8 DEF StartFails, Mishap
    <2>. QED  BY <1>8, <2>1, <2>2, <2>3, OnlyMoves DEF StartFails, Becomes
  <1>9. CASE Crashes(w)
    <2>1. mishaps' \in 0 .. MaxMishaps  BY <1>1, <1>9 DEF Crashes, Mishap
    <2>. QED  BY <1>2, <1>9, <2>1, OnlyMoves DEF Crashes, Becomes
  <1>10. CASE LosesSubscription(w)
    <2>1. PICK q \in Process : q = [worker[w] EXCEPT !.subscribed = FALSE]
      BY <1>1 DEF Process
    <2>2. Orderly(q)  BY <1>1, <2>1 DEF Orderly, Process
    <2>3. mishaps' \in 0 .. MaxMishaps  BY <1>1, <1>10 DEF LosesSubscription, Mishap
    <2>. QED  BY <1>10, <2>1, <2>2, <2>3, OnlyMoves DEF LosesSubscription, Becomes
  <1>. QED  BY <1>3, <1>4, <1>5, <1>6, <1>7, <1>8, <1>9, <1>10

LEMMA ReadmitKeeps ==
    ASSUME OutboxInv, NEW w \in Worker, NEW c \in Command, Readmit(w, c) PROVE OutboxInv'
  <1>1. worker[w] \in Process /\ Orderly(worker[w])  BY Before
  <1>2. PICK q \in Process : q = [worker[w] EXCEPT !.sweep = @ \ {c}]
    BY <1>1 DEF Process
  <1>3. q.at = "sweep" /\ q.batch = worker[w].batch /\ q.started = {}
        /\ q.sweep = worker[w].sweep \ {c}
    BY <1>1, <1>2 DEF Readmit, Orderly, Process
  <1>4. Orderly(q)'  BY <1>1, <1>3 DEF Orderly, Readmit
  <1>5. \A d \in Command : steps[d] # "none" => steps'[d] # "none"  BY DEF Readmit
  <1>6. \A d \in Command : Known(d) /\ d # c => Known(d)'  BY DEF Known, Readmit
  <1>7. ~Locked(c) /\ steps[c] # "none"  BY <1>1 DEF Readmit, RowFree, Orderly
  <1>8. \A d \in Command : Known(d) /\ Locked(d) => Known(d)'  BY <1>6, <1>7
  <1>9. worker' = [worker EXCEPT ![w] = q]  BY <1>2 DEF Readmit, Becomes
  <1>10. worker' \in [Worker -> Process] /\ Processes'
    BY <1>4, <1>5, <1>8, <1>9, ProcessMoves, Zenon
  <1>11. OutboxTypeOK'  BY <1>10 DEF OutboxInv, OutboxTypeOK, Readmit
  <1>12. Executions' /\ Recorded'
    BY <1>7 DEF OutboxInv, Executions, Recorded, Sound, Readmit
  <1>13. Handed'  BY <1>6 DEF OutboxInv, Handed, Readmit
  <1>. QED  BY <1>10, <1>11, <1>12, <1>13 DEF OutboxInv

\* What Temporal makes of an offer of c.
LEMMA AcceptedExecution ==
    ASSUME OutboxInv, NEW c \in Command
    PROVE  /\ Accepted(c) \in Execution
           /\ Accepted(c).status # "none"
           /\ Sound(c, Accepted(c), steps[c])
  <1>1. execution[c] \in Execution /\ Sound(c, execution[c], steps[c])
    BY DEF OutboxInv, OutboxTypeOK, Executions
  <1>2. c.kind \in Kind /\ MaxAttempts \in Nat \ {0}  BY OutboxAssumption
  <1>3. Opened \in Execution /\ Opened.status # "none" /\ Sound(c, Opened, steps[c])
    <2>1. PICK x : x = Opened  OBVIOUS
    <2>2. x = [status |-> "open", tries |-> 0, current |-> 0, reconciling |-> FALSE, again |-> FALSE]
      BY <2>1 DEF Opened, None
    <2>3. x \in Execution /\ x.status = "open" /\ x.current = 0 /\ x.tries < MaxAttempts
      BY <1>2, <2>2 DEF Execution
    <2>4. Sound(c, x, steps[c])  BY <2>3 DEF Sound
    <2>. QED  BY <2>1, <2>3, <2>4
  <1>4. CASE c.kind = "step"  BY <1>1, <1>3, <1>4 DEF Accepted
  <1>5. CASE c.kind = "run"  BY <1>1, <1>3, <1>5 DEF Accepted
  <1>6. CASE c.kind = "scan"
    <2>1. CASE execution[c].status = "open"
      <3>1. PICK x \in Execution : x = [execution[c] EXCEPT !.again = TRUE]
        BY <1>1 DEF Execution
      <3>2. x.status = "open" /\ x.current = execution[c].current
            /\ x.tries = execution[c].tries /\ x.reconciling = execution[c].reconciling
        BY <1>1, <2>1, <3>1 DEF Execution
      <3>3. Accepted(c) = x  BY <1>6, <2>1, <3>1 DEF Accepted
      <3>4. Sound(c, x, steps[c])
        <4>1. x.current # 0 => x.status = "open" /\ ~x.reconciling /\ ~Admission(c)
          BY <1>1, <3>2, Zenon DEF Sound
        <4>2. x.status = "open" /\ x.current = 0 /\ ~x.reconciling => x.tries < MaxAttempts
          BY <1>1, <2>1, <3>2, Zenon DEF Sound
        <4>. QED  BY <3>2, <4>1, <4>2 DEF Sound
      <3>. QED  BY <3>2, <3>3, <3>4
    <2>2. CASE execution[c].status # "open"  BY <1>3, <1>6, <2>2 DEF Accepted
    <2>. QED  BY <2>1, <2>2
  <1>. QED  BY <1>2, <1>4, <1>5, <1>6 DEF Kind

LEMMA StartsKeeps ==
    ASSUME OutboxInv, NEW w \in Worker, NEW c \in Command, Starts(w, c) PROVE OutboxInv'
  <1>1. worker[w] \in Process /\ Orderly(worker[w])  BY Before
  <1>2. PICK q \in Process : q = [worker[w] EXCEPT !.started = @ \union {c}]
    BY <1>1 DEF Process
  <1>3. /\ q.at = worker[w].at /\ q.batch = worker[w].batch /\ q.sweep = worker[w].sweep
        /\ q.started = worker[w].started \union {c}
        /\ worker[w].at \in {"start", "failed"} /\ c \in worker[w].batch
    BY <1>1, <1>2 DEF Starts, Process
  <1>4. PICK x \in Execution : x = Accepted(c)  BY AcceptedExecution
  <1>5. x.status # "none" /\ Sound(c, x, steps[c])  BY <1>4, AcceptedExecution
  <1>6. /\ execution' \in [Command -> Execution]
        /\ execution'[c] = x /\ \A d \in Command \ {c} : execution'[d] = execution[d]
    BY <1>4 DEF Starts, OutboxInv, OutboxTypeOK
  <1>7. \A d \in Command : Known(d) => Known(d)'  BY <1>5, <1>6 DEF Known, Starts
  <1>8. worker[w].at = "start" => Known(c)'  BY <1>5, <1>6 DEF Known, Starts
  <1>9. Orderly(q)'
    <2>1. worker[w].started \subseteq Command  BY <1>1 DEF Process
    <2>. QED  BY <1>1, <1>3, <1>7, <1>8, <2>1 DEF Orderly, Starts
  <1>10. worker' = [worker EXCEPT ![w] = q]  BY <1>2 DEF Starts, Becomes
  <1>11. \A d \in Command : steps[d] # "none" => steps'[d] # "none"  BY DEF Starts
  <1>12. \A d \in Command : Known(d) /\ Locked(d) => Known(d)'  BY <1>7
  <1>13. worker' \in [Worker -> Process] /\ Processes'
    BY <1>9, <1>10, <1>11, <1>12, ProcessMoves, Zenon
  <1>14. OutboxTypeOK'
    <2>1. received' \subseteq Command  BY DEF Starts, OutboxInv, OutboxTypeOK
    <2>. QED  BY <1>6, <1>13, <2>1 DEF OutboxInv, OutboxTypeOK, Starts
  <1>15. Executions'
    <2> SUFFICES ASSUME NEW d \in Command PROVE Sound(d, execution'[d], steps'[d])
      BY DEF Executions, Sound
    <2>. QED  BY <1>5, <1>6 DEF Starts, OutboxInv, Executions
  <1>16. Recorded'
    <2>1. steps[c] # "none"  BY <1>1, <1>3 DEF Orderly
    <2>. QED  BY <1>6, <2>1 DEF OutboxInv, Recorded, Starts
  <1>17. Handed'  BY <1>7 DEF OutboxInv, Handed, Starts
  <1>. QED  BY <1>13, <1>14, <1>15, <1>16, <1>17 DEF OutboxInv

LEMMA CommitsKeeps ==
    ASSUME OutboxInv, NEW w \in Worker, Commits(w) PROVE OutboxInv'
  <1>1. worker[w] \in Process /\ Orderly(worker[w])  BY Before
  <1>2. PICK q \in Process : q = [worker[w] EXCEPT !.at = "wait", !.pending = TRUE,
                                                   !.batch = {}, !.started = {}]
    BY <1>1 DEF Process
  <1>3. q.at = "wait" /\ q.batch = {} /\ q.started = {} /\ q.sweep = worker[w].sweep
        /\ q.sweep \subseteq Command
    BY <1>1, <1>2 DEF Process
  <1>4. /\ worker[w].at = "start" /\ worker[w].started = worker[w].batch
        /\ waiting' = waiting \ worker[w].batch
        /\ worker' = [worker EXCEPT ![w] = q]
        /\ steps' = [d \in Command |-> IF d \in worker[w].batch /\ Admission(d) THEN "complete" ELSE steps[d]]
        /\ UNCHANGED <<owed, execution, received, attempts, account, mishaps, turns>>
    BY <1>2 DEF Commits, Becomes
  <1>5. \A d \in Command : steps'[d] = steps[d] \/ (Admission(d) /\ steps'[d] = "complete")
    BY <1>4
  <1>6. \A d \in Command : Known(d) => Known(d)'  BY <1>4 DEF Known
  <1>7. Orderly(q)'  BY <1>1, <1>3, <1>5 DEF Orderly
  <1>8. \A d \in Command : steps[d] # "none" => steps'[d] # "none"  BY <1>5
  <1>9. \A d \in Command : Known(d) /\ Locked(d) => Known(d)'  BY <1>6
  <1>10. worker' \in [Worker -> Process] /\ Processes'
    <2>1. worker' = [worker EXCEPT ![w] = q]  BY <1>4
    <2>. QED  BY <1>7, <1>8, <1>9, <2>1, ProcessMoves, Zenon
  <1>11. OutboxTypeOK'
    <2>1. steps' \in [Command -> {"none"} \union OpenRow \union Terminal]
      BY <1>4 DEF OutboxInv, OutboxTypeOK, Terminal
    <2>. QED  BY <1>4, <1>10, <2>1 DEF OutboxInv, OutboxTypeOK
  <1>12. Executions'
    <2> SUFFICES ASSUME NEW d \in Command PROVE Sound(d, execution'[d], steps'[d])
      BY DEF Executions, Sound
    <2>1. Sound(d, execution[d], steps[d])  BY DEF OutboxInv, Executions
    <2>. QED  BY <1>4, <1>5, <2>1 DEF Sound
  <1>13. Recorded'
    <2>1. \A a \in attempts : a.of \in Command  BY DEF OutboxInv, OutboxTypeOK, Attempt
    <2>. QED  BY <1>4, <1>5, <2>1 DEF OutboxInv, Recorded
  <1>14. Handed'
    <2> SUFFICES ASSUME NEW d \in Command, steps'[d] # "none", d \notin waiting' PROVE Known(d)'
      BY DEF Handed
    <2>1. CASE d \in worker[w].batch
      <3>1. Known(d)  BY <1>1, <1>4, <2>1 DEF Orderly
      <3>. QED  BY <1>6, <3>1
    <2>2. CASE d \notin worker[w].batch
      <3>1. steps[d] # "none" /\ d \notin waiting  BY <1>4, <2>2
      <3>. QED  BY <1>6, <3>1 DEF OutboxInv, Handed
    <2>. QED  BY <2>1, <2>2
  <1>. QED  BY <1>10, <1>11, <1>12, <1>13, <1>14 DEF OutboxInv

-----------------------------------------------------------------------------
(* Executions and attempts.                                                *)

\* The Execution of c becomes x and its row r, while processes stand still.
LEMMA ExecutionMoves ==
    ASSUME OutboxInv, NEW c \in Command,
           NEW x \in Execution, NEW r \in OpenRow \union Terminal,
           execution' = [execution EXCEPT ![c] = x], steps' = [steps EXCEPT ![c] = r],
           Sound(c, x, r), steps[c] # "none",
           execution[c].status # "none" => x.status # "none",
           owed' \subseteq owed, attempts' \subseteq Attempt,
           \A a \in attempts' : ~Admission(a.of) /\ steps[a.of] # "none",
           mishaps' \in 0 .. MaxMishaps,
           UNCHANGED <<waiting, received, worker, account, turns>>
    PROVE  OutboxInv'
  <1>1. /\ steps' \in [Command -> {"none"} \union OpenRow \union Terminal]
        /\ \A d \in Command : steps'[d] = IF d = c THEN r ELSE steps[d]
        /\ r # "none"
    BY DEF OutboxInv, OutboxTypeOK, OpenRow, Terminal
  <1>2. /\ execution' \in [Command -> Execution]
        /\ \A d \in Command : execution'[d] = IF d = c THEN x ELSE execution[d]
    BY DEF OutboxInv, OutboxTypeOK
  <1>3. OutboxTypeOK'  BY <1>1, <1>2 DEF OutboxInv, OutboxTypeOK
  <1>4. Executions'
    <2> SUFFICES ASSUME NEW d \in Command PROVE Sound(d, execution'[d], steps'[d])
      BY DEF Executions, Sound
    <2>. QED  BY <1>1, <1>2 DEF OutboxInv, Executions
  <1>5. \A d \in Command : Known(d) => Known(d)'  BY <1>2 DEF Known
  <1>6. Processes'
    <2> SUFFICES ASSUME NEW w \in Worker PROVE Orderly(worker[w])'  BY DEF Processes
    <2>1. Orderly(worker[w]) /\ worker[w] \in Process /\ worker' = worker  BY Before
    <2>2. worker[w].batch \subseteq Command /\ worker[w].sweep \subseteq Command
          /\ worker[w].started \subseteq Command
      BY <2>1 DEF Process
    <2>. QED  BY <1>1, <1>5, <2>1, <2>2 DEF Orderly
  <1>7. Recorded'
    <2>1. \A a \in attempts' : a.of \in Command  BY DEF Attempt
    <2>. QED  BY <1>1, <1>2, <2>1 DEF OutboxInv, Recorded
  <1>8. Handed'
    <2> SUFFICES ASSUME NEW d \in Command, steps'[d] # "none", d \notin waiting' PROVE Known(d)'
      BY DEF Handed
    <2>1. steps[d] # "none" /\ d \notin waiting  BY <1>1
    <2>. QED  BY <1>5, <2>1 DEF OutboxInv, Handed
  <1>. QED  BY <1>3, <1>4, <1>6, <1>7, <1>8 DEF OutboxInv

\* What is known of an Execution that is open.
LEMMA OpenBefore ==
    ASSUME OutboxInv, NEW c \in Command, Open(c)
    PROVE  /\ execution[c] \in Execution /\ Sound(c, execution[c], steps[c])
           /\ steps[c] \in OpenRow \union Terminal /\ steps[c] # "none"
           /\ steps = [steps EXCEPT ![c] = steps[c]]
           /\ MaxAttempts \in Nat \ {0} /\ mishaps \in 0 .. MaxMishaps /\ MaxMishaps \in Nat
           /\ attempts \subseteq Attempt
           /\ \A a \in attempts : ~Admission(a.of) /\ steps[a.of] # "none"
  <1>1. steps[c] # "none"  BY DEF OutboxInv, Recorded, Open
  <1>. QED  BY <1>1, OutboxAssumption DEF OutboxInv, OutboxTypeOK, Executions, Recorded

LEMMA ExecutionEndsKeeps ==
    ASSUME OutboxInv, NEW c \in Command, ExecutionEnds(c) \/ ExecutionFails(c) PROVE OutboxInv'
  <1>1. Admission(c) /\ Open(c)  BY DEF ExecutionEnds, ExecutionFails
  <1>2. /\ execution[c] \in Execution /\ Sound(c, execution[c], steps[c])
        /\ steps[c] \in OpenRow \union Terminal /\ steps[c] # "none"
        /\ steps = [steps EXCEPT ![c] = steps[c]]
        /\ mishaps \in 0 .. MaxMishaps /\ MaxMishaps \in Nat
        /\ attempts \subseteq Attempt
        /\ \A a \in attempts : ~Admission(a.of) /\ steps[a.of] # "none"
    BY <1>1, OpenBefore
  <1>3. \E s \in {"open", "completed", "failed"} :
           execution' = [execution EXCEPT ![c] = [@ EXCEPT !.again = FALSE, !.status = s]]
    BY DEF ExecutionEnds, ExecutionFails
  <1>4. PICK s \in {"open", "completed", "failed"} :
           execution' = [execution EXCEPT ![c] = [@ EXCEPT !.again = FALSE, !.status = s]]
    BY <1>3
  <1>5. PICK x \in Execution : x = [execution[c] EXCEPT !.again = FALSE, !.status = s]
    BY <1>2 DEF Execution
  <1>6. x.status = s /\ x.current = execution[c].current /\ x.tries = execution[c].tries
        /\ x.reconciling = execution[c].reconciling
    BY <1>2, <1>5 DEF Execution
  <1>7. Sound(c, x, steps[c])
    <2>1. x.current = 0  BY <1>1, <1>2, <1>6 DEF Sound
    <2>2. x.status = "open" /\ x.current = 0 /\ ~x.reconciling => x.tries < MaxAttempts
      BY <1>1, <1>2, <1>6, Zenon DEF Sound, Open
    <2>. QED  BY <1>1, <2>1, <2>2 DEF Sound
  <1>8. execution' = [execution EXCEPT ![c] = x]  BY <1>4, <1>5 DEF OutboxInv, OutboxTypeOK
  <1>9. mishaps' \in 0 .. MaxMishaps
    BY <1>2 DEF ExecutionEnds, ExecutionFails, Mishap
  <1>10. owed' \subseteq owed  BY DEF ExecutionEnds, ExecutionFails
  <1>11. UNCHANGED <<steps, waiting, received, attempts, worker, account, turns>>
    BY DEF ExecutionEnds, ExecutionFails
  <1>. QED  BY <1>2, <1>6, <1>7, <1>8, <1>9, <1>10, <1>11, ExecutionMoves

LEMMA AttemptBeginsKeeps ==
    ASSUME OutboxInv, NEW c \in Command, AttemptBegins(c) PROVE OutboxInv'
  <1>1. ~Admission(c) /\ Open(c)  BY DEF AttemptBegins, Admission
  <1>2. /\ execution[c] \in Execution /\ Sound(c, execution[c], steps[c])
        /\ steps[c] \in OpenRow \union Terminal /\ steps[c] # "none"
        /\ steps = [steps EXCEPT ![c] = steps[c]]
        /\ MaxAttempts \in Nat \ {0} /\ mishaps \in 0 .. MaxMishaps
        /\ attempts \subseteq Attempt
        /\ \A a \in attempts : ~Admission(a.of) /\ steps[a.of] # "none"
    BY <1>1, OpenBefore
  <1>3. execution[c].status = "open" /\ execution[c].current = 0 /\ ~execution[c].reconciling
    BY <1>1 DEF AttemptBegins, Open
  <1>4. execution[c].tries < MaxAttempts /\ execution[c].tries \in 0 .. MaxAttempts
    BY <1>2, <1>3 DEF Sound, Execution
  <1>5. PICK n \in 1 .. MaxAttempts : n = execution[c].tries + 1  BY <1>2, <1>4
  <1>6. PICK x \in Execution : x = [execution[c] EXCEPT !.tries = n, !.current = n]
    <2>1. n \in 0 .. MaxAttempts  OBVIOUS
    <2>. QED  BY <1>2, <2>1, Zenon DEF Execution
  <1>7. x.status = "open" /\ x.current = n /\ x.reconciling = execution[c].reconciling
    BY <1>2, <1>3, <1>6 DEF Execution
  <1>8. Sound(c, x, steps[c])
    <2>1. ~x.reconciling  BY <1>3, <1>7, Zenon
    <2>2. x.current # 0 /\ x.status = "open" /\ x.status \notin {"completed", "failed"}
      BY <1>5, <1>7
    <2>. QED  BY <1>1, <2>1, <2>2, Zenon DEF Sound
  <1>9. execution' = [execution EXCEPT ![c] = x]
    BY <1>5, <1>6 DEF AttemptBegins, OutboxInv, OutboxTypeOK
  <1>10. PICK b \in Attempt : b = [of |-> c, number |-> n, at |-> "mark"]  BY <1>5 DEF Attempt
  <1>11. b.of = c /\ attempts' = attempts \union {b}  BY <1>5, <1>10 DEF AttemptBegins
  <1>12. attempts' \subseteq Attempt /\ \A a \in attempts' : ~Admission(a.of) /\ steps[a.of] # "none"
    BY <1>1, <1>2, <1>10, <1>11
  <1>13. UNCHANGED <<steps, waiting, owed, received, worker, account, mishaps, turns>>
    BY DEF AttemptBegins
  <1>. QED  BY <1>2, <1>7, <1>8, <1>9, <1>12, <1>13, ExecutionMoves

\* The attempt Temporal waits for is over, or has timed out.
LEMMA FailedExecution ==
    ASSUME OutboxInv, NEW c \in Command, NEW r, Open(c)
    PROVE  /\ Failed(c) \in Execution /\ Failed(c).status = "open" /\ Sound(c, Failed(c), r)
  <1>1. execution[c] \in Execution /\ Sound(c, execution[c], steps[c]) /\ MaxAttempts \in Nat \ {0}
    BY OpenBefore
  <1>2. Failed(c) \in Execution
    <2>1. PICK b \in BOOLEAN : b = (execution[c].tries = MaxAttempts)  OBVIOUS
    <2>2. 0 \in 0 .. MaxAttempts  BY <1>1
    <2>3. Failed(c) = [execution[c] EXCEPT !.current = 0, !.reconciling = b]
      BY <2>1, Zenon DEF Failed
    <2>. QED  BY <1>1, <2>2, <2>3, Zenon DEF Execution
  <1>3. /\ Failed(c).status = "open" /\ Failed(c).current = 0
        /\ Failed(c).tries = execution[c].tries
        /\ Failed(c).reconciling = (execution[c].tries = MaxAttempts)
    BY <1>1 DEF Failed, Execution, Open
  <1>4. execution[c].tries # MaxAttempts => execution[c].tries < MaxAttempts
    BY <1>1 DEF Execution
  <1>5. ~Failed(c).reconciling => Failed(c).tries < MaxAttempts  BY <1>3, <1>4, Zenon
  <1>. QED  BY <1>2, <1>3, <1>5 DEF Sound

LEMMA AttemptTimesOutKeeps ==
    ASSUME OutboxInv, NEW c \in Command, AttemptTimesOut(c) PROVE OutboxInv'
  <1>1. Open(c)  BY DEF AttemptTimesOut
  <1>2. /\ steps[c] \in OpenRow \union Terminal /\ steps[c] # "none"
        /\ steps = [steps EXCEPT ![c] = steps[c]]
        /\ mishaps \in 0 .. MaxMishaps /\ MaxMishaps \in Nat
        /\ attempts \subseteq Attempt
        /\ \A a \in attempts : ~Admission(a.of) /\ steps[a.of] # "none"
    BY <1>1, OpenBefore
  <1>3. PICK x \in Execution : x = Failed(c)  BY <1>1, FailedExecution
  <1>4. x.status # "none" /\ Sound(c, x, steps[c])  BY <1>1, <1>3, FailedExecution
  <1>5. execution' = [execution EXCEPT ![c] = x]  BY <1>3 DEF AttemptTimesOut
  <1>6. mishaps' \in 0 .. MaxMishaps  BY <1>2 DEF AttemptTimesOut, Mishap
  <1>7. UNCHANGED <<steps, waiting, owed, received, attempts, worker, account, turns>>
    BY DEF AttemptTimesOut
  <1>. QED  BY <1>2, <1>4, <1>5, <1>6, <1>7, ExecutionMoves

LEMMA ReconcilesKeeps ==
    ASSUME OutboxInv, NEW c \in Command, Reconciles(c) \/ ReconcileFails(c) PROVE OutboxInv'
  <1>1. Open(c) /\ execution[c].reconciling  BY DEF Reconciles, ReconcileFails
  <1>2. /\ execution[c] \in Execution /\ Sound(c, execution[c], steps[c])
        /\ steps[c] \in OpenRow \union Terminal /\ steps[c] # "none"
        /\ steps = [steps EXCEPT ![c] = steps[c]]
        /\ mishaps \in 0 .. MaxMishaps
        /\ attempts \subseteq Attempt
        /\ \A a \in attempts : ~Admission(a.of) /\ steps[a.of] # "none"
    BY <1>1, OpenBefore
  <1>3. execution[c].current = 0  BY <1>1, <1>2 DEF Sound
  <1>4. UNCHANGED <<waiting, owed, received, attempts, worker, account, mishaps, turns>>
    BY DEF Reconciles, ReconcileFails
  <1>5. CASE Reconciles(c)
    <2>1. PICK x \in Execution : x = [execution[c] EXCEPT !.status = "failed", !.reconciling = FALSE]
      BY <1>2 DEF Execution
    <2>2. PICK r \in Terminal : r = Unsettled(c, "failed")
      BY <1>2 DEF Unsettled, Terminal
    <2>3. x.status = "failed" /\ x.current = 0  BY <1>2, <1>3, <2>1 DEF Execution
    <2>4. Sound(c, x, r)  BY <2>2, <2>3 DEF Sound
    <2>5. execution' = [execution EXCEPT ![c] = x]
      BY <1>5, <2>1 DEF Reconciles, OutboxInv, OutboxTypeOK
    <2>6. steps' = [steps EXCEPT ![c] = r]  BY <1>5, <2>2 DEF Reconciles
    <2>. QED  BY <1>2, <1>4, <2>3, <2>4, <2>5, <2>6, ExecutionMoves
  <1>6. CASE ReconcileFails(c)
    <2>1. PICK x \in Execution : x = [execution[c] EXCEPT !.status = "abandoned", !.reconciling = FALSE]
      BY <1>2 DEF Execution
    <2>2. x.status = "abandoned" /\ x.current = 0  BY <1>2, <1>3, <2>1 DEF Execution
    <2>3. Sound(c, x, steps[c])  BY <2>2 DEF Sound
    <2>4. execution' = [execution EXCEPT ![c] = x]
      BY <1>6, <2>1 DEF ReconcileFails, OutboxInv, OutboxTypeOK
    <2>5. steps' = steps  BY <1>6 DEF ReconcileFails
    <2>. QED  BY <1>2, <1>4, <2>2, <2>3, <2>4, <2>5, ExecutionMoves
  <1>. QED  BY <1>5, <1>6

\* What is known of an attempt.
LEMMA AttemptBefore ==
    ASSUME OutboxInv, NEW a \in attempts
    PROVE  /\ a \in Attempt /\ a.of \in Command /\ a.number \in 1 .. MaxAttempts
           /\ ~Admission(a.of) /\ steps[a.of] \in OpenRow \union Terminal
           /\ execution[a.of] \in Execution
           /\ Sound(a.of, execution[a.of], steps[a.of])
           /\ Waits(a) => Open(a.of) /\ execution[a.of].current # 0
           /\ MaxAttempts \in Nat \ {0} /\ mishaps \in 0 .. MaxMishaps /\ MaxMishaps \in Nat
           /\ execution = [execution EXCEPT ![a.of] = execution[a.of]]
           /\ steps = [steps EXCEPT ![a.of] = steps[a.of]]
  <1>1. a \in Attempt /\ ~Admission(a.of) /\ steps[a.of] # "none"
    BY DEF OutboxInv, OutboxTypeOK, Recorded
  <1>2. a.of \in Command /\ a.number \in 1 .. MaxAttempts  BY <1>1 DEF Attempt
  <1>3. steps[a.of] \in OpenRow \union Terminal  BY <1>1, <1>2 DEF OutboxInv, OutboxTypeOK
  <1>4. execution[a.of] \in Execution /\ Sound(a.of, execution[a.of], steps[a.of])
    BY <1>2 DEF OutboxInv, OutboxTypeOK, Executions
  <1>5. Waits(a) => execution[a.of].current # 0  BY <1>2, OutboxAssumption DEF Waits
  <1>6. Waits(a) => Open(a.of)  BY <1>4, <1>5 DEF Sound, Open
  <1>. QED  BY <1>1, <1>2, <1>3, <1>4, <1>5, <1>6, OutboxAssumption DEF OutboxInv, OutboxTypeOK

\* An attempt goes on to another stage.
LEMMA AttemptGoesOn ==
    ASSUME NEW a \in attempts, NEW at \in {"mark", "work", "fail"}, Goes(a, at),
           attempts \subseteq Attempt,
           \A b \in attempts : ~Admission(b.of) /\ steps[b.of] # "none"
    PROVE  /\ attempts' \subseteq Attempt
           /\ \A b \in attempts' : ~Admission(b.of) /\ steps[b.of] # "none"
  <1>1. PICK b \in Attempt : b = [a EXCEPT !.at = at]  BY DEF Attempt
  <1>2. b.of = a.of  BY <1>1 DEF Attempt
  <1>3. attempts' = (attempts \ {a}) \union {b}  BY <1>1 DEF Goes
  <1>. QED  BY <1>2, <1>3

\* The answer that ends an Execution.
LEMMA ReturnedExecution ==
    ASSUME NEW c \in Command, execution[c] \in Execution, NEW s \in {"completed", "refused"}
    PROVE  Returned(c, s) \in Execution /\ Returned(c, s).status = s /\ Returned(c, s).current = 0
  <1>1. 0 \in 0 .. MaxAttempts  BY OutboxAssumption
  <1>. QED  BY <1>1, Zenon DEF Returned, Execution

\* An attempt writes r to its row and reports x, which counts if it is waited for.
LEMMA AttemptMoves ==
    ASSUME OutboxInv, NEW a \in attempts, NEW x \in Execution, NEW r \in OpenRow \union Terminal,
           Reports(a, x), steps' = [steps EXCEPT ![a.of] = r],
           steps[a.of] \in Terminal => r \in Terminal,
           Waits(a) => Sound(a.of, x, r) /\ x.status # "none",
           attempts' \subseteq Attempt,
           \A b \in attempts' : ~Admission(b.of) /\ steps[b.of] # "none",
           mishaps' \in 0 .. MaxMishaps,
           UNCHANGED <<waiting, owed, received, worker, account, turns>>
    PROVE  OutboxInv'
  <1>1. /\ a.of \in Command /\ steps[a.of] \in OpenRow \union Terminal /\ steps[a.of] # "none"
        /\ execution[a.of] \in Execution
        /\ Sound(a.of, execution[a.of], steps[a.of])
        /\ execution = [execution EXCEPT ![a.of] = execution[a.of]]
    BY AttemptBefore DEF OpenRow, Terminal
  <1>2. CASE Waits(a)
    <2>1. execution' = [execution EXCEPT ![a.of] = x]  BY <1>2 DEF Reports
    <2>. QED  BY <1>1, <1>2, <2>1, ExecutionMoves
  <1>3. CASE ~Waits(a)
    <2>1. PICK y \in Execution : y = execution[a.of]  BY <1>1
    <2>2. execution' = [execution EXCEPT ![a.of] = y]  BY <1>1, <1>3, <2>1 DEF Reports
    <2>3. Sound(a.of, y, r)  BY <1>1, <2>1, Zenon DEF Sound
    <2>. QED  BY <1>1, <1>3, <2>1, <2>2, <2>3, ExecutionMoves
  <1>. QED  BY <1>2, <1>3

LEMMA MarksKeeps ==
    ASSUME OutboxInv, NEW a \in attempts, Marks(a) PROVE OutboxInv'
  <1>1. /\ a \in Attempt /\ a.of \in Command /\ ~Admission(a.of)
        /\ steps[a.of] \in OpenRow \union Terminal
        /\ execution[a.of] \in Execution
        /\ execution = [execution EXCEPT ![a.of] = execution[a.of]]
        /\ steps = [steps EXCEPT ![a.of] = steps[a.of]]
        /\ Sound(a.of, execution[a.of], steps[a.of])
        /\ mishaps \in 0 .. MaxMishaps
        /\ attempts \subseteq Attempt
    BY AttemptBefore DEF OutboxInv, OutboxTypeOK
  <1>2. \A b \in attempts : ~Admission(b.of) /\ steps[b.of] # "none"  BY DEF OutboxInv, Recorded
  <1>3. steps[a.of] # "none"  BY <1>2
  <1>4. UNCHANGED <<waiting, owed, received, worker, account, mishaps, turns>>  BY DEF Marks
  <1>5. CASE steps[a.of] \in OpenRow /\ account = "connected"
    <2>1. steps' = [steps EXCEPT ![a.of] = "running"] /\ Goes(a, "work") /\ UNCHANGED execution
      BY <1>5 DEF Marks
    <2>2. attempts' \subseteq Attempt /\ \A b \in attempts' : ~Admission(b.of) /\ steps[b.of] # "none"
      BY <1>1, <1>2, <2>1, AttemptGoesOn
    <2>3. PICK x \in Execution : x = execution[a.of]  BY <1>1
    <2>4. PICK r \in OpenRow : r = "running"  BY DEF OpenRow
    <2>5. Sound(a.of, x, r)  BY <1>1, <1>5, <2>3, Zenon DEF Sound, OpenRow, Terminal
    <2>6. execution' = [execution EXCEPT ![a.of] = x]  BY <1>1, <2>1, <2>3
    <2>7. steps' = [steps EXCEPT ![a.of] = r]  BY <2>1, <2>4
    <2>. QED  BY <1>1, <1>3, <1>4, <2>2, <2>3, <2>5, <2>6, <2>7, ExecutionMoves
  <1>6. CASE ~(steps[a.of] \in OpenRow /\ account = "connected")
    <2> DEFINE s == IF steps[a.of] \in OpenRow THEN "refused" ELSE "completed"
    <2>1. PICK x \in Execution : x = Returned(a.of, s)  BY <1>1, ReturnedExecution
    <2>2. x.status = s /\ x.current = 0  BY <1>1, <2>1, ReturnedExecution
    <2>3. Sound(a.of, x, steps[a.of])  BY <1>1, <2>2 DEF Sound
    <2>4. Reports(a, x) /\ attempts' = attempts \ {a} /\ steps' = steps  BY <1>6, <2>1 DEF Marks
    <2>. QED  BY <1>1, <1>2, <1>4, <2>2, <2>3, <2>4, AttemptMoves
  <1>. QED  BY <1>5, <1>6

LEMMA EndsKeeps ==
    ASSUME OutboxInv, NEW a \in attempts, WorkFails(a) \/ Completes(a) \/ Fails(a) PROVE OutboxInv'
  <1>1. /\ a \in Attempt /\ a.of \in Command /\ ~Admission(a.of)
        /\ steps[a.of] \in OpenRow \union Terminal
        /\ execution[a.of] \in Execution
        /\ execution = [execution EXCEPT ![a.of] = execution[a.of]]
        /\ steps = [steps EXCEPT ![a.of] = steps[a.of]]
        /\ Sound(a.of, execution[a.of], steps[a.of])
        /\ Waits(a) => Open(a.of)
        /\ mishaps \in 0 .. MaxMishaps /\ MaxMishaps \in Nat
        /\ attempts \subseteq Attempt
    BY AttemptBefore DEF OutboxInv, OutboxTypeOK
  <1>2. \A b \in attempts : ~Admission(b.of) /\ steps[b.of] # "none"  BY DEF OutboxInv, Recorded
  <1>3. steps[a.of] # "none"  BY <1>2
  <1>4. UNCHANGED <<waiting, owed, received, worker, account, turns>>
    BY DEF WorkFails, Completes, Fails
  <1>5. mishaps' \in 0 .. MaxMishaps  BY <1>1 DEF WorkFails, Completes, Fails, Mishap
  <1>6. CASE WorkFails(a)
    <2>1. attempts' \subseteq Attempt /\ \A b \in attempts' : ~Admission(b.of) /\ steps[b.of] # "none"
      BY <1>1, <1>2, <1>6, AttemptGoesOn DEF WorkFails
    <2>2. PICK x \in Execution : x = execution[a.of]  BY <1>1
    <2>3. PICK r \in OpenRow \union Terminal : r = steps[a.of]  BY <1>1
    <2>4. execution' = [execution EXCEPT ![a.of] = x] /\ steps' = [steps EXCEPT ![a.of] = r]
      BY <1>1, <1>6, <2>2, <2>3 DEF WorkFails
    <2>5. Sound(a.of, x, r)  BY <1>1, <2>2, <2>3
    <2>. QED  BY <1>1, <1>3, <1>4, <1>5, <2>1, <2>2, <2>4, <2>5, ExecutionMoves
  <1>7. CASE Completes(a)
    <2>1. PICK r \in Terminal : r = Unsettled(a.of, "complete")  BY <1>1 DEF Unsettled, Terminal
    <2>2. PICK x \in Execution : x = Returned(a.of, "completed")  BY <1>1, ReturnedExecution
    <2>3. x.status = "completed" /\ x.current = 0  BY <1>1, <2>2, ReturnedExecution
    <2>4. Sound(a.of, x, r)  BY <2>1, <2>3 DEF Sound
    <2>5. steps' = [steps EXCEPT ![a.of] = r] /\ Reports(a, x) /\ attempts' = attempts \ {a}
      BY <1>7, <2>1, <2>2 DEF Completes
    <2>. QED  BY <1>1, <1>2, <1>4, <1>5, <2>1, <2>3, <2>4, <2>5, AttemptMoves
  <1>8. CASE Fails(a)
    <2>1. PICK r \in OpenRow \union Terminal :
             r = Unsettled(a.of, IF a.number = MaxAttempts THEN "failed" ELSE "queued")
      BY <1>1 DEF Unsettled, Terminal, OpenRow
    <2>2. steps[a.of] \in Terminal => r \in Terminal  BY <2>1 DEF Unsettled, OpenRow, Terminal
    <2>3. steps' = [steps EXCEPT ![a.of] = r] /\ Reports(a, Failed(a.of)) /\ attempts' = attempts \ {a}
      BY <1>8, <2>1 DEF Fails
    <2>4. CASE Waits(a)
      <3>1. PICK x \in Execution : x = Failed(a.of)  BY <1>1, <2>4, FailedExecution
      <3>2. x.status = "open" /\ Sound(a.of, x, r)  BY <1>1, <2>4, <3>1, FailedExecution
      <3>3. Reports(a, x)  BY <2>3, <3>1
      <3>. QED  BY <1>1, <1>2, <1>4, <1>5, <2>2, <2>3, <3>2, <3>3, AttemptMoves
    <2>5. CASE ~Waits(a)
      <3>1. PICK x \in Execution : x = execution[a.of]  BY <1>1
      <3>2. Reports(a, x)  BY <2>3, <2>5 DEF Reports
      <3>. QED  BY <1>1, <1>2, <1>4, <1>5, <2>2, <2>3, <2>5, <3>2, AttemptMoves
    <2>. QED  BY <2>4, <2>5
  <1>. QED  BY <1>6, <1>7, <1>8

-----------------------------------------------------------------------------
LEMMA OutboxNextKeeps == ASSUME OutboxInv, [OutboxNext]_outboxVars PROVE OutboxInv'
  <1>1. ASSUME NEW w \in Worker, Loop(w) \/ StartFails(w) \/ Crashes(w) \/ LosesSubscription(w)
        PROVE  OutboxInv'
    <2>1. CASE \E c \in Command : Readmit(w, c)  BY <2>1, ReadmitKeeps
    <2>2. CASE \E c \in Command : Starts(w, c)  BY <2>2, StartsKeeps
    <2>3. CASE Commits(w)  BY <2>3, CommitsKeeps
    <2>4. CASE Boot(w) \/ SweepEnds(w) \/ Selects(w) \/ Exits(w) \/ RequestStop(w)
                 \/ StartFails(w) \/ Crashes(w) \/ LosesSubscription(w)
      BY <2>4, QuietMoves
    <2>. QED  BY <1>1, <2>1, <2>2, <2>3, <2>4 DEF Loop
  <1>2. ASSUME NEW c \in Command,
               \/ Enqueue(c) \/ ExecutionEnds(c) \/ ExecutionFails(c)
               \/ AttemptBegins(c) \/ AttemptTimesOut(c) \/ Reconciles(c) \/ ReconcileFails(c)
        PROVE  OutboxInv'
    BY <1>2, EnqueueKeeps, ExecutionEndsKeeps, AttemptBeginsKeeps, AttemptTimesOutKeeps,
       ReconcilesKeeps
  <1>3. ASSUME NEW a \in attempts, Marks(a) \/ WorkFails(a) \/ Completes(a) \/ Fails(a)
        PROVE  OutboxInv'
    BY <1>3, MarksKeeps, EndsKeeps
  <1>4. ASSUME NEW status \in AccountStatus, AccountTurns(status) PROVE OutboxInv'
    BY <1>4, AccountTurnsKeeps
  <1>5. CASE UNCHANGED outboxVars
  
    BY <1>5 DEF outboxVars, OutboxInv, OutboxTypeOK, Executions, Sound, Processes, Orderly, Known, Recorded, Handed
  <1>. QED  BY <1>1, <1>2, <1>3, <1>4, <1>5 DEF OutboxNext

LEMMA OutboxInductive == OutboxSpec => []OutboxInv
  BY OutboxInitHolds, OutboxNextKeeps, PTL DEF OutboxSpec

\* Whatever the workers do, a command that is marked dispatched has been answered
\* by Temporal, and an open step has a command or an Execution that settles it
\* (dispatchTemporalCommandBatch, readmitWorkflowStep, workflowStepWorkflow).
THEOREM NothingIsLost == OutboxSpec => []NothingLost
  <1>1. OutboxInv => NothingLost
    <2> SUFFICES ASSUME OutboxInv PROVE NothingLost  OBVIOUS
    <2>1. OutboxTypeOK  BY DEF OutboxInv
    <2>2. \A c \in Command : steps[c] # "none" /\ c \notin waiting => c \in received
      BY DEF OutboxInv, Handed, Known
    <2>3. ASSUME NEW c \in Command, ~Admission(c), steps[c] \in OpenRow, c \notin waiting
          PROVE  execution[c].status \in {"open", "refused", "abandoned"}
      <3>1. execution[c].status # "none"  BY <2>3 DEF OutboxInv, Handed, Known, OpenRow
      <3>2. execution[c].status \notin {"completed", "failed"}
        BY <2>3 DEF OutboxInv, Executions, Sound, OpenRow, Terminal
      <3>. QED  BY <2>1, <3>1, <3>2 DEF OutboxTypeOK, Execution
    <2>. QED  BY <2>1, <2>2, <2>3 DEF NothingLost
  <1>. QED  BY <1>1, OutboxInductive, PTL

\* A step that is complete or failed stays so (completeWorkflowStep,
\* failWorkflowStep, terminalizeGmailAccountForReconnect).
THEOREM StepsStaySettled == OutboxSpec => TerminalStays
  <1>1. ASSUME OutboxInv, [OutboxNext]_outboxVars
        PROVE  [\A c \in Command : ~Admission(c) /\ steps[c] \in Terminal => steps'[c] = steps[c]]_outboxVars
    <2> SUFFICES ASSUME NEW c \in Command, ~Admission(c), steps[c] \in Terminal
                 PROVE  steps'[c] = steps[c]
      OBVIOUS
    <2>1. steps \in [Command -> {"none"} \union OpenRow \union Terminal]
      BY <1>1 DEF OutboxInv, OutboxTypeOK
    <2>2. steps[c] \notin OpenRow /\ steps[c] # "none"  BY DEF OpenRow, Terminal
    <2>3. \A d \in Command : \A s : Unsettled(d, s) = (IF steps[d] \in OpenRow THEN s ELSE steps[d])
      BY DEF Unsettled
    <2>4. CASE \E w \in Worker : Commits(w)  BY <2>1, <2>4 DEF Commits
    <2>5. CASE \E d \in Command : Enqueue(d)  BY <2>1, <2>2, <2>5 DEF Enqueue
    <2>6. CASE \E d \in Command : Reconciles(d)  BY <2>1, <2>2, <2>6 DEF Reconciles, Unsettled
    <2>7. CASE \E a \in attempts : Marks(a)  BY <2>1, <2>2, <2>7 DEF Marks
    <2>8. CASE \E a \in attempts : Completes(a)  BY <2>1, <2>2, <2>8 DEF Completes, Unsettled
    <2>9. CASE \E a \in attempts : Fails(a)  BY <2>1, <2>2, <2>9 DEF Fails, Unsettled
    <2>10. CASE \E s \in AccountStatus : AccountTurns(s)  BY <2>1, <2>2, <2>10 DEF AccountTurns
    <2>11. CASE steps' = steps  BY <2>11
    <2>. QED  BY <1>1, <2>4, <2>5, <2>6, <2>7, <2>8, <2>9, <2>10, <2>11
          DEF OutboxNext, outboxVars, Loop, Boot, SweepEnds, Selects, Exits, RequestStop, Readmit, Starts,
              StartFails, Crashes, LosesSubscription, ExecutionEnds, ExecutionFails,
              AttemptBegins, AttemptTimesOut, ReconcileFails, WorkFails
  <1>. QED  BY <1>1, OutboxInductive, PTL DEF OutboxSpec, TerminalStays

\* A process that has not said it waits for news.
Looks(p) == p.at # "wait" \/ p.pending \/ ~p.subscribed

LEMMA NowLooks ==
    ASSUME worker \in [Worker -> Process], NEW w \in Worker, NEW p,
           worker' = [worker EXCEPT ![w] = p], Looks(p)
    PROVE  SomeoneLooks'
  <1>1. worker'[w] = p  OBVIOUS
  <1>. QED  BY <1>1 DEF SomeoneLooks, Looks

LEMMA LooksKeeps == ASSUME OutboxInv, SomeoneLooks, [OutboxNext]_outboxVars PROVE SomeoneLooks'
  <1>1. worker \in [Worker -> Process] /\ \A w \in Worker : worker[w] \in Process
    BY DEF OutboxInv, OutboxTypeOK
  <1>2. Looks(Down)  BY DEF Down, Looks
  <1>3. ASSUME NEW c \in Command, Enqueue(c) PROVE SomeoneLooks'
    <2>1. PICK w \in Worker : TRUE  BY OutboxAssumption
    <2>2. worker'[w] = [worker[w] EXCEPT !.pending = @ \/ worker[w].subscribed]
      BY <1>3 DEF Enqueue
    <2>3. worker'[w].pending = (worker[w].pending \/ worker[w].subscribed)
          /\ worker'[w].subscribed = worker[w].subscribed
      BY <1>1, <2>2, Zenon DEF Process
    <2>. QED  BY <2>3, Zenon DEF SomeoneLooks
  <1>4. ASSUME NEW w \in Worker, Selects(w) PROVE SomeoneLooks'
    <2> DEFINE p == [worker[w] EXCEPT !.pending = FALSE]
    <2>1. CASE Becomes(w, Down)  BY <1>1, <1>2, <2>1, NowLooks DEF Becomes
    <2>2. ASSUME NEW b, Becomes(w, [p EXCEPT !.at = "start", !.batch = b]) PROVE SomeoneLooks'
      <3>1. PICK q : q = [p EXCEPT !.at = "start", !.batch = b]  OBVIOUS
      <3>2. q.at = "start"  BY <1>1, <3>1 DEF Process
      <3>3. Looks(q)  BY <3>2 DEF Looks
      <3>. QED  BY <1>1, <2>2, <3>1, <3>3, NowLooks DEF Becomes
    <2>3. CASE Free = {} /\ Becomes(w, p)
      <3> SUFFICES ASSUME waiting' # {}
                   PROVE  \E v \in Worker : worker'[v].at # "wait" \/ worker'[v].pending
                                              \/ ~worker'[v].subscribed
        BY DEF SomeoneLooks
      <3>1. waiting' = waiting /\ worker[w].at = "wait"  BY <1>4 DEF Selects
      <3>2. PICK c \in waiting : Locked(c)  BY <2>3, <3>1 DEF Free
      <3>3. PICK v \in Worker : worker[v].at = "start"  BY <3>2 DEF Locked
      <3>4. worker'[v] = worker[v]  BY <1>1, <2>3, <3>1, <3>3 DEF Becomes
      <3>. QED  BY <3>3, <3>4
    <2>. QED  BY <1>4, <2>1, <2>2, <2>3 DEF Selects
  <1>5. ASSUME NEW w \in Worker,
               \/ Boot(w) \/ SweepEnds(w) \/ Commits(w) \/ Exits(w) \/ RequestStop(w)
               \/ Crashes(w) \/ StartFails(w) \/ LosesSubscription(w)
               \/ \E c \in Command : Readmit(w, c) \/ Starts(w, c)
        PROVE  SomeoneLooks'
    <2>1. \E q : Becomes(w, q) /\ Looks(q)
      <3>1. CASE Boot(w)
        <4>1. \A S : [Down EXCEPT !.at = "sweep", !.subscribed = TRUE, !.sweep = S].at = "sweep"
          BY DEF Down
        <4>. QED  BY <3>1, <4>1 DEF Boot, Looks
      <3>2. CASE SweepEnds(w)
        <4>1. Swept(worker[w]).pending  BY <1>1 DEF Swept, Process
        <4>. QED  BY <3>2, <4>1, Zenon DEF SweepEnds, Looks
      <3>3. CASE Commits(w)
        <4>1. [worker[w] EXCEPT !.at = "wait", !.pending = TRUE, !.batch = {}, !.started = {}].pending
          BY <1>1 DEF Process
        <4>. QED  BY <3>3, <4>1, Zenon DEF Commits, Looks
      <3>4. CASE Exits(w) \/ Crashes(w)  BY <1>2, <3>4 DEF Exits, Crashes
      <3>5. CASE RequestStop(w)
        <4>1. [worker[w] EXCEPT !.stop = TRUE, !.pending = TRUE].pending
          BY <1>1 DEF Process
        <4>. QED  BY <3>5, <4>1, Zenon DEF RequestStop, Looks
      <3>6. CASE StartFails(w)
        <4>1. [worker[w] EXCEPT !.at = "failed"].at = "failed"  BY <1>1 DEF Process
        <4>. QED  BY <3>6, <4>1 DEF StartFails, Looks
      <3>7. CASE LosesSubscription(w)
        <4>1. ~[worker[w] EXCEPT !.subscribed = FALSE].subscribed  BY <1>1 DEF Process
        <4>. QED  BY <3>7, <4>1, Zenon DEF LosesSubscription, Looks
      <3>8. ASSUME NEW c \in Command, Readmit(w, c) PROVE \E q : Becomes(w, q) /\ Looks(q)
        <4>1. [worker[w] EXCEPT !.sweep = @ \ {c}].at = worker[w].at  BY <1>1 DEF Process
        <4>. QED  BY <3>8, <4>1 DEF Readmit, Looks
      <3>9. ASSUME NEW c \in Command, Starts(w, c) PROVE \E q : Becomes(w, q) /\ Looks(q)
        <4>1. [worker[w] EXCEPT !.started = @ \union {c}].at = worker[w].at  BY <1>1 DEF Process
        <4>. QED  BY <3>9, <4>1 DEF Starts, Looks
      <3>. QED  BY <1>5, <3>1, <3>2, <3>3, <3>4, <3>5, <3>6, <3>7, <3>8, <3>9
    <2>. QED  BY <1>1, <2>1, NowLooks DEF Becomes
  <1>6. CASE UNCHANGED <<waiting, worker>>  BY <1>6 DEF SomeoneLooks
  <1>. QED  BY <1>3, <1>4, <1>5, <1>6
        DEF OutboxNext, outboxVars, Loop, ExecutionEnds, ExecutionFails, AttemptBegins, AttemptTimesOut,
            Reconciles, ReconcileFails, Marks, WorkFails, Completes, Fails, AccountTurns

\* While a command waits, some process has still to look at the outbox, whatever
\* notifications pass by (runTemporalCommandLoop, createJobSignal).
THEOREM WakeUpsAreKept == OutboxSpec => []SomeoneLooks
  <1>1. OutboxInit => SomeoneLooks  BY DEF OutboxInit, SomeoneLooks
  <1>. QED  BY <1>1, LooksKeeps, OutboxInductive, PTL DEF OutboxSpec

-----------------------------------------------------------------------------
(* DraftWrites: the inductive invariant.  Whoever holds a target (a request that will   *)
(* use it, a row, a late call) holds a message that exists, and a send that*)
(* is out, or is about to be repeated, has a prepared row.                 *)

Working == [kind : {"save", "send"}, intent : Intent, step : Step, id : Nat, target : Nat]

\* A request at this point uses its target.
Points(q) == \/ q.step \in {"prepare", "reread", "confirm", "complete", "respond"}
             \/ q.kind = "send" /\ q.step \in {"call", "await"}

\* A request at this point sends, or is about to, what its row records.
Sends(q) == q.kind = "send" /\ q.step \in {"reread", "call", "await"}

OnRecord(i) == rows[<<"send", i>>].status # "none" /\ rows[<<"send", i>>].target # 0

TargetsExist ==
    /\ \A r \in Request : Points(req[r]) => req[r].target \in 1 .. Len(messages)
    /\ \A k \in Key : rows[k].target \in 0 .. Len(messages)
    /\ \A call \in late : call.kind = "send" => call.target \in 1 .. Len(messages)

SendsRecorded ==
    /\ \A r \in Request : Sends(req[r]) => OnRecord(req[r].intent)
    /\ \A call \in late : call.kind = "send" => OnRecord(call.intent)

IInv == TypeOK /\ TargetsExist /\ SendsRecorded

-----------------------------------------------------------------------------
(* Requests.                                                               *)

\* A request at a step has a working record.
LEMMA WorkingRequest ==
    ASSUME TypeOK, NEW r \in Request, req[r].step # "none"
    PROVE  req[r] \in Working
  BY DEF TypeOK, RequestRecord, Working, Idle

\* An idle request neither points at a message nor sends.
LEMMA IdleIsIdle ==
    Idle \in RequestRecord /\ ~Points(Idle) /\ ~Sends(Idle)
  BY DEF Idle, RequestRecord, Points, Sends

\* One request moves to q; messages are only added, and records of sends stay.
LEMMA RequestMoves ==
    ASSUME IInv, NEW r \in Request, NEW q \in RequestRecord,
           req' = [req EXCEPT ![r] = q],
           messages' \in Seq(Message), Len(messages') >= Len(messages),
           Points(q) => q.target \in 1 .. Len(messages'),
           \A i \in Intent : OnRecord(i) => OnRecord(i)',
           Sends(q) => OnRecord(q.intent)'
    PROVE  /\ req' \in [Request -> RequestRecord]
           /\ \A s \in Request : Points(req'[s]) => req'[s].target \in 1 .. Len(messages')
           /\ \A s \in Request : Sends(req'[s]) => OnRecord(req[s].intent)'
  <1>. req \in [Request -> RequestRecord]  BY DEF IInv, TypeOK
  <1>1. req' \in [Request -> RequestRecord]  OBVIOUS
  <1>2. ASSUME NEW s \in Request, Points(req'[s])
        PROVE  req'[s].target \in 1 .. Len(messages')
    <2>1. CASE s = r  BY <1>2, <2>1
    <2>2. CASE s # r
      <3>1. req'[s] = req[s]  BY <2>2
      <3>2. req[s].target \in 1 .. Len(messages)  BY <1>2, <3>1 DEF IInv, TargetsExist
      <3>3. Len(messages) \in Nat /\ Len(messages') \in Nat  BY DEF IInv, TypeOK
      <3>. QED  BY <3>1, <3>2, <3>3
    <2>. QED  BY <2>1, <2>2
  <1>3. ASSUME NEW s \in Request, Sends(req'[s])
        PROVE  OnRecord(req[s].intent)'
    <2>1. CASE s = r  BY <1>3, <2>1
    <2>2. CASE s # r
      <3>1. req'[s] = req[s]  BY <2>2
      <3>2. req[s] \in Working  BY <1>3, <3>1, WorkingRequest DEF IInv, Sends
      <3>3. OnRecord(req[s].intent)  BY <1>3, <3>1 DEF IInv, SendsRecorded
      <3>. QED  BY <3>1, <3>2, <3>3 DEF Working
    <2>. QED  BY <2>1, <2>2
  <1>. QED  BY <1>1, <1>2, <1>3

-----------------------------------------------------------------------------
(* Messages.                                                               *)

\* Moving a message to another state leaves a sequence of messages as long.
LEMMA MessageMoves ==
    ASSUME TypeOK, NEW m \in 1 .. Len(messages),
           NEW state \in {"draft", "sent", "trash", "gone"}
    PROVE  /\ [messages EXCEPT ![m].state = state] \in Seq(Message)
           /\ Len([messages EXCEPT ![m].state = state]) = Len(messages)
           /\ [messages[m] EXCEPT !.state = state] \in Message
  <1>1. messages \in Seq(Message) /\ messages[m] \in Message
    BY ElementOfSeq DEF TypeOK
  <1>2. [messages[m] EXCEPT !.state = state] \in Message  BY <1>1 DEF Message
  <1>. QED  BY <1>1, <1>2, ExceptSeq

\* A save adds one message.
LEMMA SavedMessages ==
    ASSUME TypeOK, NEW i \in Intent, NEW id \in Nat
    PROVE  /\ Saved(i, id) \in Seq(Message)
           /\ Len(Saved(i, id)) = Len(messages) + 1
  <1>. DEFINE draft == IF client[i].creates THEN NextMessage ELSE ExistingDraft
              moved(m) == IF m \in InDraft(draft) THEN [messages[m] EXCEPT !.state = "gone"]
                                                  ELSE messages[m]
              kept == [m \in DOMAIN messages |-> moved(m)]
              new == [draft |-> draft, op |-> <<i, id>>, content |-> NextMessage,
                      overtook |-> SendUnderWay(draft), state |-> "draft"]
  <1>1. /\ messages \in Seq(Message) /\ Len(messages) \in Nat
        /\ DOMAIN messages = 1 .. Len(messages)
    BY DEF TypeOK
  <1>2. new \in Message
    <2>1. SendUnderWay(draft) \in BOOLEAN  BY Zenon DEF SendUnderWay
    <2>. QED  BY <1>1, <2>1 DEF Message, NextMessage, ExistingDraft
  <1>3. \A m \in 1 .. Len(messages) : moved(m) \in Message
    BY <1>1, ElementOfSeq, MessageMoves
  <1>4. kept \in [1 .. Len(messages) -> Message]  BY <1>1, <1>3
  <1>5. kept \in Seq(Message) /\ Len(kept) = Len(messages)
    BY <1>1, <1>4, SeqDef
  <1>6. Saved(i, id) = Append(kept, new)  BY DEF Saved
  <1>. QED  BY <1>2, <1>5, <1>6, AppendProperties

\* A send keeps the messages, and the id it is known by is one of them.
LEMMA SentMessages ==
    ASSUME TypeOK, NEW m \in 1 .. Len(messages), NEW id \in SentIds(m)
    PROVE  /\ SentAs(m, id) \in Seq(Message)
           /\ Len(SentAs(m, id)) >= Len(messages)
           /\ id \in 1 .. Len(SentAs(m, id))
  <1>1. messages \in Seq(Message) /\ Len(messages) \in Nat  BY DEF TypeOK
  <1>. DEFINE sent == [messages EXCEPT ![m].state = "sent"]
              gone == [messages EXCEPT ![m].state = "gone"]
              new == [messages[m] EXCEPT !.state = "sent"]
  <1>2. /\ sent \in Seq(Message) /\ Len(sent) = Len(messages)
        /\ gone \in Seq(Message) /\ Len(gone) = Len(messages)
        /\ new \in Message
    BY MessageMoves
  <1>3. SentAs(m, id) = IF id = m THEN sent ELSE Append(gone, new)
    BY DEF SentAs
  <1>4. id # m => id = Len(messages) + 1  BY DEF SentIds, NextMessage
  <1>5. Append(gone, new) \in Seq(Message) /\ Len(Append(gone, new)) = Len(messages) + 1
    BY <1>1, <1>2, AppendProperties
  <1>. HIDE DEF sent, gone, new
  <1>. QED  BY <1>1, <1>2, <1>3, <1>4, <1>5

\* What a draft holds is a message that exists.
LEMMA InDraftExists ==
    ASSUME TypeOK, NEW d, NEW m \in InDraft(d)
    PROVE  m \in 1 .. Len(messages)
  BY DEF TypeOK, InDraft

-----------------------------------------------------------------------------
(* What a step needs to show.                                              *)

\* One request moves to q, and late calls stay.
LEMMA OneMoves ==
    ASSUME IInv, NEW r \in Request, NEW q \in RequestRecord,
           req' = [req EXCEPT ![r] = q],
           messages' \in Seq(Message), Len(messages') >= Len(messages),
           Points(q) => q.target \in 1 .. Len(messages'),
           rows' \in [Key -> Row],
           \A k \in Key : rows'[k].target \in 0 .. Len(messages'),
           \A i \in Intent : OnRecord(i) => OnRecord(i)',
           Sends(q) => OnRecord(q.intent)',
           claims' \in [Key -> Nat],
           lock' \in [Intent -> Request \union {NoRequest}],
           open' \subseteq Request,
           late' \subseteq late,
           client' \in [Intent -> Client],
           spent' \in [{"edits", "faults"} -> Nat]
    PROVE  IInv'
  <1>1. /\ req' \in [Request -> RequestRecord]
        /\ \A s \in Request : Points(req'[s]) => req'[s].target \in 1 .. Len(messages')
        /\ \A s \in Request : Sends(req'[s]) => OnRecord(req[s].intent)'
    BY RequestMoves
  <1>2. late \subseteq Call /\ Len(messages) \in Nat /\ Len(messages') \in Nat
    BY DEF IInv, TypeOK
  <1>3. TypeOK'  BY <1>1, <1>2 DEF TypeOK
  <1>4. \A call \in late' : call.kind = "send" => call.target \in 1 .. Len(messages')
    BY <1>2 DEF IInv, TargetsExist, Call
  <1>5. TargetsExist'  BY <1>1, <1>4 DEF TargetsExist, Points
  <1>6. ASSUME NEW call \in late', call.kind = "send"
        PROVE  OnRecord(call.intent)'
    <2>1. call \in late /\ call.intent \in Intent  BY <1>2 DEF Call
    <2>2. OnRecord(call.intent)  BY <1>6, <2>1 DEF IInv, SendsRecorded
    <2>. QED  BY <2>1, <2>2
  <1>7. SendsRecorded'  BY <1>1, <1>6 DEF SendsRecorded, Sends
  <1>. QED  BY <1>3, <1>5, <1>7 DEF IInv

\* Goto and GotoWith move a request to this record.
Moved(r, step, target) == [req[r] EXCEPT !.step = step, !.target = target]

\* Goto and GotoWith, as an update of the record.
LEMMA Moves ==
    ASSUME TypeOK, NEW r \in Request, req[r].step # "none",
           NEW step \in Step, NEW target \in Nat
    PROVE  /\ Moved(r, step, target) \in Working
           /\ Moved(r, step, target).kind = req[r].kind
           /\ Moved(r, step, target).intent = req[r].intent
           /\ Moved(r, step, target).step = step
           /\ Moved(r, step, target).target = target
           /\ GotoWith(r, step, target) => req' = [req EXCEPT ![r] = Moved(r, step, target)]
           /\ Goto(r, step) /\ target = req[r].target
                 => req' = [req EXCEPT ![r] = Moved(r, step, target)]
  <1>1. req[r] \in Working  BY WorkingRequest
  <1>2. req \in [Request -> RequestRecord]  BY DEF TypeOK
  <1>. QED  BY <1>1, <1>2 DEF Moved, Working, Goto, GotoWith

\* A request that ends is idle, and its lock and connection are free.
LEMMA Ends ==
    ASSUME TypeOK, NEW r \in Request, End(r)
    PROVE  /\ req' = [req EXCEPT ![r] = Idle]
           /\ lock' \in [Intent -> Request \union {NoRequest}]
           /\ open' \subseteq Request
  BY DEF TypeOK, End, Unlocked

\* A row is written, and the record of a send does not go.
LEMMA RowWritten ==
    ASSUME IInv, NEW k \in Key, NEW row \in Row, row.target \in 0 .. Len(messages),
           rows' = [rows EXCEPT ![k] = row],
           \A i \in Intent : k = <<"send", i>> /\ OnRecord(i)
                               => row.status # "none" /\ row.target # 0
    PROVE  /\ rows' \in [Key -> Row]
           /\ \A j \in Key : rows'[j].target \in 0 .. Len(messages)
           /\ \A i \in Intent : OnRecord(i) => OnRecord(i)'
  <1>1. rows \in [Key -> Row]  BY DEF IInv, TypeOK
  <1>2. \A j \in Key : rows'[j].target \in 0 .. Len(messages)
    BY <1>1 DEF IInv, TargetsExist
  <1>3. \A i \in Intent : OnRecord(i) => OnRecord(i)'  BY <1>1 DEF OnRecord, Key
  <1>. QED  BY <1>1, <1>2, <1>3

\* No row is written.
LEMMA RowsStay ==
    ASSUME IInv, rows' = rows, messages' \in Seq(Message), Len(messages') >= Len(messages)
    PROVE  /\ rows' \in [Key -> Row]
           /\ \A j \in Key : rows'[j].target \in 0 .. Len(messages')
           /\ \A i \in Intent : OnRecord(i) => OnRecord(i)'
  <1>1. rows \in [Key -> Row] /\ Len(messages) \in Nat /\ Len(messages') \in Nat
    BY DEF IInv, TypeOK
  <1>. QED  BY <1>1 DEF IInv, TargetsExist, OnRecord

\* A request goes on to a step at which it has no target to answer for, or one that exists.
LEMMA GoesOn ==
    ASSUME IInv, NEW r \in Request, req[r].step # "none",
           NEW step \in Step, NEW target \in Nat,
           GotoWith(r, step, target) \/ (Goto(r, step) /\ target = req[r].target),
           messages' \in Seq(Message), Len(messages') >= Len(messages),
           rows' \in [Key -> Row],
           \A k \in Key : rows'[k].target \in 0 .. Len(messages'),
           \A i \in Intent : OnRecord(i) => OnRecord(i)',
           step \in {"prepare", "reread", "confirm", "complete", "respond"}
             \/ (req[r].kind = "send" /\ step \in {"call", "await"})
             => target \in 1 .. Len(messages'),
           \A i \in Intent : req[r].kind = "send" /\ req[r].intent = i
                               /\ step \in {"reread", "call", "await"} => OnRecord(i)',
           UNCHANGED <<claims, lock, open, late, client>>,
           spent' \in [{"edits", "faults"} -> Nat]
    PROVE  IInv'
  <1>. DEFINE q == Moved(r, step, target)
  <1>1. /\ q \in Working /\ q.kind = req[r].kind /\ q.intent = req[r].intent
        /\ q.step = step /\ q.target = target
        /\ req' = [req EXCEPT ![r] = q]
    BY Moves DEF IInv
  <1>2. PICK p \in Working : p = q  BY <1>1
  <1>3. p \in RequestRecord  BY DEF Working, RequestRecord
  <1>4. Points(p) => p.target \in 1 .. Len(messages')  BY <1>1, <1>2 DEF Points
  <1>5. p.intent \in Intent  BY DEF Working
  <1>6. Sends(p) => OnRecord(p.intent)'  BY <1>1, <1>2, <1>5 DEF Sends
  <1>7. req' = [req EXCEPT ![r] = p]  BY <1>1, <1>2
  <1>8. /\ claims' \in [Key -> Nat] /\ open' \subseteq Request /\ late' \subseteq late
        /\ lock' \in [Intent -> Request \union {NoRequest}] /\ client' \in [Intent -> Client]
    BY DEF IInv, TypeOK
  <1>. HIDE DEF q
  <1>. QED  BY <1>3, <1>4, <1>6, <1>7, <1>8, OneMoves

\* A request ends.
LEMMA Finishes ==
    ASSUME IInv, NEW r \in Request, End(r), UNCHANGED <<messages, claims, late>>,
           rows' \in [Key -> Row],
           \A k \in Key : rows'[k].target \in 0 .. Len(messages),
           \A i \in Intent : OnRecord(i) => OnRecord(i)',
           client' \in [Intent -> Client],
           spent' \in [{"edits", "faults"} -> Nat]
    PROVE  IInv'
  <1>1. TypeOK  BY DEF IInv
  <1>2. /\ messages' \in Seq(Message) /\ Len(messages') >= Len(messages)
        /\ claims' \in [Key -> Nat] /\ late' \subseteq late
        /\ \A k \in Key : rows'[k].target \in 0 .. Len(messages')
    BY <1>1 DEF TypeOK
  <1>. QED  BY <1>1, <1>2, Ends, IdleIsIdle, OneMoves

-----------------------------------------------------------------------------
(* Every action keeps the invariant.                                       *)

\* The invariant holds at the start.
LEMMA InitKeeps == Init => IInv
  <1>. SUFFICES ASSUME Init PROVE IInv  OBVIOUS
  <1>. DEFINE first == [draft |-> ExistingDraft, op |-> Outside, content |-> 1,
                        overtook |-> FALSE, state |-> "draft"]
  <1>1. first \in Message  BY DEF Message, ExistingDraft, Outside
  <1>2. messages \in Seq(Message) /\ Len(messages) = 1  BY <1>1 DEF Init
  <1>3. /\ rows \in [Key -> Row] /\ claims \in [Key -> Nat]
        /\ \A k \in Key : rows[k].target = 0
    BY DEF Init, NoRow, Row
  <1>4. /\ req \in [Request -> RequestRecord]
        /\ \A r \in Request : ~Points(req[r]) /\ ~Sends(req[r])
    BY IdleIsIdle DEF Init
  <1>5. client \in [Intent -> Client]
    <2>1. [creates : BOOLEAN, approves : BOOLEAN, draft : {0}, expected : {0}, sent : {FALSE}]
             \subseteq Client
      <3>1. {0} \subseteq Nat /\ {FALSE} \subseteq BOOLEAN  OBVIOUS
      <3>. QED  BY <3>1, Zenon DEF Client
    <2>. QED  BY <2>1 DEF Init
  <1>6. /\ lock \in [Intent -> Request \union {NoRequest}] /\ open = {} /\ late = {}
        /\ spent \in [{"edits", "faults"} -> Nat]
    BY DEF Init
  <1>. QED  BY <1>2, <1>3, <1>4, <1>5, <1>6 DEF IInv, TypeOK, TargetsExist, SendsRecorded

\* Asking keeps the invariant.
LEMMA AskKeeps ==
    ASSUME IInv, NEW r \in Request, NEW i \in Intent, Ask(r, i)
    PROVE  IInv'
  <1>1. /\ messages' \in Seq(Message) /\ Len(messages') >= Len(messages)
        /\ claims' \in [Key -> Nat] /\ open' \subseteq Request /\ late' \subseteq late
        /\ lock' \in [Intent -> Request \union {NoRequest}] /\ client' \in [Intent -> Client]
        /\ spent' \in [{"edits", "faults"} -> Nat] /\ rows' = rows
    BY DEF IInv, TypeOK, Ask, AskSave, AskSend
  <1>. DEFINE asked(kind, step) ==
                [kind |-> kind, intent |-> i, step |-> step, id |-> 0, target |-> 0]
  <1>2. /\ asked("save", "begin") \in RequestRecord /\ asked("send", "connect") \in RequestRecord
        /\ ~Points(asked("save", "begin")) /\ ~Points(asked("send", "connect"))
        /\ ~Sends(asked("save", "begin")) /\ ~Sends(asked("send", "connect"))
    BY DEF RequestRecord, Step, Points, Sends
  <1>3. PICK q \in RequestRecord : ~Points(q) /\ ~Sends(q) /\ req' = [req EXCEPT ![r] = q]
    BY <1>2 DEF Ask, AskSave, AskSend
  <1>. QED  BY <1>1, <1>3, RowsStay, OneMoves

\* What the steps of a working request that change neither messages nor rows leave alone.
LEMMA StillGood ==
    ASSUME IInv, UNCHANGED <<messages, rows>>
    PROVE  /\ messages' \in Seq(Message) /\ Len(messages') >= Len(messages)
           /\ Len(messages') = Len(messages)
           /\ rows' \in [Key -> Row]
           /\ \A k \in Key : rows'[k].target \in 0 .. Len(messages')
           /\ \A i \in Intent : OnRecord(i) => OnRecord(i)'
  <1>1. messages' \in Seq(Message) /\ Len(messages') >= Len(messages)
        /\ Len(messages') = Len(messages)
    BY DEF IInv, TypeOK
  <1>. QED  BY <1>1, RowsStay

\* A working request's key and id; what rows say of its key.
LEMMA KeyFacts ==
    ASSUME IInv, NEW r \in Request, req[r].step # "none"
    PROVE  /\ req[r] \in Working /\ req[r].intent \in Intent /\ req[r].target \in Nat
           /\ req[r].id \in Nat
           /\ KeyOf(r) \in Key
           /\ KeyOf(r) = <<req[r].kind, req[r].intent>>
           /\ rows[KeyOf(r)] \in Row /\ rows[KeyOf(r)].target \in 0 .. Len(messages)
           /\ Len(messages) \in Nat
           /\ Points(req[r]) => req[r].target \in 1 .. Len(messages)
           /\ Sends(req[r]) => OnRecord(req[r].intent)
  <1>1. req[r] \in Working  BY WorkingRequest DEF IInv
  <1>2. KeyOf(r) \in Key /\ KeyOf(r) = <<req[r].kind, req[r].intent>>
    BY <1>1 DEF Working, KeyOf, Key
  <1>3. rows \in [Key -> Row] /\ Len(messages) \in Nat  BY DEF IInv, TypeOK
  <1>4. rows[KeyOf(r)] \in Row /\ rows[KeyOf(r)].target \in 0 .. Len(messages)
    BY <1>2, <1>3 DEF IInv, TargetsExist
  <1>. QED  BY <1>1, <1>2, <1>3, <1>4 DEF IInv, TargetsExist, SendsRecorded, Working

\* Counters and clients keep their types.
LEMMA SpentGood ==
    ASSUME IInv
    PROVE  /\ spent \in [{"edits", "faults"} -> Nat]
           /\ Spend(MaxFaults, "faults") => spent' \in [{"edits", "faults"} -> Nat]
           /\ Spend(MaxEdits, "edits") => spent' \in [{"edits", "faults"} -> Nat]
           /\ client \in [Intent -> Client]
  BY DEF IInv, TypeOK, Spend

\* beginGmailDraftWrite: a claim starts without a target, and other rows stay.
LEMMA Begins ==
    ASSUME IInv, NEW r \in Request, req[r].step # "none", NEW step \in Step,
           IF rows[KeyOf(r)].status = "none" THEN Claim(KeyOf(r)) ELSE UNCHANGED <<rows, claims>>,
           req' = [req EXCEPT ![r].step = step, ![r].id = claims'[KeyOf(r)],
                              ![r].target = rows[KeyOf(r)].target],
           step \in {"respond", "reread"} =>
               rows[KeyOf(r)].target # 0 /\ rows[KeyOf(r)].status # "none",
           step \notin {"prepare", "confirm", "complete"},
           req[r].kind = "send" => step \notin {"call", "await"},
           UNCHANGED <<messages, lock, open, late, client, spent>>
    PROVE  IInv'
  <1>. DEFINE k == KeyOf(r)
  <1>1. /\ req[r] \in Working /\ k \in Key /\ k = <<req[r].kind, req[r].intent>>
        /\ rows[k] \in Row /\ rows[k].target \in 0 .. Len(messages) /\ Len(messages) \in Nat
    BY KeyFacts
  <1>2. /\ messages' \in Seq(Message) /\ Len(messages') >= Len(messages)
        /\ Len(messages') = Len(messages)
        /\ rows \in [Key -> Row] /\ claims \in [Key -> Nat] /\ req \in [Request -> RequestRecord]
        /\ lock' \in [Intent -> Request \union {NoRequest}] /\ open' \subseteq Request
        /\ late' \subseteq late /\ client' \in [Intent -> Client]
        /\ spent' \in [{"edits", "faults"} -> Nat]
    BY DEF IInv, TypeOK
  <1>3. /\ claims' \in [Key -> Nat] /\ rows' \in [Key -> Row]
        /\ \A j \in Key : rows'[j].target \in 0 .. Len(messages')
        /\ \A i \in Intent : OnRecord(i) => OnRecord(i)'
    <2>1. CASE rows[k].status = "none"
      <3>. DEFINE new == [status |-> "pending", target |-> 0]
      <3>1. new \in Row /\ new.target \in 0 .. Len(messages)  BY <1>1 DEF Row
      <3>2. claims' = [claims EXCEPT ![k] = @ + 1] /\ rows' = [rows EXCEPT ![k] = new]
        BY <2>1 DEF Claim
      <3>3. \A i \in Intent : ~(k = <<"send", i>> /\ OnRecord(i))  BY <2>1 DEF OnRecord
      <3>4. claims' \in [Key -> Nat]  BY <1>1, <1>2, <3>2
      <3>. HIDE DEF new, k
      <3>. QED  BY <1>1, <1>2, <3>1, <3>2, <3>3, <3>4, RowWritten
    <2>2. CASE rows[k].status # "none"
      <3>1. UNCHANGED <<rows, claims>>  BY <2>2
      <3>. QED  BY <3>1, <1>2, RowsStay
    <2>. QED  BY <2>1, <2>2
  <1>4. PICK id \in Nat, target \in Nat : id = claims'[k] /\ target = rows[k].target
    BY <1>1, <1>3 DEF Row
  <1>. DEFINE q == [req[r] EXCEPT !.step = step, !.id = id, !.target = target]
  <1>5. /\ q \in Working /\ q.kind = req[r].kind /\ q.intent = req[r].intent
        /\ q.step = step /\ q.target = rows[k].target
    BY <1>1, <1>4 DEF Working
  <1>6. req' = [req EXCEPT ![r] = q]  BY <1>2, <1>4
  <1>7. PICK p \in Working : p = q  BY <1>5
  <1>. HIDE DEF q
  <1>8. Points(p) => p.target \in 1 .. Len(messages')
    BY <1>1, <1>2, <1>5, <1>7 DEF Points
  <1>9. Sends(p) => OnRecord(p.intent)'
    <2>. SUFFICES ASSUME Sends(p) PROVE OnRecord(p.intent)'  OBVIOUS
    <2>1. step = "reread" /\ p.kind = "send"  BY <1>5, <1>7 DEF Sends
    <2>2. p.intent \in Intent  BY DEF Working
    <2>3. OnRecord(p.intent)  BY <1>1, <1>5, <1>7, <2>1 DEF OnRecord
    <2>. QED  BY <1>3, <2>2, <2>3
  <1>10. p \in RequestRecord  BY DEF Working, RequestRecord
  <1>11. req' = [req EXCEPT ![r] = p]  BY <1>6, <1>7
  <1>. QED  BY <1>2, <1>3, <1>8, <1>9, <1>10, <1>11, OneMoves

\* The save's own steps keep the invariant.
LEMMA SaveKeeps ==
    ASSUME IInv, NEW r \in Request, SaveStep(r)
    PROVE  IInv'
  <1>0. TypeOK  BY DEF IInv
  <1>1. CASE ReadCurrent(r)
    <2>1. req[r].step = "current" /\ req[r].kind = "save"
      BY <1>1 DEF ReadCurrent, At
    <2>2. UNCHANGED <<messages, rows, claims, lock, open, late, client, spent>>
      BY <1>1 DEF ReadCurrent
    <2>3. PICK step \in {"call", "abandon"} : Goto(r, step)
      BY <1>1 DEF ReadCurrent
    <2>4. step \in Step  BY DEF Step
    <2>. QED  BY <2>1, <2>2, <2>3, <2>4, StillGood, KeyFacts, SpentGood, GoesOn
  <1>2. CASE BeginSave(r)
    <2>. DEFINE row == rows[KeyOf(r)]
    <2>1. /\ req[r].step = "begin" /\ req[r].kind = "save"
          /\ UNCHANGED <<messages, lock, open, late, client, spent>>
          /\ IF row.status = "none" THEN Claim(KeyOf(r)) ELSE UNCHANGED <<rows, claims>>
      BY <1>2 DEF BeginSave, QueriesAt, At
    <2>2. row \in Row  BY <2>1, KeyFacts
    <2>3. PICK step \in {"call", "current", "list", "respond"} :
            /\ step = "respond" => row.status = "complete"
            /\ req' = [req EXCEPT ![r].step = step, ![r].id = claims'[KeyOf(r)],
                                  ![r].target = row.target]
      BY <1>2, <2>2 DEF BeginSave, Row
    <2>4. step \in Step  BY DEF Step
    <2>5. step = "respond" => row.target # 0 /\ row.status # "none"  BY <2>2, <2>3 DEF Row
    <2>. QED  BY <2>1, <2>3, <2>4, <2>5, Begins
  <1>3. CASE SaveAnswered(r)
    <2>. DEFINE i == req[r].intent
    <2>1. /\ req[r].step = "await" /\ req[r].kind = "save"
          /\ UNCHANGED <<rows, claims, lock, open, late, client, spent>>
      BY <1>3 DEF SaveAnswered, At
    <2>2. CASE SaveAccepted(i)
      <3>1. messages' = Saved(i, req[r].id) /\ GotoWith(r, "complete", NextMessage)
        BY <1>3, <2>2 DEF SaveAnswered
      <3>2. messages' \in Seq(Message) /\ Len(messages') = Len(messages) + 1
        BY <2>1, <3>1, <1>0, KeyFacts, SavedMessages
      <3>3. /\ Len(messages) \in Nat /\ Len(messages') >= Len(messages)
            /\ NextMessage \in Nat /\ NextMessage \in 1 .. Len(messages')
        BY <3>2, <2>1, KeyFacts DEF NextMessage
      <3>4. "complete" \in Step  BY DEF Step
      <3>. QED  BY <2>1, <3>1, <3>2, <3>3, <3>4, RowsStay, SpentGood, GoesOn
    <2>3. CASE ~SaveAccepted(i)
      <3>1. messages' = messages /\ Goto(r, "abandon")
        BY <1>3, <2>3 DEF SaveAnswered
      <3>2. "abandon" \in Step  BY DEF Step
      <3>. QED  BY <2>1, <3>1, <3>2, StillGood, KeyFacts, SpentGood, GoesOn
    <2>. QED  BY <2>2, <2>3
  <1>4. CASE AbandonSave(r)
    <2>1. /\ req[r].step = "abandon" /\ req[r].kind = "save" /\ End(r)
          /\ UNCHANGED <<messages, claims, late, client, spent>>
          /\ rows' = rows \/ rows' = [rows EXCEPT ![KeyOf(r)] = NoRow]
      BY <1>4 DEF AbandonSave, QueriesAt, At
    <2>2. NoRow \in Row /\ NoRow.target = 0  BY DEF NoRow, Row
    <2>3. \A i \in Intent : KeyOf(r) # <<"send", i>>  BY <2>1 DEF KeyOf
    <2>4. /\ rows' \in [Key -> Row]
          /\ \A k \in Key : rows'[k].target \in 0 .. Len(messages)
          /\ \A i \in Intent : OnRecord(i) => OnRecord(i)'
      <3>1. CASE rows' = rows  BY <2>1, <3>1, StillGood
      <3>2. CASE rows' = [rows EXCEPT ![KeyOf(r)] = NoRow]
        <4>1. KeyOf(r) \in Key /\ NoRow.target \in 0 .. Len(messages)
          BY <2>1, <2>2, KeyFacts
        <4>. QED  BY <2>2, <2>3, <3>2, <4>1, RowWritten
      <3>. QED  BY <2>1, <3>1, <3>2
    <2>. QED  BY <2>1, <2>4, SpentGood, Finishes
  <1>5. CASE ListDrafts(r)
    <2>. DEFINE found == WrittenBy(req[r].intent, req[r].id)
    <2>1. /\ req[r].step = "list" /\ req[r].kind = "save"
          /\ UNCHANGED <<messages, rows, claims, late, client, spent>>
      BY <1>5 DEF ListDrafts, At
    <2>2. CASE Resolves(found)
      <3>1. GotoWith(r, "complete", OnlyOne(found)) /\ UNCHANGED <<lock, open>>
        BY <1>5, <2>2 DEF ListDrafts
      <3>2. found # {}  BY <2>2, FS_EmptySet DEF Resolves
      <3>3. found \subseteq 1 .. Len(messages)  BY <1>0 DEF WrittenBy, TypeOK
      <3>4. OnlyOne(found) \in found  BY <3>2, <3>3 DEF OnlyOne
      <3>5. OnlyOne(found) \in Nat /\ OnlyOne(found) \in 1 .. Len(messages)
        BY <3>3, <3>4, <2>1, KeyFacts
      <3>6. "complete" \in Step  BY DEF Step
      <3>. HIDE DEF found
      <3>. QED  BY <2>1, <3>1, <3>5, <3>6, StillGood, SpentGood, GoesOn
    <2>3. CASE ~Resolves(found)
      <3>1. End(r)  BY <1>5, <2>3 DEF ListDrafts
      <3>. QED  BY <2>1, <3>1, StillGood, SpentGood, Finishes
    <2>. QED  BY <2>2, <2>3
  <1>. QED  BY <1>1, <1>2, <1>3, <1>4, <1>5 DEF SaveStep

\* The send's own steps; <1>k. is one action each.
LEMMA SendKeeps ==
    ASSUME IInv, NEW r \in Request, SendStep(r)
    PROVE  IInv'
  <1>0. TypeOK  BY DEF IInv
  <1>1. CASE Connect(r)
    <2>1. /\ req[r].step = "connect" /\ Goto(r, "lock") /\ open' = open \union {r}
          /\ UNCHANGED <<messages, rows, claims, lock, late, client, spent>>
      BY <1>1 DEF Connect, QueriesAt, At
    <2>. DEFINE q == Moved(r, "lock", req[r].target)
    <2>2. "lock" \in Step  BY DEF Step
    <2>3. /\ q \in Working /\ q.step = "lock" /\ req' = [req EXCEPT ![r] = q]
      BY <1>0, <2>1, <2>2, KeyFacts, Moves
    <2>4. PICK p \in Working : p = q  BY <2>3
    <2>. HIDE DEF q
    <2>5. p \in RequestRecord /\ ~Points(p) /\ ~Sends(p) /\ req' = [req EXCEPT ![r] = p]
      BY <2>3, <2>4 DEF Working, RequestRecord, Points, Sends
    <2>6. /\ claims' \in [Key -> Nat] /\ open' \subseteq Request /\ late' \subseteq late
          /\ lock' \in [Intent -> Request \union {NoRequest}] /\ client' \in [Intent -> Client]
          /\ spent' \in [{"edits", "faults"} -> Nat]
      BY <1>0, <2>1 DEF TypeOK
    <2>. QED  BY <2>1, <2>5, <2>6, StillGood, OneMoves
  <1>2. CASE Lock(r)
    <2>1. /\ req[r].step = "lock" /\ Goto(r, "begin")
          /\ lock' = [lock EXCEPT ![req[r].intent] = r]
          /\ UNCHANGED <<messages, rows, claims, open, late, client, spent>>
      BY <1>2 DEF Lock, At
    <2>. DEFINE q == Moved(r, "begin", req[r].target)
    <2>2. "begin" \in Step  BY DEF Step
    <2>3. /\ q \in Working /\ q.step = "begin" /\ req' = [req EXCEPT ![r] = q]
      BY <1>0, <2>1, <2>2, KeyFacts, Moves
    <2>4. PICK p \in Working : p = q  BY <2>3
    <2>. HIDE DEF q
    <2>5. p \in RequestRecord /\ ~Points(p) /\ ~Sends(p) /\ req' = [req EXCEPT ![r] = p]
      BY <2>3, <2>4 DEF Working, RequestRecord, Points, Sends
    <2>6. /\ claims' \in [Key -> Nat] /\ open' \subseteq Request /\ late' \subseteq late
          /\ lock' \in [Intent -> Request \union {NoRequest}] /\ client' \in [Intent -> Client]
          /\ spent' \in [{"edits", "faults"} -> Nat]
      BY <1>0, <2>1 DEF TypeOK
    <2>. QED  BY <2>1, <2>5, <2>6, StillGood, OneMoves
  <1>3. CASE BeginSend(r)
    <2>. DEFINE row == rows[KeyOf(r)]
    <2>1. /\ req[r].step = "begin"
          /\ UNCHANGED <<messages, lock, open, late, client, spent>>
          /\ IF row.status = "none" THEN Claim(KeyOf(r)) ELSE UNCHANGED <<rows, claims>>
      BY <1>3 DEF BeginSend, QueriesAt, At
    <2>2. row \in Row  BY <2>1, KeyFacts
    <2>3. PICK step \in {"respond", "reread", "read"} :
            /\ step = "respond" => row.status = "complete"
            /\ step = "reread" => row.status = "pending" /\ row.target # 0
            /\ req' = [req EXCEPT ![r].step = step, ![r].id = claims'[KeyOf(r)],
                                  ![r].target = row.target]
      BY <1>3, <2>2 DEF BeginSend, Row
    <2>4. step \in Step  BY DEF Step
    <2>5. step \in {"respond", "reread"} => row.target # 0 /\ row.status # "none"
      BY <2>2, <2>3 DEF Row
    <2>. QED  BY <2>1, <2>3, <2>4, <2>5, Begins
  <1>4. CASE ReadDraft(r)
    <2>. DEFINE i == req[r].intent
                found == InDraft(client[i].draft)
    <2>1. /\ req[r].step = "read"
          /\ UNCHANGED <<messages, rows, claims, lock, open, late, client, spent>>
      BY <1>4 DEF ReadDraft, At
    <2>2. CASE \E m \in found : AsApproved(i, m)
      <3>1. PICK m \in found : GotoWith(r, "prepare", m)
        BY <1>4, <2>2 DEF ReadDraft
      <3>2. m \in 1 .. Len(messages) /\ m \in Nat
        BY <1>0, <2>1, <3>1, InDraftExists, KeyFacts
      <3>3. "prepare" \in Step  BY DEF Step
      <3>. QED  BY <2>1, <3>1, <3>2, <3>3, StillGood, SpentGood, GoesOn
    <2>3. CASE ~\E m \in found : AsApproved(i, m)
      <3>1. Goto(r, "unprepare")  BY <1>4, <2>3 DEF ReadDraft
      <3>2. "unprepare" \in Step  BY DEF Step
      <3>3. req[r].target \in Nat  BY <2>1, KeyFacts
      <3>4. spent' \in [{"edits", "faults"} -> Nat]  BY <2>1, SpentGood
      <3>. QED  BY <2>1, <3>1, <3>2, <3>3, <3>4, StillGood, GoesOn
    <2>. QED  BY <2>2, <2>3
  <1>5. CASE Unprepare(r)
    <2>1. /\ req[r].step = "unprepare" /\ End(r)
          /\ UNCHANGED <<messages, claims, late, client, spent>>
          /\ \/ rows' = rows
             \/ rows[KeyOf(r)].target = 0 /\ rows' = [rows EXCEPT ![KeyOf(r)] = NoRow]
      BY <1>5 DEF Unprepare, QueriesAt, At, Unprepared
    <2>2. NoRow \in Row /\ NoRow.target = 0  BY DEF NoRow, Row
    <2>3. /\ rows' \in [Key -> Row]
          /\ \A k \in Key : rows'[k].target \in 0 .. Len(messages)
          /\ \A i \in Intent : OnRecord(i) => OnRecord(i)'
      <3>1. CASE rows' = rows  BY <2>1, <3>1, StillGood
      <3>2. CASE rows[KeyOf(r)].target = 0 /\ rows' = [rows EXCEPT ![KeyOf(r)] = NoRow]
        <4>1. KeyOf(r) \in Key /\ NoRow.target \in 0 .. Len(messages)
          BY <2>1, <2>2, KeyFacts
        <4>2. \A i \in Intent : ~(KeyOf(r) = <<"send", i>> /\ OnRecord(i))
          BY <3>2 DEF OnRecord
        <4>. QED  BY <2>2, <3>2, <4>1, <4>2, RowWritten
      <3>. QED  BY <2>1, <3>1, <3>2
    <2>. QED  BY <2>1, <2>3, SpentGood, Finishes
  <1>6. CASE Prepare(r)
    <2>. DEFINE k == KeyOf(r)
    <2>1. /\ req[r].step = "prepare" /\ req[r].kind = "send"
          /\ UNCHANGED <<messages, claims, late, client, spent>>
      BY <1>6 DEF Prepare, QueriesAt, At
    <2>2. /\ req[r].target \in 1 .. Len(messages) /\ req[r].target \in Nat
          /\ k \in Key /\ k = <<"send", req[r].intent>> /\ rows[k] \in Row /\ Len(messages) \in Nat
      BY <2>1, KeyFacts DEF Points
    <2>3. CASE IsPendingAs(k, req[r].id) /\ rows[k].target \in {0, req[r].target}
      <3>1. /\ rows' = [rows EXCEPT ![k].target = req[r].target] /\ Goto(r, "call")
            /\ UNCHANGED <<lock, open>> /\ rows[k].status = "pending"
        BY <1>6, <2>3 DEF Prepare, IsPendingAs
      <3>. DEFINE new == [rows[k] EXCEPT !.target = req[r].target]
      <3>2. /\ new \in Row /\ new.target = req[r].target /\ new.status = "pending"
            /\ rows' = [rows EXCEPT ![k] = new]
        BY <2>2, <3>1 DEF Row
      <3>3. new.target \in 0 .. Len(messages) /\ new.target # 0  BY <2>2, <3>2
      <3>. HIDE DEF new, k
      <3>4. /\ rows' \in [Key -> Row]
            /\ \A j \in Key : rows'[j].target \in 0 .. Len(messages)
            /\ \A i \in Intent : OnRecord(i) => OnRecord(i)'
        BY <2>2, <3>2, <3>3, RowWritten
      <3>5. \A i \in Intent : req[r].intent = i => OnRecord(i)'
        BY <1>0, <2>2, <3>2, <3>3 DEF OnRecord, TypeOK
      <3>6. "call" \in Step /\ messages' \in Seq(Message) /\ Len(messages') >= Len(messages)
            /\ Len(messages') = Len(messages)
        BY <1>0, <2>1, <2>2 DEF Step, TypeOK
      <3>. QED  BY <2>1, <2>2, <3>1, <3>4, <3>5, <3>6, SpentGood, GoesOn
    <2>4. CASE ~(IsPendingAs(k, req[r].id) /\ rows[k].target \in {0, req[r].target})
      <3>1. End(r) /\ UNCHANGED rows  BY <1>6, <2>4 DEF Prepare
      <3>. QED  BY <2>1, <3>1, StillGood, SpentGood, Finishes
    <2>. QED  BY <2>3, <2>4
  <1>7. CASE RereadDraft(r)
    <2>1. /\ req[r].step = "reread" /\ req[r].kind = "send"
          /\ UNCHANGED <<messages, rows, claims, late, client, spent>>
      BY <1>7 DEF RereadDraft, At
    <2>2. /\ req[r].target \in 1 .. Len(messages) /\ req[r].target \in Nat
          /\ OnRecord(req[r].intent) /\ req[r].intent \in Intent
      BY <2>1, KeyFacts DEF Points, Sends
    <2>3. CASE End(r)  BY <2>1, <2>3, StillGood, SpentGood, Finishes
    <2>4. CASE ~End(r)
      <3>1. PICK step \in {"confirm", "call"} : Goto(r, step) /\ UNCHANGED <<lock, open>>
        BY <1>7, <2>4 DEF RereadDraft
      <3>2. step \in Step  BY DEF Step
      <3>. QED  BY <2>1, <2>2, <3>1, <3>2, StillGood, SpentGood, GoesOn
    <2>. QED  BY <2>3, <2>4
  <1>8. CASE SendAnswered(r)
    <2>1. /\ req[r].step = "await" /\ req[r].kind = "send"
          /\ UNCHANGED <<rows, claims, lock, open, late, client, spent>>
      BY <1>8 DEF SendAnswered, At
    <2>2. /\ req[r].target \in 1 .. Len(messages) /\ req[r].target \in Nat
          /\ Len(messages) \in Nat
      BY <2>1, KeyFacts DEF Points
    <2>3. CASE messages' = messages /\ Goto(r, "confirm")
      <3>1. "confirm" \in Step  BY DEF Step
      <3>. QED  BY <2>1, <2>2, <2>3, <3>1, StillGood, SpentGood, GoesOn
    <2>4. CASE \E m \in SendTargets(req[r].target) : \E id \in SentIds(m) :
                  messages' = SentAs(m, id) /\ GotoWith(r, "complete", id)
      <3>. PICK m \in SendTargets(req[r].target) : \E id \in SentIds(m) :
                  messages' = SentAs(m, id) /\ GotoWith(r, "complete", id)
        BY <2>4
      <3>1. PICK id \in SentIds(m) :
                  messages' = SentAs(m, id) /\ GotoWith(r, "complete", id)
        OBVIOUS
      <3>2. m \in 1 .. Len(messages)  BY <1>0, InDraftExists DEF SendTargets
      <3>3. /\ messages' \in Seq(Message) /\ Len(messages') >= Len(messages)
            /\ id \in 1 .. Len(messages')
        BY <1>0, <3>1, <3>2, SentMessages
      <3>4. id \in Nat /\ "complete" \in Step  BY <3>3 DEF Step
      <3>. QED  BY <2>1, <3>1, <3>3, <3>4, RowsStay, SpentGood, GoesOn
    <2>. QED  BY <1>8, <2>3, <2>4 DEF SendAnswered
  <1>9. CASE ConfirmSent(r)
    <2>1. /\ req[r].step = "confirm" /\ req[r].kind = "send"
          /\ UNCHANGED <<messages, rows, claims, late, client, spent>>
      BY <1>9 DEF ConfirmSent, At
    <2>2. req[r].target \in 1 .. Len(messages) /\ req[r].target \in Nat
      BY <2>1, KeyFacts DEF Points
    <2>3. CASE Confirms(req[r].target)
      <3>1. Goto(r, "complete") /\ UNCHANGED <<lock, open>>  BY <1>9, <2>3 DEF ConfirmSent
      <3>2. "complete" \in Step  BY DEF Step
      <3>. QED  BY <2>1, <2>2, <3>1, <3>2, StillGood, SpentGood, GoesOn
    <2>4. CASE ~Confirms(req[r].target)
      <3>1. End(r)  BY <1>9, <2>4 DEF ConfirmSent
      <3>. QED  BY <2>1, <3>1, StillGood, SpentGood, Finishes
    <2>. QED  BY <2>3, <2>4
  <1>. QED  BY <1>1, <1>2, <1>3, <1>4, <1>5, <1>6, <1>7, <1>8, <1>9 DEF SendStep

\* The steps that saves and sends share.
LEMMA RequestKeeps ==
    ASSUME IInv, NEW r \in Request, RequestStep(r)
    PROVE  IInv'
  <1>0. TypeOK  BY DEF IInv
  <1>1. CASE GiveUp(r)
    <2>1. End(r) /\ UNCHANGED <<messages, rows, claims, late, client, spent>>
      BY <1>1 DEF GiveUp
    <2>. QED  BY <2>1, StillGood, SpentGood, Finishes
  <1>2. CASE SaveStep(r)  BY <1>2, SaveKeeps
  <1>3. CASE SendStep(r)  BY <1>3, SendKeeps
  <1>4. CASE Issue(r)
    <2>1. /\ req[r].step = "call" /\ Goto(r, "await")
          /\ UNCHANGED <<messages, rows, claims, lock, open, late, client, spent>>
      BY <1>4 DEF Issue
    <2>2. /\ req[r].kind = "send" => req[r].target \in 1 .. Len(messages)
          /\ req[r].kind = "send" => OnRecord(req[r].intent)
          /\ req[r].target \in Nat /\ "await" \in Step
      BY <2>1, KeyFacts DEF Points, Sends, Step
    <2>. QED  BY <2>1, <2>2, StillGood, SpentGood, GoesOn
  <1>5. CASE Complete(r)
    <2>. DEFINE k == KeyOf(r)
                done == [status |-> "complete", target |-> req[r].target]
    <2>1. req[r].step = "complete" /\ UNCHANGED <<messages, claims, late, client, spent>>
      BY <1>5 DEF Complete
    <2>2. /\ req[r].target \in 1 .. Len(messages) /\ req[r].target \in Nat /\ k \in Key
          /\ Len(messages) \in Nat
      BY <2>1, KeyFacts DEF Points
    <2>3. CASE rows' = [rows EXCEPT ![k] = done] /\ Goto(r, "respond") /\ UNCHANGED <<lock, open>>
      <3>1. /\ done \in Row /\ done.status # "none" /\ done.target # 0
            /\ done.target \in 0 .. Len(messages) /\ "respond" \in Step
        BY <2>2 DEF Row, Step
      <3>2. rows' = [rows EXCEPT ![k] = done]  BY <2>3
      <3>. HIDE DEF done, k
      <3>3. /\ rows' \in [Key -> Row]
            /\ \A j \in Key : rows'[j].target \in 0 .. Len(messages)
            /\ \A i \in Intent : OnRecord(i) => OnRecord(i)'
        BY <2>2, <3>1, <3>2, RowWritten
      <3>4. /\ messages' \in Seq(Message) /\ Len(messages') >= Len(messages)
            /\ Len(messages') = Len(messages)
        BY <1>0, <2>1 DEF TypeOK
      <3>. QED  BY <2>1, <2>2, <2>3, <3>1, <3>3, <3>4, SpentGood, GoesOn
    <2>4. CASE End(r) /\ rows' = rows
      BY <2>1, <2>4, StillGood, SpentGood, Finishes
    <2>. QED  BY <1>5, <2>3, <2>4 DEF Complete
  <1>6. CASE Respond(r)
    <2>1. req[r].step = "respond" /\ End(r) /\ UNCHANGED <<messages, rows, claims, late, spent>>
      BY <1>6 DEF Respond
    <2>2. req[r].target \in 1 .. Len(messages) /\ req[r].target \in Nat /\ req[r].intent \in Intent
      BY <2>1, KeyFacts DEF Points
    <2>3. messages[req[r].target].draft \in Nat
      <3>1. messages[req[r].target] \in Message  BY <1>0, <2>2, ElementOfSeq DEF TypeOK
      <3>. QED  BY <3>1 DEF Message
    <2>4. client' \in [Intent -> Client]
      <3>1. client \in [Intent -> Client]  BY <1>0 DEF TypeOK
      <3>2. [client[req[r].intent] EXCEPT !.sent = TRUE] \in Client
        BY <2>2, <3>1 DEF Client
      <3>3. [client[req[r].intent] EXCEPT !.draft = messages[req[r].target].draft,
                                          !.expected = req[r].target] \in Client
        BY <2>2, <2>3, <3>1 DEF Client
      <3>4. CASE client' = client  BY <3>1, <3>4
      <3>5. CASE client' # client
        <4>1. PICK new \in Client : client' = [client EXCEPT ![req[r].intent] = new]
          BY <1>6, <2>2, <3>1, <3>2, <3>3, <3>5 DEF Respond
        <4>. QED  BY <3>1, <4>1
      <3>. QED  BY <3>4, <3>5
    <2>. QED  BY <2>1, <2>4, StillGood, SpentGood, Finishes
  <1>. QED  BY <1>1, <1>2, <1>3, <1>4, <1>5, <1>6 DEF RequestStep

\* No request moves.
LEMMA NoneMoves ==
    ASSUME IInv, UNCHANGED <<rows, claims, req, client>>,
           messages' \in Seq(Message), Len(messages') >= Len(messages),
           lock' \in [Intent -> Request \union {NoRequest}],
           open' \subseteq Request, late' \subseteq late,
           spent' \in [{"edits", "faults"} -> Nat]
    PROVE  IInv'
  <1>1. /\ rows \in [Key -> Row] /\ claims \in [Key -> Nat] /\ late \subseteq Call
        /\ req \in [Request -> RequestRecord] /\ client \in [Intent -> Client]
        /\ Len(messages) \in Nat /\ Len(messages') \in Nat
    BY DEF IInv, TypeOK
  <1>2. TypeOK'  BY <1>1 DEF TypeOK
  <1>3. \A call \in late' : call.kind = "send" => call.target \in 1 .. Len(messages')
    BY <1>1 DEF IInv, TargetsExist, Call
  <1>4. \A s \in Request : Points(req[s]) => req[s].target \in 1 .. Len(messages')
    BY <1>1 DEF IInv, TargetsExist
  <1>5. TargetsExist'  BY <1>1, <1>3, <1>4, RowsStay DEF TargetsExist, Points
  <1>6. SendsRecorded'  BY <1>1 DEF IInv, SendsRecorded, Sends, OnRecord
  <1>. QED  BY <1>2, <1>5, <1>6 DEF IInv

\* Failures keep the invariant.
LEMMA FaultKeeps ==
    ASSUME IInv, NEW r \in Request, Fault(r)
    PROVE  IInv'
  <1>0. TypeOK  BY DEF IInv
  <1>1. CASE SaveFailsEarly(r) \/ SaveRejected(r)
    <2>1. /\ req[r].step # "none" /\ Goto(r, "abandon") /\ Spend(MaxFaults, "faults")
          /\ UNCHANGED <<messages, rows, claims, lock, open, late, client>>
      BY <1>1 DEF SaveFailsEarly, SaveRejected, At
    <2>2. "abandon" \in Step  BY DEF Step
    <2>3. req[r].target \in Nat  BY <2>1, KeyFacts
    <2>4. spent' \in [{"edits", "faults"} -> Nat]  BY <2>1, SpentGood
    <2>. QED  BY <2>1, <2>2, <2>3, <2>4, StillGood, GoesOn
  <1>2. CASE Dies(r)
    <2>1. /\ req[r] # Idle /\ End(r) /\ Spend(MaxFaults, "faults")
          /\ UNCHANGED <<messages, rows, claims, client>>
      BY <1>2 DEF Dies, RowsKept
    <2>2. CASE late' = late  BY <2>1, <2>2, StillGood, SpentGood, Finishes
    <2>3. CASE late' # late
      <3>. DEFINE out == [kind |-> req[r].kind, intent |-> req[r].intent,
                          id |-> req[r].id, target |-> req[r].target]
      <3>1. req[r].step = "await" /\ late' = late \union {out}
        BY <1>2, <2>3 DEF Dies
      <3>2. /\ req[r] \in Working
            /\ req[r].kind = "send" => req[r].target \in 1 .. Len(messages)
            /\ req[r].kind = "send" => OnRecord(req[r].intent)
        BY <3>1, KeyFacts DEF Points, Sends
      <3>3. PICK call \in Call : /\ call = out /\ late' = late \union {call}
                                 /\ call.kind = "send" => call.target \in 1 .. Len(messages)
                                 /\ call.kind = "send" => OnRecord(call.intent)
        <4>1. out \in Call  BY <3>2 DEF Working, Call
        <4>. QED  BY <3>1, <3>2, <4>1
      <3>. HIDE DEF out
      <3>4. /\ req' = [req EXCEPT ![r] = Idle]
            /\ lock' \in [Intent -> Request \union {NoRequest}] /\ open' \subseteq Request
        BY <1>0, <2>1, Ends
      <3>5. /\ messages' \in Seq(Message) /\ Len(messages') = Len(messages)
            /\ Len(messages') >= Len(messages) /\ late \subseteq Call
            /\ claims' \in [Key -> Nat] /\ client' \in [Intent -> Client]
        BY <1>0, <2>1 DEF TypeOK
      <3>6. /\ req' \in [Request -> RequestRecord]
            /\ \A s \in Request : Points(req'[s]) => req'[s].target \in 1 .. Len(messages')
            /\ \A s \in Request : Sends(req'[s]) => OnRecord(req[s].intent)'
        BY <2>1, <3>4, <3>5, IdleIsIdle, StillGood, RequestMoves
      <3>7. TypeOK'
        BY <2>1, <3>3, <3>4, <3>5, <3>6, StillGood, SpentGood DEF TypeOK
      <3>8. TargetsExist'
        BY <2>1, <3>3, <3>5, <3>6, StillGood DEF IInv, TargetsExist, Points
      <3>9. SendsRecorded'
        <4>1. ASSUME NEW c \in late', c.kind = "send" PROVE OnRecord(c.intent)'
          BY <2>1, <3>3, <4>1 DEF IInv, SendsRecorded, OnRecord
        <4>. QED  BY <3>6, <4>1 DEF SendsRecorded, Sends
      <3>. QED  BY <3>7, <3>8, <3>9 DEF IInv
    <2>. QED  BY <2>2, <2>3
  <1>3. CASE LoseLock(r)
    <2>1. /\ Spend(MaxFaults, "faults") /\ lock' = Unlocked(r) /\ open' = open \ {r}
          /\ UNCHANGED <<messages, rows, claims, req, late, client>>
      BY <1>3 DEF LoseLock
    <2>2. lock' \in [Intent -> Request \union {NoRequest}] /\ open' \subseteq Request
      BY <1>0, <2>1 DEF TypeOK, Unlocked
    <2>. QED  BY <2>1, <2>2, StillGood, SpentGood, NoneMoves
  <1>. QED  BY <1>1, <1>2, <1>3 DEF Fault

\* A late call keeps the invariant.
LEMMA ArrivalKeeps ==
    ASSUME IInv, NEW call \in late, Arrives(call)
    PROVE  IInv'
  <1>0. TypeOK  BY DEF IInv
  <1>1. /\ late' \subseteq late /\ UNCHANGED <<rows, claims, req, lock, open, client, spent>>
        /\ call \in Call
    BY <1>0 DEF Arrives, TypeOK
  <1>2. /\ lock' \in [Intent -> Request \union {NoRequest}] /\ open' \subseteq Request
        /\ spent' \in [{"edits", "faults"} -> Nat]
        /\ messages \in Seq(Message) /\ Len(messages) \in Nat
    BY <1>0, <1>1 DEF TypeOK
  <1>3. messages' \in Seq(Message) /\ Len(messages') >= Len(messages)
    <2>1. CASE messages' = Saved(call.intent, call.id)
      <3>1. call.intent \in Intent /\ call.id \in Nat  BY <1>1 DEF Call
      <3>. QED  BY <1>0, <1>2, <2>1, <3>1, SavedMessages
    <2>2. CASE \E m \in SendTargets(call.target) : \E id \in SentIds(m) : messages' = SentAs(m, id)
      <3>. PICK m \in SendTargets(call.target) : \E id \in SentIds(m) : messages' = SentAs(m, id)
        BY <2>2
      <3>1. PICK id \in SentIds(m) : messages' = SentAs(m, id)  OBVIOUS
      <3>2. m \in 1 .. Len(messages)  BY <1>0, InDraftExists DEF SendTargets
      <3>. QED  BY <1>0, <3>1, <3>2, SentMessages
    <2>3. CASE messages' = messages  BY <1>2, <2>3
    <2>. QED  BY <2>1, <2>2, <2>3 DEF Arrives
  <1>. QED  BY <1>1, <1>2, <1>3, NoneMoves

\* Changes in Gmail keep the invariant.
LEMMA GmailKeeps ==
    ASSUME IInv, InGmail
    PROVE  IInv'
  <1>0. TypeOK  BY DEF IInv
  <1>1. PICK m \in DOMAIN messages :
            EditOutside(m) \/ \E state \in {"gone", "trash", "sent"} : LeaveOutside(m, state)
    BY DEF InGmail
  <1>2. /\ m \in 1 .. Len(messages) /\ messages \in Seq(Message) /\ Len(messages) \in Nat
        /\ messages[m] \in Message
    BY <1>0, ElementOfSeq DEF TypeOK
  <1>3. /\ UNCHANGED <<rows, claims, req, lock, open, late, client>>
        /\ Spend(MaxEdits, "edits")
    BY <1>1 DEF EditOutside, LeaveOutside
  <1>4. /\ lock' \in [Intent -> Request \union {NoRequest}] /\ open' \subseteq Request
        /\ late' \subseteq late /\ spent' \in [{"edits", "faults"} -> Nat]
    BY <1>0, <1>3, SpentGood DEF TypeOK
  <1>5. messages' \in Seq(Message) /\ Len(messages') >= Len(messages)
    <2>1. CASE EditOutside(m)
      <3>. DEFINE gone == [messages EXCEPT ![m].state = "gone"]
                  new == [draft |-> messages[m].draft, op |-> Outside, content |-> NextMessage,
                          overtook |-> SendUnderWay(messages[m].draft), state |-> "draft"]
      <3>1. messages' = Append(gone, new)  BY <2>1 DEF EditOutside
      <3>2. gone \in Seq(Message) /\ Len(gone) = Len(messages)  BY <1>0, <1>2, MessageMoves
      <3>3. new \in Message
        <4>1. SendUnderWay(messages[m].draft) \in BOOLEAN  BY Zenon DEF SendUnderWay
        <4>. QED  BY <1>2, <4>1 DEF Message, NextMessage
      <3>. HIDE DEF gone, new
      <3>. QED  BY <1>2, <3>1, <3>2, <3>3, AppendProperties
    <2>2. CASE \E state \in {"gone", "trash", "sent"} : LeaveOutside(m, state)
      <3>1. PICK state \in {"gone", "trash", "sent"} :
                messages' = [messages EXCEPT ![m].state = state]
        BY <2>2 DEF LeaveOutside
      <3>2. state \in {"draft", "sent", "trash", "gone"}  OBVIOUS
      <3>. DEFINE moved == [messages EXCEPT ![m].state = state]
      <3>3. moved \in Seq(Message) /\ Len(moved) = Len(messages)
        BY <1>0, <1>2, <3>2, MessageMoves
      <3>. QED  BY <1>2, <3>1, <3>3
    <2>. QED  BY <1>1, <2>1, <2>2
  <1>. QED  BY <1>3, <1>4, <1>5, NoneMoves

-----------------------------------------------------------------------------
(* Who writes an intent's draft.  A claim of the save's row is a pen: the  *)
(* request that holds it, the late call it left, and the message it wrote  *)
(* exclude one another, and while the row is free there is none of them.   *)

\* The message as it was written, not the copy that a send may leave.
Original(m, i) == /\ messages[m].content = m
                  /\ messages[m].op # Outside /\ messages[m].op[1] = i

Holds(q, i) == /\ q.kind = "save" /\ q.intent = i
               /\ q.step \in {"current", "call", "await", "abandon"}
LateSave(call, i) == call.kind = "save" /\ call.intent = i

\* One draft holds one message; only a message that nobody has sent is the draft's.
MessagesFit ==
    /\ \A m \in 1 .. Len(messages) :
          /\ messages[m].content \in 1 .. m /\ messages[m].draft \in 1 .. m
          /\ messages[m].state = "draft" => messages[m].content = m
    /\ \A m, n \in 1 .. Len(messages) :
          /\ messages[m].state = "draft" /\ messages[n].state = "draft"
          /\ messages[m].draft = messages[n].draft
          => m = n

FreeHasNone ==
    \A i \in Intent : rows[<<"save", i>>].status = "none" =>
        /\ \A r \in Request : ~Holds(req[r], i)
        /\ \A call \in late : ~LateSave(call, i)
        /\ \A m \in 1 .. Len(messages) : ~Original(m, i)

OnePen ==
    \A i \in Intent :
        /\ \A r, s \in Request : Holds(req[r], i) /\ Holds(req[s], i) => r = s
        /\ \A r \in Request : Holds(req[r], i) =>
              /\ \A call \in late : ~LateSave(call, i)
              /\ \A m \in 1 .. Len(messages) : ~Original(m, i)
        /\ \A call \in late : LateSave(call, i) =>
              /\ \A other \in late : LateSave(other, i) => other = call
              /\ \A m \in 1 .. Len(messages) : ~Original(m, i)
        /\ \A m, n \in 1 .. Len(messages) : Original(m, i) /\ Original(n, i) => m = n

-----------------------------------------------------------------------------
(* What is sent.  Whoever saves an intent ends at its one original, so that*)
(* the draft a composer sends never becomes another; whatever a send points*)
(* at is of that draft, and is completed only when it is sent.             *)

SaveFits(q) ==
    q.kind = "save" /\ q.step \in {"complete", "respond"} => Original(q.target, q.intent)

Aims == {"prepare", "reread", "call", "await", "confirm", "complete"}
SendFits(q) ==
    q.kind = "send" =>
        /\ client[q.intent].draft # 0
        /\ q.step \in Aims => messages[q.target].draft = client[q.intent].draft
        /\ q.step = "complete" => messages[q.target].state = "sent"

ClientFits(i) ==
    client[i].draft # 0 =>
        /\ client[i].expected \in 1 .. Len(messages)
        /\ Original(client[i].expected, i)
        /\ messages[client[i].expected].draft = client[i].draft

SaveRowFits(i, row) == row.status = "complete" => Original(row.target, i)
SendRowFits(i, row) ==
    /\ row.target # 0 => /\ client[i].draft # 0
                         /\ messages[row.target].draft = client[i].draft
    /\ row.status = "complete" => messages[row.target].state = "sent"

LateFits(call) ==
    call.kind = "send" => /\ client[call.intent].draft # 0
                          /\ messages[call.target].draft = client[call.intent].draft

Aimed ==
    /\ \A r \in Request : SaveFits(req[r]) /\ SendFits(req[r])
    /\ \A i \in Intent : /\ ClientFits(i)
                         /\ SaveRowFits(i, rows[<<"save", i>>])
                         /\ SendRowFits(i, rows[<<"send", i>>])
    /\ \A call \in late : LateFits(call)

-----------------------------------------------------------------------------
(* What was approved.  While an approved send is under way its draft holds *)
(* the approved message, one written since the send checked it, or none.   *)

Checked(m, i) == m = client[i].expected \/ messages[m].overtook
Alone(i) == \A m \in InDraft(client[i].draft) : Checked(m, i)

AimsApproved(q) ==
    q.kind = "send" /\ client[q.intent].approves =>
        /\ q.step \in Aims \ {"complete"} => q.target = client[q.intent].expected
        /\ q.step \in {"prepare", "call", "await"} => Alone(q.intent)
        /\ q.step = "complete" => Checked(messages[q.target].content, q.intent)

RowApproved(i, row) ==
    client[i].approves =>
        /\ row.status = "pending" /\ row.target # 0 => row.target = client[i].expected
        /\ row.status = "complete" => Checked(messages[row.target].content, i)

LateApproved(call) ==
    call.kind = "send" /\ client[call.intent].approves =>
        call.target = client[call.intent].expected /\ Alone(call.intent)

Approved ==
    /\ \A r \in Request : AimsApproved(req[r])
    /\ \A i \in Intent : RowApproved(i, rows[<<"send", i>>])
    /\ \A call \in late : LateApproved(call)

WritesInv == IInv /\ MessagesFit /\ FreeHasNone /\ OnePen /\ Aimed /\ Approved

-----------------------------------------------------------------------------
(* What a step does to the messages, seen from who points at them.         *)

\* Messages are only added, and what is written in one never changes; one that has
\* left its draft stays as it is.
Grown ==
    /\ messages' \in Seq(Message) /\ Len(messages') >= Len(messages)
    /\ \A m \in 1 .. Len(messages) :
          /\ messages'[m].content = messages[m].content
          /\ messages'[m].draft = messages[m].draft
          /\ messages'[m].op = messages[m].op
          /\ messages'[m].overtook = messages[m].overtook
          /\ messages'[m].state = messages[m].state
                \/ (messages[m].state = "draft" /\ messages'[m].state # "draft")

\* The step writes no save.
Unwritten ==
    \A i \in Intent, m \in 1 .. Len(messages') :
        Original(m, i)' => m \in 1 .. Len(messages) /\ Original(m, i)

\* The step writes the save of i, as the last message.
Wrote(i) ==
    /\ Len(messages') = Len(messages) + 1
    /\ \A j \in Intent, m \in 1 .. Len(messages') :
          Original(m, j)' => \/ m \in 1 .. Len(messages) /\ Original(m, j)
                             \/ m = Len(messages') /\ j = i

\* Whatever is put into a draft that was there is put there by somebody who may edit it.
Steady ==
    \A d \in 1 .. Len(messages) : \A m \in InDraft(d)' :
        m \in InDraft(d) \/ ~SendUnderWay(d) \/ messages'[m].overtook

\* The Message-ID of a row is nobody else's.
LEMMA MarksDiffer ==
    ASSUME NEW i, NEW id
    PROVE  <<i, id>> # Outside /\ <<i, id>>[1] = i
  <1>1. Len(<<i, id>>) = 2 /\ Len(<<>>) = 0  OBVIOUS
  <1>. QED  BY <1>1 DEF Outside

\* The sequence of messages.
LEMMA Lengths ==
    ASSUME TypeOK
    PROVE  /\ messages \in Seq(Message) /\ Len(messages) \in Nat
           /\ DOMAIN messages = 1 .. Len(messages)
           /\ \A m \in 1 .. Len(messages) : messages[m] \in Message
  <1>1. messages \in Seq(Message)  BY DEF TypeOK
  <1>2. \A m \in 1 .. Len(messages) : messages[m] \in Message  BY <1>1, ElementOfSeq
  <1>. QED  BY <1>1, <1>2

\* A step that leaves the messages alone.
LEMMA NothingWritten ==
    ASSUME TypeOK, MessagesFit, messages' = messages
    PROVE  Grown /\ MessagesFit' /\ Unwritten /\ Steady
  <1>1. Grown  BY Lengths DEF Grown
  <1>2. MessagesFit'  BY DEF MessagesFit
  <1>3. Unwritten  BY DEF Unwritten, Original
  <1>4. Steady  BY DEF Steady, InDraft
  <1>. QED  BY <1>1, <1>2, <1>3, <1>4

\* A message leaves its draft.
LEMMA Leaves ==
    ASSUME TypeOK, MessagesFit, NEW m \in 1 .. Len(messages),
           NEW state \in {"sent", "trash", "gone"}, messages[m].state = "draft",
           messages' = [messages EXCEPT ![m].state = state]
    PROVE  /\ Grown /\ MessagesFit' /\ Unwritten /\ Steady
           /\ Len(messages') = Len(messages)
           /\ messages'[m].state = state
  <1>1. /\ messages \in Seq(Message) /\ Len(messages) \in Nat
        /\ DOMAIN messages = 1 .. Len(messages)
        /\ \A n \in 1 .. Len(messages) : messages[n] \in Message
    BY Lengths
  <1>2. messages' \in Seq(Message) /\ Len(messages') = Len(messages)
    BY MessageMoves
  <1>3. /\ messages'[m].state = state /\ messages'[m].content = messages[m].content
        /\ messages'[m].draft = messages[m].draft /\ messages'[m].op = messages[m].op
        /\ messages'[m].overtook = messages[m].overtook
    BY <1>1 DEF Message
  <1>4. \A n \in 1 .. Len(messages) : n # m => messages'[n] = messages[n]
    BY <1>1
  <1>5. DOMAIN messages' = 1 .. Len(messages)  BY <1>1
  <1>. HIDE DEF Message
  <1>6. Grown  BY <1>2, <1>3, <1>4 DEF Grown
  <1>7. MessagesFit'  BY <1>2, <1>3, <1>4 DEF MessagesFit
  <1>8. Unwritten  BY <1>2, <1>3, <1>4 DEF Unwritten, Original
  <1>9. Steady  BY <1>1, <1>3, <1>4, <1>5 DEF Steady, InDraft
  <1>. QED  BY <1>2, <1>3, <1>6, <1>7, <1>8, <1>9

\* A message is added, and others may leave their drafts.
LEMMA Adds ==
    ASSUME TypeOK, MessagesFit, NEW kept \in Seq(Message), NEW new \in Message,
           Len(kept) = Len(messages),
           \A m \in 1 .. Len(messages) :
              /\ kept[m].content = messages[m].content /\ kept[m].draft = messages[m].draft
              /\ kept[m].op = messages[m].op
              /\ kept[m].overtook = messages[m].overtook
              /\ kept[m].state = messages[m].state
                    \/ (messages[m].state = "draft" /\ kept[m].state # "draft"),
           new.content \in 1 .. Len(messages) + 1, new.draft \in 1 .. Len(messages) + 1,
           new.state = "draft" =>
              /\ new.content = Len(messages) + 1
              /\ \A m \in 1 .. Len(messages) :
                    messages[m].draft = new.draft => kept[m].state # "draft",
           messages' = Append(kept, new)
    PROVE  /\ Grown /\ MessagesFit'
           /\ Len(messages') = Len(messages) + 1
           /\ messages'[Len(messages) + 1] = new
           /\ \A m \in 1 .. Len(messages) : messages'[m] = kept[m]
           /\ \A d : \A m \in InDraft(d)' :
                 m \in InDraft(d) \/ (m = Len(messages') /\ new.state = "draft" /\ d = new.draft)
           /\ \A i \in Intent, m \in 1 .. Len(messages') :
                 Original(m, i)' => \/ m \in 1 .. Len(messages) /\ Original(m, i)
                                    \/ /\ m = Len(messages') /\ new.content = Len(messages')
                                       /\ new.op # Outside /\ new.op[1] = i
  <1>1. /\ messages \in Seq(Message) /\ Len(messages) \in Nat
        /\ DOMAIN messages = 1 .. Len(messages)
    BY Lengths
  <1>2. /\ messages' \in Seq(Message) /\ Len(messages') = Len(messages) + 1
        /\ messages'[Len(messages) + 1] = new
        /\ \A m \in 1 .. Len(messages) : messages'[m] = kept[m]
        /\ DOMAIN messages' = 1 .. Len(messages) + 1
    BY <1>1, AppendProperties
  <1>3. Grown  BY <1>1, <1>2 DEF Grown
  <1>4. \A m \in 1 .. Len(messages) :
           messages'[m].state = "draft" =>
              messages[m].state = "draft" /\ (new.state = "draft" => messages[m].draft # new.draft)
    BY <1>2
  <1>5. MessagesFit'
    <2>1. \A m \in 1 .. Len(messages') :
             /\ messages'[m].content \in 1 .. m /\ messages'[m].draft \in 1 .. m
             /\ messages'[m].state = "draft" => messages'[m].content = m
      BY <1>1, <1>2, <1>4 DEF MessagesFit
    <2>2. \A m, n \in 1 .. Len(messages') :
             messages'[m].state = "draft" /\ messages'[n].state = "draft"
             /\ messages'[m].draft = messages'[n].draft => m = n
      BY <1>1, <1>2, <1>4 DEF MessagesFit
    <2>. QED  BY <2>1, <2>2 DEF MessagesFit
  <1>6. \A d : \A m \in InDraft(d)' :
           m \in InDraft(d) \/ (m = Len(messages') /\ new.state = "draft" /\ d = new.draft)
    BY <1>1, <1>2, <1>4 DEF InDraft
  <1>7. \A i \in Intent, m \in 1 .. Len(messages') :
           Original(m, i)' => \/ m \in 1 .. Len(messages) /\ Original(m, i)
                              \/ /\ m = Len(messages') /\ new.content = Len(messages')
                                 /\ new.op # Outside /\ new.op[1] = i
    BY <1>1, <1>2 DEF Original
  <1>. QED  BY <1>2, <1>3, <1>5, <1>6, <1>7

\* Messages with one of them moved to another state.
MovedTo(m, state) == [messages EXCEPT ![m].state = state]

\* Moving a message changes its state only, and only from its draft.
LEMMA MovedMessages ==
    ASSUME TypeOK, NEW m \in 1 .. Len(messages), NEW state \in {"sent", "trash", "gone"},
           messages[m].state = "draft"
    PROVE  /\ MovedTo(m, state) \in Seq(Message) /\ Len(MovedTo(m, state)) = Len(messages)
           /\ MovedTo(m, state)[m].state = state
           /\ \A n \in 1 .. Len(messages) :
                 /\ MovedTo(m, state)[n].content = messages[n].content
                 /\ MovedTo(m, state)[n].draft = messages[n].draft
                 /\ MovedTo(m, state)[n].op = messages[n].op
                 /\ MovedTo(m, state)[n].overtook = messages[n].overtook
                 /\ MovedTo(m, state)[n].state = messages[n].state
                       \/ (messages[n].state = "draft" /\ MovedTo(m, state)[n].state # "draft")
  <1>1. /\ messages \in Seq(Message) /\ Len(messages) \in Nat
        /\ DOMAIN messages = 1 .. Len(messages)
        /\ \A n \in 1 .. Len(messages) : messages[n] \in Message
    BY Lengths
  <1>2. MovedTo(m, state) \in Seq(Message) /\ Len(MovedTo(m, state)) = Len(messages)
    <2>1. state \in {"draft", "sent", "trash", "gone"}  OBVIOUS
    <2>2. PICK kept : kept = [messages EXCEPT ![m].state = state]  OBVIOUS
    <2>3. kept \in Seq(Message) /\ Len(kept) = Len(messages)  BY <2>1, <2>2, MessageMoves
    <2>. QED  BY <2>2, <2>3 DEF MovedTo
  <1>3. /\ MovedTo(m, state)[m].state = state /\ MovedTo(m, state)[m].content = messages[m].content
        /\ MovedTo(m, state)[m].draft = messages[m].draft
        /\ MovedTo(m, state)[m].op = messages[m].op
        /\ MovedTo(m, state)[m].overtook = messages[m].overtook
    BY <1>1 DEF Message, MovedTo
  <1>4. \A n \in 1 .. Len(messages) : n # m => MovedTo(m, state)[n] = messages[n]
    BY <1>1 DEF MovedTo
  <1>. QED  BY <1>2, <1>3, <1>4

\* A draft is sent: its message is the one that is sent, or another is that has its draft.
LEMMA IsSent ==
    ASSUME TypeOK, MessagesFit, NEW m \in 1 .. Len(messages), messages[m].state = "draft",
           NEW id \in SentIds(m), messages' = SentAs(m, id)
    PROVE  /\ Grown /\ MessagesFit' /\ Unwritten /\ Steady
           /\ id \in 1 .. Len(messages')
           /\ messages'[id].state = "sent" /\ messages'[id].draft = messages[m].draft
           /\ messages'[id].content = m
  <1>0. /\ messages[m].content = m /\ messages[m].draft \in 1 .. m /\ messages[m] \in Message
        /\ Len(messages) \in Nat
    BY Lengths DEF MessagesFit
  <1>1. CASE id = m
    <2>1. messages' = [messages EXCEPT ![m].state = "sent"]  BY <1>1 DEF SentAs
    <2>2. Grown /\ MessagesFit' /\ Unwritten /\ Steady /\ messages'[m].state = "sent"
      BY <2>1, Leaves
    <2>. QED  BY <1>0, <1>1, <2>2 DEF Grown
  <1>2. CASE id # m
    <2>. DEFINE kept == MovedTo(m, "gone")
                new == [messages[m] EXCEPT !.state = "sent"]
    <2>1. messages' = Append(kept, new) /\ id = Len(messages) + 1
      BY <1>2 DEF SentAs, SentIds, NextMessage, MovedTo
    <2>2. /\ new \in Message /\ new.state = "sent" /\ new.content = m
          /\ new.draft = messages[m].draft
      BY <1>0 DEF Message
    <2>3. /\ kept \in Seq(Message) /\ Len(kept) = Len(messages)
          /\ \A n \in 1 .. Len(messages) :
                 /\ kept[n].content = messages[n].content /\ kept[n].draft = messages[n].draft
                 /\ kept[n].op = messages[n].op
                 /\ kept[n].overtook = messages[n].overtook
                 /\ kept[n].state = messages[n].state
                       \/ (messages[n].state = "draft" /\ kept[n].state # "draft")
      <3>. DEFINE gone == "gone"
      <3>1. gone \in {"sent", "trash", "gone"}  OBVIOUS
      <3>. HIDE DEF gone
      <3>2. /\ MovedTo(m, gone) \in Seq(Message) /\ Len(MovedTo(m, gone)) = Len(messages)
            /\ \A n \in 1 .. Len(messages) :
                  /\ MovedTo(m, gone)[n].content = messages[n].content
                  /\ MovedTo(m, gone)[n].draft = messages[n].draft
                  /\ MovedTo(m, gone)[n].op = messages[n].op
                  /\ MovedTo(m, gone)[n].overtook = messages[n].overtook
                  /\ MovedTo(m, gone)[n].state = messages[n].state
                       \/ (messages[n].state = "draft" /\ MovedTo(m, gone)[n].state # "draft")
      
        BY ONLY TypeOK, messages[m].state = "draft", m \in 1 .. Len(messages), <3>1, MovedMessages
      <3>. QED  BY <3>2 DEF gone
    <2>. HIDE DEF kept, new
    <2>4. new.content \in 1 .. Len(messages) + 1 /\ new.draft \in 1 .. Len(messages) + 1
      BY <1>0, <2>2
    <2>5. /\ Grown /\ MessagesFit'
          /\ Len(messages') = Len(messages) + 1
          /\ messages'[Len(messages) + 1] = new
          /\ \A d : \A n \in InDraft(d)' :
                n \in InDraft(d) \/ (n = Len(messages') /\ new.state = "draft" /\ d = new.draft)
          /\ \A i \in Intent, n \in 1 .. Len(messages') :
                 Original(n, i)' => \/ n \in 1 .. Len(messages) /\ Original(n, i)
                                    \/ n = Len(messages') /\ new.content = Len(messages')
      BY <2>1, <2>2, <2>3, <2>4, Adds
    <2>6. Steady  BY <2>2, <2>5 DEF Steady
    <2>7. Unwritten  BY <1>0, <2>2, <2>5 DEF Unwritten
    <2>. QED  BY <1>0, <2>1, <2>2, <2>5, <2>6, <2>7
  <1>. QED  BY <1>1, <1>2

\* A draft is edited in Gmail.
LEMMA IsEdited ==
    ASSUME TypeOK, MessagesFit, NEW m \in 1 .. Len(messages), EditOutside(m)
    PROVE  Grown /\ MessagesFit' /\ Unwritten /\ Steady
  <1>. DEFINE kept == MovedTo(m, "gone")
              new == [draft |-> messages[m].draft, op |-> Outside, content |-> NextMessage,
                      overtook |-> SendUnderWay(messages[m].draft), state |-> "draft"]
  <1>1. messages[m].state = "draft" /\ messages' = Append(kept, new)
    BY DEF EditOutside, MovedTo
  <1>2. /\ messages[m] \in Message /\ Len(messages) \in Nat
        /\ messages[m].draft \in 1 .. m
    BY Lengths DEF MessagesFit
  <1>3. /\ new \in Message /\ new.state = "draft" /\ new.content = Len(messages) + 1
        /\ new.draft = messages[m].draft /\ new.op = Outside
        /\ new.overtook = SendUnderWay(new.draft)
    <2>1. SendUnderWay(messages[m].draft) \in BOOLEAN  BY Zenon DEF SendUnderWay
    <2>. QED  BY <1>2, <2>1 DEF Message, NextMessage
  <1>4. /\ kept \in Seq(Message) /\ Len(kept) = Len(messages)
        /\ kept[m].state = "gone"
        /\ \A n \in 1 .. Len(messages) :
               /\ kept[n].content = messages[n].content /\ kept[n].draft = messages[n].draft
               /\ kept[n].op = messages[n].op
               /\ kept[n].overtook = messages[n].overtook
               /\ kept[n].state = messages[n].state
                     \/ (messages[n].state = "draft" /\ kept[n].state # "draft")
    BY <1>1, MovedMessages
  <1>. HIDE DEF kept, new
  <1>5. \A n \in 1 .. Len(messages) : messages[n].draft = new.draft => kept[n].state # "draft"
    BY <1>1, <1>3, <1>4 DEF MessagesFit
  <1>6. new.content \in 1 .. Len(messages) + 1 /\ new.draft \in 1 .. Len(messages) + 1
    BY <1>2, <1>3
  <1>7. /\ Grown /\ MessagesFit'
        /\ \A d : \A n \in InDraft(d)' :
              n \in InDraft(d) \/ (n = Len(messages') /\ new.state = "draft" /\ d = new.draft)
        /\ \A i \in Intent, n \in 1 .. Len(messages') :
               Original(n, i)' => \/ n \in 1 .. Len(messages) /\ Original(n, i)
                                  \/ n = Len(messages') /\ new.op # Outside
    BY <1>1, <1>3, <1>4, <1>5, <1>6, Adds
  <1>8. Steady  BY <1>1, <1>3, <1>7 DEF Steady
  <1>9. Unwritten  BY <1>3, <1>7 DEF Unwritten
  <1>. QED  BY <1>7, <1>8, <1>9

\* drafts.create and drafts.update.
LEMMA IsSaved ==
    ASSUME TypeOK, MessagesFit, NEW i \in Intent, NEW id \in Nat,
           messages' = Saved(i, id)
    PROVE  /\ Grown /\ MessagesFit' /\ Wrote(i) /\ Steady
           /\ NextMessage = Len(messages') /\ \A n \in {NextMessage} : Original(n, i)'
  <1>. DEFINE draft == IF client[i].creates THEN NextMessage ELSE ExistingDraft
              moved(m) == IF m \in InDraft(draft) THEN [messages[m] EXCEPT !.state = "gone"]
                                                  ELSE messages[m]
              kept == [m \in DOMAIN messages |-> moved(m)]
              new == [draft |-> draft, op |-> <<i, id>>, content |-> NextMessage,
                      overtook |-> SendUnderWay(draft), state |-> "draft"]
  <1>1. /\ messages \in Seq(Message) /\ Len(messages) \in Nat
        /\ DOMAIN messages = 1 .. Len(messages)
        /\ \A n \in 1 .. Len(messages) : messages[n] \in Message
    BY Lengths
  <1>2. /\ new \in Message /\ new.state = "draft" /\ new.content = Len(messages) + 1
        /\ new.draft = draft /\ new.op = <<i, id>> /\ draft \in 1 .. Len(messages) + 1
        /\ new.overtook = SendUnderWay(new.draft)
    <2>1. SendUnderWay(draft) \in BOOLEAN  BY Zenon DEF SendUnderWay
    <2>. QED  BY <1>1, <2>1 DEF Message, NextMessage, ExistingDraft
  <1>3. \A m \in 1 .. Len(messages) :
           /\ moved(m) \in Message
           /\ moved(m).content = messages[m].content /\ moved(m).draft = messages[m].draft
           /\ moved(m).op = messages[m].op
           /\ moved(m).overtook = messages[m].overtook
           /\ moved(m).state = messages[m].state
                 \/ (messages[m].state = "draft" /\ moved(m).state # "draft")
           /\ messages[m].draft = draft => moved(m).state # "draft"
    BY <1>1 DEF InDraft, Message
  <1>4. /\ kept \in [1 .. Len(messages) -> Message]
        /\ \A m \in 1 .. Len(messages) : kept[m] = moved(m)
    BY <1>1, <1>3
  <1>5. kept \in Seq(Message) /\ Len(kept) = Len(messages)
    BY <1>1, <1>4, SeqDef
  <1>6. messages' = Append(kept, new)  BY DEF Saved
  <1>7. \A n \in 1 .. Len(messages) :
           /\ kept[n].content = messages[n].content /\ kept[n].draft = messages[n].draft
           /\ kept[n].op = messages[n].op
           /\ kept[n].overtook = messages[n].overtook
           /\ kept[n].state = messages[n].state
                 \/ (messages[n].state = "draft" /\ kept[n].state # "draft")
           /\ messages[n].draft = draft => kept[n].state # "draft"
    <2>. HIDE DEF kept, moved, draft
    <2>. QED  BY <1>3, <1>4
  <1>8. /\ client[i].creates => draft = Len(messages) + 1
        /\ ~client[i].creates => draft = ExistingDraft
    BY DEF NextMessage
  <1>. HIDE DEF kept, new, moved, draft
  <1>9. /\ Grown /\ MessagesFit'
        /\ Len(messages') = Len(messages) + 1
        /\ messages'[Len(messages) + 1] = new
        /\ \A d : \A n \in InDraft(d)' :
              n \in InDraft(d) \/ (n = Len(messages') /\ new.state = "draft" /\ d = new.draft)
        /\ \A j \in Intent, n \in 1 .. Len(messages') :
               Original(n, j)' => \/ n \in 1 .. Len(messages) /\ Original(n, j)
                                  \/ n = Len(messages') /\ new.op[1] = j
    BY <1>2, <1>5, <1>6, <1>7, Adds
  <1>10. <<i, id>> # Outside /\ <<i, id>>[1] = i  BY MarksDiffer
  <1>11. Wrote(i)  BY <1>2, <1>9, <1>10 DEF Wrote
  <1>12. \A n \in {NextMessage} : Original(n, i)'
    BY <1>2, <1>9, <1>10 DEF Original, NextMessage
  <1>13. Steady  BY <1>1, <1>2, <1>8, <1>9 DEF Steady
  <1>. QED  BY <1>9, <1>11, <1>12, <1>13 DEF NextMessage

-----------------------------------------------------------------------------
(* What a step needs to show: everything that is not touched still fits.   *)

\* What a save wrote stays what it wrote.
LEMMA OriginalStays ==
    ASSUME Grown, NEW i \in Intent, NEW m \in 1 .. Len(messages), Original(m, i)
    PROVE  Original(m, i)'
  BY DEF Grown, Original

\* Nobody's draft becomes another, and nobody's approval.
ClientsStay ==
    \A i \in Intent :
        /\ client'[i].approves = client[i].approves
        /\ client[i].draft # 0 => /\ client'[i].draft = client[i].draft
                                  /\ client'[i].expected = client[i].expected

\* A draft that a send is under way from is given no other message.
LEMMA AloneStays ==
    ASSUME WritesInv, Grown, Steady, ClientsStay, NEW i \in Intent,
           NEW d \in 1 .. Len(messages), d = client[i].draft, SendUnderWay(d), Alone(i)
    PROVE  Alone(i)'
  <1>1. \A m \in InDraft(d)' : m \in InDraft(d) \/ messages'[m].overtook  BY DEF Steady
  <1>2. client[i].draft # 0 /\ client'[i].draft = d /\ client'[i].expected = client[i].expected
    BY DEF ClientsStay
  <1>3. \A m \in InDraft(d) : m = client[i].expected \/ messages'[m].overtook
    BY Lengths DEF WritesInv, IInv, Alone, Checked, InDraft, Grown
  <1>. QED  BY <1>1, <1>2, <1>3 DEF Alone, Checked, InDraft

\* What was approved, or overtook the approval, still did.
LEMMA CheckedStays ==
    ASSUME WritesInv, Grown, ClientsStay, NEW i \in Intent, client[i].draft # 0,
           NEW m \in 1 .. Len(messages), Checked(messages[m].content, i)
    PROVE  Checked(messages[m].content, i)'
  <1>1. messages[m].content \in 1 .. Len(messages)
    <2>1. Len(messages) \in Nat /\ messages[m].content \in 1 .. m
      BY Lengths DEF WritesInv, IInv, MessagesFit
    <2>. QED  BY <2>1
  <1>. QED  BY <1>1 DEF Checked, Grown, ClientsStay

\* A request that does not move still fits.
LEMMA RequestsFit ==
    ASSUME WritesInv, Grown, Steady, ClientsStay, NEW s \in Request,
           NEW p \in RequestRecord, p = req[s]
    PROVE  /\ SaveFits(p)' /\ SendFits(p)'
           /\ AimsApproved(p)'
  <1>1. /\ Points(p) => p.target \in 1 .. Len(messages)
        /\ SaveFits(p) /\ SendFits(p) /\ AimsApproved(p)
    BY DEF WritesInv, IInv, TargetsExist, Aimed, Approved
  <1>2. p.kind \in {"save", "send"} => p.intent \in Intent
    BY DEF RequestRecord, Idle
  <1>3. SaveFits(p)'  BY <1>1, <1>2, OriginalStays DEF SaveFits, Points
  <1>4. SendFits(p)'
    BY <1>1, <1>2 DEF SendFits, Points, Aims, Grown, ClientsStay
  <1>5. AimsApproved(p)'
    <2>. SUFFICES ASSUME p.kind = "send", client'[p.intent].approves
                  PROVE  AimsApproved(p)'
      BY DEF AimsApproved
    <2>1. PICK i \in Intent : i = p.intent  BY <1>2
    <2>2. /\ client[i].approves /\ client[i].draft # 0
          /\ client'[i].draft = client[i].draft /\ client'[i].expected = client[i].expected
      BY <1>1, <2>1 DEF SendFits, ClientsStay
    <2>3. p.step \in Aims \ {"complete"} => p.target = client'[i].expected
      BY <1>1, <2>1, <2>2 DEF AimsApproved
    <2>4. p.step = "complete" => Checked(messages[p.target].content, i)'
      BY <1>1, <2>1, <2>2, CheckedStays DEF AimsApproved, Points
    <2>5. ASSUME p.step \in {"prepare", "call", "await"} PROVE Alone(i)'
      <3>1. /\ p.target \in 1 .. Len(messages) /\ Alone(i)
            /\ messages[p.target].draft = client[i].draft
        BY <1>1, <2>1, <2>2, <2>5 DEF Points, AimsApproved, SendFits, Aims
      <3>2. client[i].draft \in 1 .. Len(messages)
        <4>1. Len(messages) \in Nat  BY Lengths DEF WritesInv, IInv
        <4>. QED  BY <3>1, <4>1 DEF WritesInv, MessagesFit
      <3>3. PICK d \in 1 .. Len(messages) : d = client[i].draft  BY <3>2
      <3>4. SendUnderWay(d)  BY <2>5, <3>1, <3>3 DEF SendUnderWay
      <3>. QED  BY <3>1, <3>3, <3>4, AloneStays
    <2>. QED  BY <2>1, <2>3, <2>4, <2>5 DEF AimsApproved
  <1>. QED  BY <1>3, <1>4, <1>5

\* A row that is not written still fits.
LEMMA RowsFit ==
    ASSUME WritesInv, Grown, ClientsStay, NEW i \in Intent, NEW row \in Row
    PROVE  /\ row = rows[<<"save", i>>] => SaveRowFits(i, row)'
           /\ row = rows[<<"send", i>>] =>
                 SendRowFits(i, row)' /\ RowApproved(i, row)'
  <1>1. /\ <<"save", i>> \in Key /\ <<"send", i>> \in Key  BY DEF Key
  <1>2. row.target = 0 \/ row.target \in 1 .. Len(messages)
        \/ (row # rows[<<"save", i>>] /\ row # rows[<<"send", i>>])
    BY <1>1 DEF WritesInv, IInv, TargetsExist
  <1>3. row.status = "complete" => row.target # 0  BY DEF Row
  <1>4. ASSUME row = rows[<<"save", i>>] PROVE SaveRowFits(i, row)'
    BY <1>2, <1>3, <1>4, OriginalStays DEF WritesInv, Aimed, SaveRowFits
  <1>5. ASSUME row = rows[<<"send", i>>] PROVE SendRowFits(i, row)'
    <2>1. SendRowFits(i, row)  BY <1>5 DEF WritesInv, Aimed
    <2>. QED  BY <1>2, <1>3, <1>5, <2>1 DEF SendRowFits, Grown, ClientsStay
  <1>6. ASSUME row = rows[<<"send", i>>] PROVE RowApproved(i, row)'
    <2>1. SendRowFits(i, row) /\ RowApproved(i, row)
      BY <1>6 DEF WritesInv, Aimed, Approved
    <2>2. /\ client'[i].approves = client[i].approves
          /\ client[i].draft # 0 => client'[i].expected = client[i].expected
      BY DEF ClientsStay
    <2>3. CASE row.target = 0  BY <1>3, <2>3 DEF RowApproved
    <2>4. CASE row.target # 0
      <3>1. row.target \in 1 .. Len(messages) /\ client[i].draft # 0
        BY <1>2, <1>6, <2>1, <2>4 DEF SendRowFits
      <3>2. PICK m \in 1 .. Len(messages) : m = row.target  BY <3>1
      <3>3. row.status = "complete" /\ client[i].approves => Checked(messages[m].content, i)'
        BY <2>1, <3>1, <3>2, CheckedStays DEF RowApproved
      <3>4. row.status = "pending" /\ client[i].approves => row.target = client[i].expected
        BY <2>1, <3>1 DEF RowApproved
      <3>. QED  BY <2>2, <3>1, <3>2, <3>3, <3>4 DEF RowApproved, Checked
    <2>. QED  BY <2>3, <2>4
  <1>. QED  BY <1>4, <1>5, <1>6

\* A call that was late before still fits.
LEMMA LatesFit ==
    ASSUME WritesInv, Grown, Steady, ClientsStay, NEW call \in late
    PROVE  LateFits(call)' /\ LateApproved(call)'
  <1>. SUFFICES ASSUME call.kind = "send"
                PROVE  LateFits(call)' /\ LateApproved(call)'
    BY DEF LateFits, LateApproved
  <1>1. call \in Call  BY DEF WritesInv, IInv, TypeOK
  <1>2. PICK i \in Intent : i = call.intent  BY <1>1 DEF Call
  <1>3. /\ call.target \in 1 .. Len(messages)
        /\ LateFits(call) /\ LateApproved(call)
    BY DEF WritesInv, IInv, TargetsExist, Aimed, Approved
  <1>4. /\ client[i].draft # 0 /\ messages[call.target].draft = client[i].draft
        /\ client'[i].draft = client[i].draft /\ client'[i].expected = client[i].expected
        /\ client'[i].approves = client[i].approves
    BY <1>2, <1>3 DEF LateFits, ClientsStay
  <1>5. LateFits(call)'  BY <1>2, <1>3, <1>4 DEF LateFits, Grown
  <1>6. ASSUME client[i].approves PROVE LateApproved(call)'
    <2>1. call.target = client[i].expected /\ Alone(i)
      BY <1>2, <1>3, <1>6 DEF LateApproved
    <2>2. client[i].draft \in 1 .. Len(messages)
      <3>1. Len(messages) \in Nat  BY Lengths DEF WritesInv, IInv
      <3>. QED  BY <1>3, <1>4, <3>1 DEF WritesInv, MessagesFit
    <2>3. PICK d \in 1 .. Len(messages) : d = client[i].draft  BY <2>2
    <2>4. SendUnderWay(d)  BY <1>4, <2>3 DEF SendUnderWay
    <2>5. Alone(i)'  BY <1>6, <2>1, <2>3, <2>4, AloneStays
    <2>. QED  BY <1>2, <1>4, <2>1, <2>5 DEF LateApproved
  <1>. QED  BY <1>2, <1>4, <1>5, <1>6 DEF LateApproved

\* One request moves, one row is written, and late calls may be added: it is enough
\* that these fit.
LEMMA Persists ==
    ASSUME WritesInv, IInv', Grown, Steady, ClientsStay, \A i \in Intent : ClientFits(i)',
           NEW r, NEW q \in RequestRecord,
           \A s \in Request : req'[s] = req[s] \/ (s = r /\ req'[s] = q),
           SaveFits(q)', SendFits(q)', AimsApproved(q)',
           NEW k, NEW row \in Row,
           \A j \in Key : rows'[j] = rows[j] \/ (j = k /\ rows'[j] = row),
           \A i \in Intent :
              /\ k = <<"save", i>> => SaveRowFits(i, row)'
              /\ k = <<"send", i>> =>
                    SendRowFits(i, row)' /\ RowApproved(i, row)',
           \A call \in late' :
              call \in late \/ (LateFits(call)' /\ LateApproved(call)')
    PROVE  Aimed' /\ Approved'
  <1>1. ASSUME NEW s \in Request
        PROVE  /\ SaveFits(req[s])' /\ SendFits(req[s])'
               /\ AimsApproved(req[s])'
    <2>1. CASE req'[s] = req[s]
      <3>1. PICK p \in RequestRecord : p = req[s]  BY DEF WritesInv, IInv, TypeOK
      <3>2. /\ SaveFits(p)' /\ SendFits(p)'
            /\ AimsApproved(p)'
        BY <3>1, RequestsFit
      <3>3. SaveFits(req[s])'  BY <2>1, <3>1, <3>2 DEF SaveFits
      <3>4. SendFits(req[s])'  BY <2>1, <3>1, <3>2 DEF SendFits
      <3>5. AimsApproved(req[s])'
        BY <2>1, <3>1, <3>2 DEF AimsApproved
      <3>. QED  BY <3>3, <3>4, <3>5
    <2>2. CASE req'[s] = q
      BY <2>2 DEF SaveFits, SendFits, AimsApproved, Original, Alone, InDraft
    <2>. QED  BY <2>1, <2>2
  <1>2. ASSUME NEW i \in Intent
        PROVE  /\ SaveRowFits(i, rows[<<"save", i>>])'
               /\ SendRowFits(i, rows[<<"send", i>>])'
               /\ RowApproved(i, rows[<<"send", i>>])'
    <2>1. <<"save", i>> \in Key /\ <<"send", i>> \in Key  BY DEF Key
    <2>2. PICK save \in Row : save = rows'[<<"save", i>>]  BY <2>1 DEF IInv, TypeOK
    <2>3. PICK send \in Row : send = rows'[<<"send", i>>]  BY <2>1 DEF IInv, TypeOK
    <2>4. SaveRowFits(i, save)'  BY <2>1, <2>2, RowsFit
    <2>5. SendRowFits(i, send)' /\ RowApproved(i, send)'
      BY <2>1, <2>3, RowsFit
    <2>6. SaveRowFits(i, rows[<<"save", i>>])'
      BY <2>2, <2>4 DEF SaveRowFits, Original
    <2>7. SendRowFits(i, rows[<<"send", i>>])'  BY <2>3, <2>5 DEF SendRowFits
    <2>8. RowApproved(i, rows[<<"send", i>>])'
      BY <2>3, <2>5 DEF RowApproved
    <2>. QED  BY <2>6, <2>7, <2>8
  <1>3. \A call \in late' : LateFits(call)' /\ LateApproved(call)'
    BY LatesFit
  <1>. QED  BY <1>1, <1>2, <1>3 DEF Aimed, Approved

-----------------------------------------------------------------------------
(* What a step does to an intent's pen.                                    *)

Held(i) == \E s \in Request : Holds(req[s], i)
Pending(i) == \E call \in late : LateSave(call, i)
HasWritten(i) == \E m \in 1 .. Len(messages) : Original(m, i)
FreeRow(i) == rows[<<"save", i>>].status = "none"

\* There is no new pen.
Quiet(i) ==
    /\ \A s \in Request : Holds(req'[s], i) => Holds(req[s], i)
    /\ \A call \in late' : LateSave(call, i) => call \in late
    /\ \A m \in 1 .. Len(messages') : Original(m, i)' => m \in 1 .. Len(messages) /\ Original(m, i)
    /\ FreeRow(i)' => FreeRow(i)

\* There is none.
Dropped(i) == ~Held(i)' /\ ~Pending(i)' /\ ~HasWritten(i)'

\* One request, one late call or one message has it.
HeldByOne(i) ==
    /\ ~FreeRow(i)' /\ ~Pending(i)' /\ ~HasWritten(i)'
    /\ \A s, t \in Request : Holds(req'[s], i) /\ Holds(req'[t], i) => s = t
PendingInOne(i) ==
    /\ ~FreeRow(i)' /\ ~Held(i)' /\ ~HasWritten(i)'
    /\ \A c, d \in late' : LateSave(c, i) /\ LateSave(d, i) => c = d
WrittenInOne(i) ==
    /\ ~FreeRow(i)' /\ ~Held(i)' /\ ~Pending(i)'
    /\ \A m, n \in 1 .. Len(messages') : Original(m, i)' /\ Original(n, i)' => m = n

\* Every intent keeps its pen, or gets one that is the only one.
LEMMA Pens ==
    ASSUME FreeHasNone, OnePen,
           \A i \in Intent : \/ Quiet(i) \/ Dropped(i)
                             \/ HeldByOne(i) \/ PendingInOne(i) \/ WrittenInOne(i)
    PROVE  FreeHasNone' /\ OnePen'
  <1>. DEFINE FreeHas(i) == FreeRow(i) => ~Held(i) /\ ~Pending(i) /\ ~HasWritten(i)
              One(i) ==
                /\ \A r, s \in Request : Holds(req[r], i) /\ Holds(req[s], i) => r = s
                /\ \A r \in Request : Holds(req[r], i) =>
                      /\ \A call \in late : ~LateSave(call, i)
                      /\ \A m \in 1 .. Len(messages) : ~Original(m, i)
                /\ \A call \in late : LateSave(call, i) =>
                      /\ \A other \in late : LateSave(other, i) => other = call
                      /\ \A m \in 1 .. Len(messages) : ~Original(m, i)
                /\ \A m, n \in 1 .. Len(messages) : Original(m, i) /\ Original(n, i) => m = n
  <1>1. ASSUME NEW i \in Intent PROVE FreeHas(i)' /\ One(i)'
    <2>1. FreeHas(i) /\ One(i)
      BY DEF FreeHasNone, OnePen, FreeRow, Held, Pending, HasWritten
    <2>2. CASE Quiet(i)  BY <2>1, <2>2 DEF Quiet, Held, Pending, HasWritten
    <2>3. CASE Dropped(i)  BY <2>3 DEF Dropped, Held, Pending, HasWritten
    <2>4. CASE HeldByOne(i)  BY <2>4 DEF HeldByOne, Held, Pending, HasWritten
    <2>5. CASE PendingInOne(i)
      BY <2>5 DEF PendingInOne, Held, Pending, HasWritten
    <2>6. CASE WrittenInOne(i)
      BY <2>6 DEF WrittenInOne, Held, Pending, HasWritten
    <2>. QED  BY <2>2, <2>3, <2>4, <2>5, <2>6
  <1>. QED  BY <1>1 DEF FreeHasNone, OnePen, FreeRow, Held, Pending, HasWritten

\* Whoever has the pen has it alone, and its row is taken.
LEMMA HolderIsAlone ==
    ASSUME FreeHasNone, OnePen, NEW i \in Intent, NEW r \in Request, Holds(req[r], i)
    PROVE  /\ ~FreeRow(i) /\ ~Pending(i) /\ ~HasWritten(i)
           /\ \A s \in Request : Holds(req[s], i) => s = r
           /\ \A j \in Intent : Holds(req[r], j) => j = i
  BY DEF FreeHasNone, OnePen, FreeRow, Pending, HasWritten, Holds

\* The same of a late call.
LEMMA LateIsAlone ==
    ASSUME FreeHasNone, OnePen, NEW i \in Intent, NEW call \in late, LateSave(call, i)
    PROVE  /\ ~FreeRow(i) /\ ~Held(i) /\ ~HasWritten(i)
           /\ \A other \in late : LateSave(other, i) => other = call
  BY DEF FreeHasNone, OnePen, FreeRow, Held, HasWritten

\* Nobody takes a pen up.
LEMMA PensStay ==
    ASSUME FreeHasNone, OnePen, Unwritten,
           NEW r, NEW q, \A s \in Request : req'[s] = req[s] \/ (s = r /\ req'[s] = q),
           \A i \in Intent : Holds(q, i) => Holds(req[r], i),
           \A call \in late' : call.kind = "save" => call \in late,
           \A i \in Intent : FreeRow(i)' => FreeRow(i)
    PROVE  FreeHasNone' /\ OnePen'
  <1>1. ASSUME NEW i \in Intent PROVE Quiet(i)
    <2>1. \A s \in Request : Holds(req'[s], i) => Holds(req[s], i)
      <3>. SUFFICES ASSUME NEW s \in Request, Holds(req'[s], i) PROVE Holds(req[s], i)  OBVIOUS
      <3>1. CASE req'[s] = req[s]  BY <3>1 DEF Holds
      <3>2. CASE s = r /\ req'[s] = q  BY <3>2 DEF Holds
      <3>. QED  BY <3>1, <3>2
    <2>2. \A call \in late' : LateSave(call, i) => call \in late  BY DEF LateSave
    <2>. QED  BY <2>1, <2>2 DEF Quiet, Unwritten
  <1>. QED  BY <1>1, Pens

\* A free row is claimed.
LEMMA PenTaken ==
    ASSUME FreeHasNone, OnePen, UNCHANGED <<messages, late>>,
           NEW i \in Intent, FreeRow(i), ~FreeRow(i)',
           NEW r, NEW q, \A s \in Request : req'[s] = req[s] \/ (s = r /\ req'[s] = q),
           \A j \in Intent : Holds(q, j) => j = i,
           \A j \in Intent : j # i => (FreeRow(j)' => FreeRow(j))
    PROVE  FreeHasNone' /\ OnePen'
  <1>1. ASSUME NEW j \in Intent, j # i PROVE Quiet(j)
    BY <1>1 DEF Quiet, Holds, Original
  <1>2. HeldByOne(i)
    <2>1. ~Pending(i)' /\ ~HasWritten(i)'
      BY DEF FreeHasNone, FreeRow, Pending, HasWritten, Original
    <2>2. \A s \in Request : Holds(req'[s], i) => s = r
      BY DEF FreeHasNone, FreeRow, Holds
    <2>. QED  BY <2>1, <2>2 DEF HeldByOne
  <1>. QED  BY <1>1, <1>2, Pens

\* Its holder gives the pen up: nobody has it, whether the row is free or not.
LEMMA PenDropped ==
    ASSUME FreeHasNone, OnePen, UNCHANGED <<messages, late>>,
           NEW i \in Intent, NEW r \in Request, Holds(req[r], i),
           NEW q, req' = [req EXCEPT ![r] = q], req \in [Request -> RequestRecord],
           \A j \in Intent : ~Holds(q, j),
           \A j \in Intent : j # i => (FreeRow(j)' => FreeRow(j))
    PROVE  FreeHasNone' /\ OnePen'
  <1>1. \A s \in Request : req'[s] = IF s = r THEN q ELSE req[s]  OBVIOUS
  <1>2. ASSUME NEW j \in Intent, j # i PROVE Quiet(j)
    BY <1>1, <1>2 DEF Quiet, Holds, Original
  <1>3. Dropped(i)
    <2>1. /\ ~Pending(i) /\ ~HasWritten(i)
          /\ \A s \in Request : Holds(req[s], i) => s = r
      BY HolderIsAlone
    <2>2. ~Pending(i)' /\ ~HasWritten(i)'
      BY <2>1 DEF Pending, HasWritten, Original
    <2>3. ~Held(i)'  BY <1>1, <2>1 DEF Held, Holds
    <2>. QED  BY <2>2, <2>3 DEF Dropped
  <1>. QED  BY <1>2, <1>3, Pens

\* Its holder dies and leaves the call it made.
LEMMA PenLeft ==
    ASSUME FreeHasNone, OnePen, UNCHANGED <<messages, rows>>,
           NEW i \in Intent, NEW r \in Request, Holds(req[r], i),
           NEW q, req' = [req EXCEPT ![r] = q], req \in [Request -> RequestRecord],
           \A j \in Intent : ~Holds(q, j),
           NEW c, late' = late \union {c}, \A j \in Intent : LateSave(c, j) => j = i
    PROVE  FreeHasNone' /\ OnePen'
  <1>1. \A s \in Request : req'[s] = IF s = r THEN q ELSE req[s]  OBVIOUS
  <1>2. ASSUME NEW j \in Intent, j # i PROVE Quiet(j)
    BY <1>1, <1>2 DEF Quiet, Holds, Original, FreeRow
  <1>3. PendingInOne(i)
    <2>1. /\ ~FreeRow(i) /\ ~Pending(i) /\ ~HasWritten(i)
          /\ \A s \in Request : Holds(req[s], i) => s = r
      BY HolderIsAlone
    <2>2. ~FreeRow(i)' /\ ~HasWritten(i)'
      BY <2>1 DEF FreeRow, HasWritten, Original
    <2>3. ~Held(i)'  BY <1>1, <2>1 DEF Held, Holds
    <2>4. \A d \in late' : LateSave(d, i) => d = c  BY <2>1 DEF Pending
    <2>. QED  BY <2>2, <2>3, <2>4 DEF PendingInOne
  <1>. QED  BY <1>2, <1>3, Pens

\* Its holder writes.
LEMMA PenUsed ==
    ASSUME FreeHasNone, OnePen, UNCHANGED <<rows, late>>,
           NEW i \in Intent, Wrote(i), NEW r \in Request, Holds(req[r], i),
           NEW q, req' = [req EXCEPT ![r] = q], req \in [Request -> RequestRecord],
           \A j \in Intent : ~Holds(q, j)
    PROVE  FreeHasNone' /\ OnePen'
  <1>1. \A s \in Request : req'[s] = IF s = r THEN q ELSE req[s]  OBVIOUS
  <1>2. ASSUME NEW j \in Intent, j # i PROVE Quiet(j)
    BY <1>1, <1>2 DEF Quiet, Holds, Wrote, FreeRow
  <1>3. WrittenInOne(i)
    <2>1. /\ ~FreeRow(i) /\ ~Pending(i) /\ ~HasWritten(i)
          /\ \A s \in Request : Holds(req[s], i) => s = r
      BY HolderIsAlone
    <2>2. ~FreeRow(i)' /\ ~Pending(i)'  BY <2>1 DEF FreeRow, Pending
    <2>3. ~Held(i)'  BY <1>1, <2>1 DEF Held, Holds
    <2>4. \A m \in 1 .. Len(messages') : Original(m, i)' => m = Len(messages')
      BY <2>1 DEF Wrote, HasWritten
    <2>. QED  BY <2>2, <2>3, <2>4 DEF WrittenInOne
  <1>. QED  BY <1>2, <1>3, Pens

\* The call that was left writes.
LEMMA PenArrives ==
    ASSUME FreeHasNone, OnePen, UNCHANGED <<rows, req>>,
           NEW i \in Intent, Wrote(i), NEW call \in late, LateSave(call, i),
           late' = late \ {call}
    PROVE  FreeHasNone' /\ OnePen'
  <1>1. ASSUME NEW j \in Intent, j # i PROVE Quiet(j)
    BY <1>1 DEF Quiet, Holds, Wrote, FreeRow
  <1>2. WrittenInOne(i)
    <2>1. /\ ~FreeRow(i) /\ ~Held(i) /\ ~HasWritten(i)
          /\ \A other \in late : LateSave(other, i) => other = call
      BY LateIsAlone
    <2>2. ~FreeRow(i)' /\ ~Held(i)' /\ ~Pending(i)'
      BY <2>1 DEF FreeRow, Held, Pending, Holds
    <2>3. \A m \in 1 .. Len(messages') : Original(m, i)' => m = Len(messages')
      BY <2>1 DEF Wrote, HasWritten
    <2>. QED  BY <2>2, <2>3 DEF WrittenInOne
  <1>. QED  BY <1>1, <1>2, Pens

-----------------------------------------------------------------------------
(* Every action keeps what is written and sent.                            *)

Fit(q) == SaveFits(q) /\ SendFits(q) /\ AimsApproved(q)
RowFit(k, row) ==
    \A i \in Intent :
        /\ k = <<"save", i>> => SaveRowFits(i, row)
        /\ k = <<"send", i>> => SendRowFits(i, row) /\ RowApproved(i, row)

\* What the invariant says, by request, intent and late call.
LEMMA Fitting ==
    ASSUME WritesInv
    PROVE  /\ TypeOK /\ IInv /\ MessagesFit /\ FreeHasNone /\ OnePen
           /\ \A r \in Request : Fit(req[r])
           /\ \A i \in Intent : ClientFits(i) /\ RowFit(<<"save", i>>, rows[<<"save", i>>])
                                              /\ RowFit(<<"send", i>>, rows[<<"send", i>>])
           /\ \A call \in late : LateFits(call) /\ LateApproved(call)
  <1>1. TypeOK /\ IInv /\ MessagesFit /\ FreeHasNone /\ OnePen  BY DEF WritesInv, IInv
  <1>2. \A r \in Request : Fit(req[r])  BY DEF WritesInv, Aimed, Approved, Fit
  <1>3. ASSUME NEW i \in Intent
        PROVE  ClientFits(i) /\ RowFit(<<"save", i>>, rows[<<"save", i>>])
                             /\ RowFit(<<"send", i>>, rows[<<"send", i>>])
    <2>1. /\ ClientFits(i) /\ SaveRowFits(i, rows[<<"save", i>>])
          /\ SendRowFits(i, rows[<<"send", i>>])
          /\ RowApproved(i, rows[<<"send", i>>])
      BY DEF WritesInv, Aimed, Approved
    <2>2. \A j \in Intent : /\ <<"save", i>> = <<"save", j>> => i = j
                            /\ <<"send", i>> = <<"send", j>> => i = j
                            /\ <<"save", i>> # <<"send", j>> /\ <<"send", i>> # <<"save", j>>
      OBVIOUS
    <2>. QED  BY <2>1, <2>2 DEF RowFit
  <1>4. \A call \in late : LateFits(call) /\ LateApproved(call)
    BY DEF WritesInv, Aimed, Approved
  <1>. QED  BY <1>1, <1>2, <1>3, <1>4

\* An idle request fits, and holds no pen.
LEMMA IdleFits == Fit(Idle) /\ Fit(Idle)' /\ \A i : ~Holds(Idle, i)
  BY DEF Fit, SaveFits, SendFits, AimsApproved, Idle, Holds

\* So does a free row.
LEMMA NoRowFits == NoRow \in Row /\ \A k : RowFit(k, NoRow) /\ RowFit(k, NoRow)'
  BY DEF NoRow, Row, RowFit, SaveRowFits, SendRowFits, RowApproved

\* A step that answers nobody leaves every intent its draft.
LEMMA SameClients ==
    ASSUME WritesInv, Grown, client' = client
    PROVE  ClientsStay /\ \A i \in Intent : ClientFits(i)'
  <1>1. ClientsStay  BY DEF ClientsStay
  <1>2. ASSUME NEW i \in Intent, client[i].draft # 0 PROVE ClientFits(i)'
    <2>1. ClientFits(i)  BY Fitting
    <2>2. PICK m \in 1 .. Len(messages) :
            m = client[i].expected /\ Original(m, i) /\ messages[m].draft = client[i].draft
      BY <1>2, <2>1 DEF ClientFits
    <2>3. Original(m, i)' /\ messages'[m].draft = messages[m].draft /\ m \in 1 .. Len(messages')
      <3>1. Len(messages) \in Nat /\ Len(messages') \in Nat  BY Fitting, Lengths DEF Grown
      <3>. QED  BY <2>2, <3>1, OriginalStays DEF Grown
    <2>. QED  BY <2>2, <2>3 DEF ClientFits, Original
  <1>3. \A i \in Intent : ClientFits(i)'  BY <1>2 DEF ClientFits
  <1>. QED  BY <1>1, <1>3

\* No row is written.
LEMMA PersistsUnrecorded ==
    ASSUME WritesInv, IInv', Grown, Steady, ClientsStay, \A i \in Intent : ClientFits(i)',
           NEW r, NEW q \in RequestRecord,
           \A s \in Request : req'[s] = req[s] \/ (s = r /\ req'[s] = q), Fit(q)',
           rows' = rows,
           \A call \in late' :
              call \in late \/ (LateFits(call)' /\ LateApproved(call)')
    PROVE  Aimed' /\ Approved'
  <1>1. PICK k : k = 0  OBVIOUS
  <1>2. \A j \in Intent :
             /\ k = <<"save", j>> => SaveRowFits(j, NoRow)'
             /\ k = <<"send", j>> =>
                   SendRowFits(j, NoRow)' /\ RowApproved(j, NoRow)'
    BY NoRowFits DEF RowFit
  <1>3. SaveFits(q)' /\ SendFits(q)' /\ AimsApproved(q)'
    BY DEF Fit
  <1>4. \A j \in Key : rows'[j] = rows[j]  OBVIOUS
  <1>. QED  BY <1>2, <1>3, <1>4, NoRowFits, Persists

\* A request moves and a row is written; messages, late calls and clients stay.
LEMMA Records ==
    ASSUME WritesInv, IInv', UNCHANGED <<messages, late, client>>,
           NEW r, NEW q \in RequestRecord,
           \A s \in Request : req'[s] = req[s] \/ (s = r /\ req'[s] = q), Fit(q),
           NEW k, NEW row \in Row,
           \A j \in Key : rows'[j] = rows[j] \/ (j = k /\ rows'[j] = row), RowFit(k, row),
           FreeHasNone' /\ OnePen'
    PROVE  WritesInv'
  <1>1. Grown /\ MessagesFit' /\ Unwritten /\ Steady  BY Fitting, NothingWritten
  <1>2. ClientsStay /\ \A i \in Intent : ClientFits(i)'  BY <1>1, SameClients
  <1>3. SaveFits(q)' /\ SendFits(q)' /\ AimsApproved(q)'
    BY DEF Fit, SaveFits, SendFits, AimsApproved, Checked, Alone, InDraft, Original
  <1>4. \A i \in Intent :
           /\ k = <<"save", i>> => SaveRowFits(i, row)'
           /\ k = <<"send", i>> => SendRowFits(i, row)' /\ RowApproved(i, row)'
    BY DEF RowFit, SaveRowFits, SendRowFits, RowApproved, Checked, Original
  <1>5. Aimed' /\ Approved'  BY <1>1, <1>2, <1>3, <1>4, Persists
  <1>. QED  BY <1>1, <1>5 DEF WritesInv

\* Only a request moves.
LEMMA Walks ==
    ASSUME WritesInv, IInv', UNCHANGED <<messages, rows, late, client>>,
           NEW r, NEW q \in RequestRecord,
           \A s \in Request : req'[s] = req[s] \/ (s = r /\ req'[s] = q), Fit(q),
           \A i \in Intent : Holds(q, i) => Holds(req[r], i)
    PROVE  WritesInv'
  <1>1. FreeHasNone /\ OnePen  BY Fitting
  <1>2. Unwritten  BY Fitting, NothingWritten
  <1>3. FreeHasNone' /\ OnePen'  BY <1>1, <1>2, PensStay DEF FreeRow
  <1>4. PICK k : k = 0  OBVIOUS
  <1>. QED  BY <1>3, NoRowFits, Records

\* A request ends.
LEMMA EndWalks ==
    ASSUME WritesInv, IInv', UNCHANGED <<messages, rows, late, client>>, NEW r \in Request, End(r)
    PROVE  WritesInv'
  <1>1. req' = [req EXCEPT ![r] = Idle] /\ req \in [Request -> RequestRecord]
    BY Fitting DEF End, TypeOK
  <1>2. \A s \in Request : req'[s] = req[s] \/ (s = r /\ req'[s] = Idle)  BY <1>1
  <1>. QED  BY <1>2, IdleFits, IdleIsIdle, Walks

\* A request goes on: its record afterwards.
LEMMA GoesTo ==
    ASSUME TypeOK, NEW r \in Request, req[r].step # "none", NEW step \in Step, NEW target \in Nat,
           GotoWith(r, step, target) \/ (Goto(r, step) /\ target = req[r].target)
    PROVE  \E p \in Working :
              /\ p.kind = req[r].kind /\ p.intent = req[r].intent /\ p.id = req[r].id
              /\ p.step = step /\ p.target = target
              /\ req' = [req EXCEPT ![r] = p]
              /\ p \in RequestRecord /\ p.intent \in Intent
              /\ \A s \in Request : req'[s] = req[s] \/ (s = r /\ req'[s] = p)
  <1>1. req[r] \in Working  BY WorkingRequest
  <1>2. req \in [Request -> RequestRecord]  BY DEF TypeOK
  <1>. DEFINE q == [req[r] EXCEPT !.step = step, !.target = target]
  <1>3. /\ q \in Working /\ q.kind = req[r].kind /\ q.intent = req[r].intent /\ q.id = req[r].id
        /\ q.step = step /\ q.target = target
    BY <1>1 DEF Working
  <1>4. req' = [req EXCEPT ![r] = q]  BY <1>1, <1>2 DEF Goto, GotoWith, Working
  <1>5. PICK p \in Working : p = q  BY <1>3
  <1>. HIDE DEF q
  <1>6. p \in RequestRecord /\ p.intent \in Intent  BY DEF Working, RequestRecord
  <1>7. req' = [req EXCEPT ![r] = p]  BY <1>4, <1>5
  <1>8. \A s \in Request : req'[s] = req[s] \/ (s = r /\ req'[s] = p)  BY <1>2, <1>7
  <1>. QED  BY <1>3, <1>5, <1>6, <1>7, <1>8

\* A save goes on to a step that needs nothing, or ends at its original.
LEMMA SaveGoes ==
    ASSUME WritesInv, IInv', UNCHANGED <<messages, rows, late, client>>,
           NEW r \in Request, req[r].step # "none", req[r].kind = "save",
           NEW step \in Step, NEW target \in Nat,
           GotoWith(r, step, target) \/ (Goto(r, step) /\ target = req[r].target),
           step \in {"current", "call", "await", "abandon"} =>
              req[r].step \in {"current", "call", "await", "abandon"},
           step \in {"complete", "respond"} => Original(target, req[r].intent)
    PROVE  WritesInv'
  <1>1. PICK p \in Working :
              /\ p.kind = req[r].kind /\ p.intent = req[r].intent
              /\ p.step = step /\ p.target = target /\ p \in RequestRecord
              /\ \A s \in Request : req'[s] = req[s] \/ (s = r /\ req'[s] = p)
    BY Fitting, GoesTo
  <1>2. Fit(p)  BY <1>1 DEF Fit, SaveFits, SendFits, AimsApproved, Original
  <1>3. \A i \in Intent : Holds(p, i) => Holds(req[r], i)  BY <1>1 DEF Holds
  <1>. QED  BY <1>1, <1>2, <1>3, Walks

\* A send goes on.
LEMMA SendGoes ==
    ASSUME WritesInv, IInv', UNCHANGED <<messages, rows, late, client>>,
           NEW r \in Request, req[r].step # "none", req[r].kind = "send",
           NEW step \in Step, NEW target \in Nat, NEW i \in Intent, i = req[r].intent,
           GotoWith(r, step, target) \/ (Goto(r, step) /\ target = req[r].target),
           step \in Aims => messages[target].draft = client[i].draft,
           step = "complete" => messages[target].state = "sent",
           client[i].approves =>
              /\ step \in Aims \ {"complete"} => target = client[i].expected
              /\ step \in {"prepare", "call", "await"} => Alone(i)
              /\ step = "complete" => Checked(messages[target].content, i)
    PROVE  WritesInv'
  <1>1. PICK p \in Working :
              /\ p.kind = req[r].kind /\ p.intent = req[r].intent
              /\ p.step = step /\ p.target = target /\ p \in RequestRecord
              /\ \A s \in Request : req'[s] = req[s] \/ (s = r /\ req'[s] = p)
    BY Fitting, GoesTo
  <1>2. client[i].draft # 0
    <2>1. Fit(req[r])  BY Fitting
    <2>. QED  BY <2>1 DEF Fit, SendFits
  <1>3. SaveFits(p)  BY <1>1 DEF SaveFits
  <1>4. SendFits(p)  BY <1>1, <1>2 DEF SendFits
  <1>5. AimsApproved(p)  BY <1>1 DEF AimsApproved
  <1>6. \A j \in Intent : ~Holds(p, j)  BY <1>1 DEF Holds
  <1>. QED  BY <1>1, <1>3, <1>4, <1>5, <1>6, Walks DEF Fit

\* beginGmailDraftWrite: the request's record afterwards, and the row's.
LEMMA BeginsTo ==
    ASSUME WritesInv, NEW r \in Request, req[r].step # "none", NEW step \in Step,
           IF rows[KeyOf(r)].status = "none" THEN Claim(KeyOf(r)) ELSE UNCHANGED <<rows, claims>>,
           IInv',
           req' = [req EXCEPT ![r].step = step, ![r].id = claims'[KeyOf(r)],
                              ![r].target = rows[KeyOf(r)].target]
    PROVE  \E p \in Working, row \in Row :
              /\ p.kind = req[r].kind /\ p.intent = req[r].intent
              /\ p.step = step /\ p.target = rows[KeyOf(r)].target
              /\ p \in RequestRecord /\ p.intent \in Intent
              /\ req' = [req EXCEPT ![r] = p]
              /\ \A s \in Request : req'[s] = req[s] \/ (s = r /\ req'[s] = p)
              /\ rows[KeyOf(r)].status = "none" =>
                    /\ row = [status |-> "pending", target |-> 0]
                    /\ rows' = [rows EXCEPT ![KeyOf(r)] = row]
              /\ rows[KeyOf(r)].status # "none" => rows' = rows
  <1>1. /\ req[r] \in Working /\ KeyOf(r) \in Key /\ rows[KeyOf(r)] \in Row
        /\ req \in [Request -> RequestRecord] /\ claims' \in [Key -> Nat]
    BY Fitting, KeyFacts DEF TypeOK, IInv
  <1>2. PICK id \in Nat, target \in Nat : id = claims'[KeyOf(r)] /\ target = rows[KeyOf(r)].target
    BY <1>1 DEF Row
  <1>. DEFINE q == [req[r] EXCEPT !.step = step, !.id = id, !.target = target]
  <1>3. /\ q \in Working /\ q.kind = req[r].kind /\ q.intent = req[r].intent
        /\ q.step = step /\ q.target = target
    BY <1>1, <1>2 DEF Working
  <1>4. req' = [req EXCEPT ![r] = q]  BY <1>1, <1>2
  <1>5. PICK p \in Working : p = q  BY <1>3
  <1>. HIDE DEF q
  <1>6. p \in RequestRecord /\ p.intent \in Intent  BY DEF Working, RequestRecord
  <1>7. req' = [req EXCEPT ![r] = p]  BY <1>4, <1>5
  <1>8. \A s \in Request : req'[s] = req[s] \/ (s = r /\ req'[s] = p)  BY <1>1, <1>7
  <1>9. PICK row \in Row : row = [status |-> "pending", target |-> 0]  BY DEF Row
  <1>10. /\ rows[KeyOf(r)].status = "none" => rows' = [rows EXCEPT ![KeyOf(r)] = row]
         /\ rows[KeyOf(r)].status # "none" => rows' = rows
    BY <1>9 DEF Claim
  <1>. QED  BY <1>2, <1>3, <1>5, <1>6, <1>7, <1>8, <1>9, <1>10

\* sendGmailComposeAttempt, and the capabilities of the agent.
LEMMA AskWrites ==
    ASSUME WritesInv, IInv', NEW r \in Request, NEW i \in Intent, Ask(r, i)
    PROVE  WritesInv'
  <1>1. UNCHANGED <<messages, rows, late, client>>  BY DEF Ask, AskSave, AskSend
  <1>. DEFINE asked(kind, step) ==
                [kind |-> kind, intent |-> i, step |-> step, id |-> 0, target |-> 0]
  <1>2. /\ asked("save", "begin") \in RequestRecord /\ asked("send", "connect") \in RequestRecord
        /\ Fit(asked("save", "begin"))
        /\ client[i].draft # 0 => Fit(asked("send", "connect"))
        /\ \A j : ~Holds(asked("save", "begin"), j) /\ ~Holds(asked("send", "connect"), j)
    BY DEF RequestRecord, Step, Fit, SaveFits, SendFits, AimsApproved, Aims, Holds
  <1>3. PICK q \in RequestRecord :
          Fit(q) /\ (\A j : ~Holds(q, j)) /\ req' = [req EXCEPT ![r] = q]
    <2>1. CASE AskSave(r, i)
      <3>1. req' = [req EXCEPT ![r] = asked("save", "begin")]  BY <2>1 DEF AskSave
      <3>. QED  BY <1>2, <3>1
    <2>2. CASE AskSend(r, i)
      <3>1. req' = [req EXCEPT ![r] = asked("send", "connect")] /\ client[i].draft # 0
        BY <2>2 DEF AskSend
      <3>. QED  BY <1>2, <3>1
    <2>. QED  BY <2>1, <2>2 DEF Ask
  <1>4. \A s \in Request : req'[s] = req[s] \/ (s = r /\ req'[s] = q)
    <2>1. req \in [Request -> RequestRecord]  BY Fitting DEF TypeOK
    <2>. QED  BY <1>3, <2>1
  <1>. QED  BY <1>1, <1>3, <1>4, Walks

\* A save claims its row, or finds what has it.
LEMMA BeginSaveWrites ==
    ASSUME WritesInv, IInv', NEW r \in Request, BeginSave(r)
    PROVE  WritesInv'
  <1>0. /\ req[r].step = "begin" /\ req[r].kind = "save"
        /\ UNCHANGED <<messages, late, client>>
    BY DEF BeginSave, QueriesAt, At
  <1>. DEFINE k == KeyOf(r)
              i == req[r].intent
  <1>1. /\ k \in Key /\ k = <<"save", i>> /\ i \in Intent /\ rows[k] \in Row
        /\ rows \in [Key -> Row]
    BY <1>0, Fitting, KeyFacts DEF TypeOK
  <1>2. PICK step \in {"call", "current", "list", "respond"} :
          /\ step = "respond" => rows[k].status = "complete"
          /\ step \in {"call", "current"} => rows[k].status = "none"
          /\ req' = [req EXCEPT ![r].step = step, ![r].id = claims'[k],
                                ![r].target = rows[k].target]
    BY <1>1 DEF BeginSave, Row
  <1>3. /\ step \in Step
        /\ IF rows[k].status = "none" THEN Claim(k) ELSE UNCHANGED <<rows, claims>>
    BY DEF Step, BeginSave
  <1>4. PICK p \in Working, row \in Row :
              /\ p.kind = req[r].kind /\ p.intent = i
              /\ p.step = step /\ p.target = rows[k].target
              /\ p \in RequestRecord /\ p.intent \in Intent
              /\ req' = [req EXCEPT ![r] = p]
              /\ \A s \in Request : req'[s] = req[s] \/ (s = r /\ req'[s] = p)
              /\ rows[k].status = "none" =>
                    /\ row = [status |-> "pending", target |-> 0]
                    /\ rows' = [rows EXCEPT ![k] = row]
              /\ rows[k].status # "none" => rows' = rows
    BY <1>0, <1>2, <1>3, BeginsTo
  <1>5. Fit(p)
    <2>1. RowFit(k, rows[k])  BY <1>1, Fitting
    <2>2. step = "respond" => Original(rows[k].target, i)
      BY <1>1, <1>2, <2>1 DEF RowFit, SaveRowFits
    <2>. QED  BY <1>0, <1>4, <2>2 DEF Fit, SaveFits, SendFits, AimsApproved, Original
  <1>. HIDE DEF k
  <1>6. CASE rows[k].status # "none"
    <2>1. \A j \in Intent : ~Holds(p, j)  BY <1>2, <1>4, <1>6 DEF Holds
    <2>. QED  BY <1>0, <1>4, <1>5, <1>6, <2>1, Walks
  <1>7. CASE rows[k].status = "none"
    <2>1. PICK j \in Intent : j = i  BY <1>1
    <2>2. FreeRow(j) /\ ~FreeRow(j)' /\ \A l \in Intent : l # j => (FreeRow(l)' => FreeRow(l))
      <3>1. \A l \in Intent : <<"save", l>> \in Key /\ (l # j => <<"save", l>> # k)
        BY <1>1, <2>1 DEF Key
      <3>. QED  BY <1>1, <1>4, <1>7, <2>1, <3>1 DEF FreeRow
    <2>3. \A l \in Intent : Holds(p, l) => l = j  BY <1>4, <2>1 DEF Holds
    <2>4. FreeHasNone' /\ OnePen'  BY <1>0, <1>4, <2>2, <2>3, Fitting, PenTaken
    <2>5. RowFit(k, row)
      BY <1>4, <1>7 DEF RowFit, SaveRowFits, SendRowFits, RowApproved
    <2>6. PICK key : key = k  OBVIOUS
    <2>7. \A l \in Key : rows'[l] = rows[l] \/ (l = key /\ rows'[l] = row)
      BY <1>1, <1>4, <1>7, <2>6
    <2>8. RowFit(key, row)  BY <2>5, <2>6 DEF RowFit
    <2>. QED  BY <1>0, <1>4, <1>5, <2>4, <2>7, <2>8, Records
  <1>. QED  BY <1>6, <1>7

\* drafts.create and drafts.update by the request that has the pen.
LEMMA SaveAnsweredWrites ==
    ASSUME WritesInv, IInv', NEW r \in Request, SaveAnswered(r)
    PROVE  WritesInv'
  <1>0. /\ req[r].step = "await" /\ req[r].kind = "save"
        /\ UNCHANGED <<rows, late, client>>
    BY DEF SaveAnswered, At
  <1>1. /\ req[r].intent \in Intent /\ req[r].id \in Nat /\ req[r].target \in Nat
        /\ Len(messages) \in Nat /\ req \in [Request -> RequestRecord]
    BY <1>0, Fitting, KeyFacts DEF TypeOK
  <1>2. CASE ~SaveAccepted(req[r].intent)
    <2>1. messages' = messages /\ Goto(r, "abandon")  BY <1>2 DEF SaveAnswered
    <2>2. "abandon" \in Step  BY DEF Step
    <2>. QED  BY <1>0, <1>1, <2>1, <2>2, SaveGoes
  <1>3. CASE SaveAccepted(req[r].intent)
    <2>1. /\ messages' = Saved(req[r].intent, req[r].id) /\ GotoWith(r, "complete", NextMessage)
      BY <1>3 DEF SaveAnswered
    <2>2. PICK i \in Intent, id \in Nat, new \in Nat :
            i = req[r].intent /\ id = req[r].id /\ new = NextMessage
      BY <1>1 DEF NextMessage
    <2>3. /\ Grown /\ MessagesFit' /\ Wrote(i) /\ Steady
          /\ Original(new, i)'
      BY <2>1, <2>2, Fitting, IsSaved
    <2>4. "complete" \in Step  BY DEF Step
    <2>5. PICK p \in Working :
              /\ p.kind = "save" /\ p.intent = i
              /\ p.step = "complete" /\ p.target = new
              /\ req' = [req EXCEPT ![r] = p]
              /\ p \in RequestRecord
              /\ \A s \in Request : req'[s] = req[s] \/ (s = r /\ req'[s] = p)
      BY <1>0, <2>1, <2>2, <2>4, Fitting, GoesTo
    <2>6. Fit(p)'
      BY <2>3, <2>5 DEF Fit, SaveFits, SendFits, AimsApproved, Original
    <2>7. Holds(req[r], i) /\ \A j \in Intent : ~Holds(p, j)
      BY <1>0, <2>2, <2>5 DEF Holds
    <2>8. FreeHasNone' /\ OnePen'
      BY <1>0, <1>1, <2>3, <2>5, <2>7, Fitting, PenUsed
    <2>9. ClientsStay /\ \A j \in Intent : ClientFits(j)'  BY <1>0, <2>3, SameClients
    <2>10. rows' = rows /\ \A call \in late' : call \in late  BY <1>0
    <2>11. Aimed' /\ Approved'
      BY <2>3, <2>5, <2>6, <2>9, <2>10, PersistsUnrecorded
    <2>. QED  BY <2>3, <2>8, <2>11 DEF WritesInv
  <1>. QED  BY <1>2, <1>3

\* A save that failed before it wrote forgets its row.
LEMMA AbandonSaveWrites ==
    ASSUME WritesInv, IInv', NEW r \in Request, AbandonSave(r)
    PROVE  WritesInv'
  <1>0. /\ req[r].step = "abandon" /\ req[r].kind = "save" /\ End(r)
        /\ UNCHANGED <<messages, late, client>>
        /\ rows' = rows \/ rows' = [rows EXCEPT ![KeyOf(r)] = NoRow]
    BY DEF AbandonSave, QueriesAt, At
  <1>1. /\ req[r].intent \in Intent /\ KeyOf(r) = <<"save", req[r].intent>>
        /\ KeyOf(r) \in Key
        /\ rows \in [Key -> Row] /\ req \in [Request -> RequestRecord]
    BY <1>0, Fitting, KeyFacts DEF TypeOK
  <1>2. CASE rows' = rows  BY <1>0, <1>2, EndWalks
  <1>3. CASE rows' = [rows EXCEPT ![KeyOf(r)] = NoRow]
    <2>1. PICK i \in Intent : i = req[r].intent  BY <1>1
    <2>2. Holds(req[r], i)  BY <1>0, <2>1 DEF Holds
    <2>3. req' = [req EXCEPT ![r] = Idle]  BY <1>0 DEF End
    <2>4. \A j \in Intent : j # i => (FreeRow(j)' => FreeRow(j))
      <3>1. \A j \in Intent : <<"save", j>> \in Key /\ (j # i => <<"save", j>> # KeyOf(r))
        BY <1>1, <2>1 DEF Key
      <3>. QED  BY <1>1, <1>3, <3>1 DEF FreeRow
    <2>5. FreeHasNone' /\ OnePen'
      BY <1>0, <1>1, <2>2, <2>3, <2>4, IdleFits, Fitting, PenDropped
    <2>6. PICK k : k = KeyOf(r)  OBVIOUS
    <2>7. /\ \A l \in Key : rows'[l] = rows[l] \/ (l = k /\ rows'[l] = NoRow)
          /\ \A s \in Request : req'[s] = req[s] \/ (s = r /\ req'[s] = Idle)
      BY <1>1, <1>3, <2>3, <2>6
    <2>. QED  BY <1>0, <2>5, <2>7, NoRowFits, IdleFits, IdleIsIdle, Records
  <1>. QED  BY <1>0, <1>2, <1>3

\* recoverPendingWrite.
LEMMA ListDraftsWrites ==
    ASSUME WritesInv, IInv', NEW r \in Request, ListDrafts(r)
    PROVE  WritesInv'
  <1>. DEFINE found == WrittenBy(req[r].intent, req[r].id)
  <1>1. /\ req[r].step = "list" /\ req[r].kind = "save"
        /\ UNCHANGED <<messages, rows, late, client>>
    BY DEF ListDrafts, At
  <1>2. CASE Resolves(found)
    <2>1. GotoWith(r, "complete", OnlyOne(found))  BY <1>2 DEF ListDrafts
    <2>2. found # {}  BY <1>2, FS_EmptySet DEF Resolves
    <2>3. found \subseteq 1 .. Len(messages)  BY Fitting, Lengths DEF WrittenBy
    <2>4. OnlyOne(found) \in found
      <3>1. Len(messages) \in Nat  BY Fitting, Lengths
      <3>. QED  BY <2>2, <2>3, <3>1 DEF OnlyOne
    <2>5. PICK m \in 1 .. Len(messages) : m = OnlyOne(found) /\ m \in found  BY <2>3, <2>4
    <2>6. messages[m].state = "draft" /\ messages[m].op = <<req[r].intent, req[r].id>>
      BY <2>5 DEF WrittenBy
    <2>7. Original(m, req[r].intent)
      BY <2>6, MarksDiffer, Fitting DEF Original, MessagesFit
    <2>8. m \in Nat /\ "complete" \in Step  BY Fitting, Lengths DEF Step
    <2>. HIDE DEF found
    <2>. QED  BY <1>1, <2>1, <2>5, <2>7, <2>8, SaveGoes
  <1>3. CASE ~Resolves(found)
    <2>1. End(r)  BY <1>3 DEF ListDrafts
    <2>. QED  BY <1>1, <2>1, EndWalks
  <1>. QED  BY <1>2, <1>3

\* What a send at work has: its intent, its target and its key.
LEMMA SendFacts ==
    ASSUME WritesInv, NEW r \in Request, req[r].kind = "send", req[r].step # "none"
    PROVE  \E i \in Intent, target \in Nat :
              /\ i = req[r].intent /\ target = req[r].target
              /\ KeyOf(r) = <<"send", i>> /\ KeyOf(r) \in Key /\ rows[KeyOf(r)] \in Row
              /\ client[i].draft # 0
              /\ req[r].step \in Aims => /\ messages[target].draft = client[i].draft
                                         /\ target \in 1 .. Len(messages)
              /\ req[r].step = "complete" => messages[target].state = "sent"
              /\ client[i].approves =>
                    /\ req[r].step \in Aims \ {"complete"} => target = client[i].expected
                    /\ req[r].step \in {"prepare", "call", "await"} => Alone(i)
                    /\ req[r].step = "complete" => Checked(messages[target].content, i)
              /\ SendRowFits(i, rows[KeyOf(r)])
              /\ RowApproved(i, rows[KeyOf(r)])
  <1>1. /\ req[r].intent \in Intent /\ req[r].target \in Nat
        /\ KeyOf(r) = <<"send", req[r].intent>> /\ KeyOf(r) \in Key /\ rows[KeyOf(r)] \in Row
        /\ Points(req[r]) => req[r].target \in 1 .. Len(messages)
    BY Fitting, KeyFacts
  <1>2. PICK i \in Intent, target \in Nat : i = req[r].intent /\ target = req[r].target
    BY <1>1
  <1>3. Fit(req[r]) /\ RowFit(KeyOf(r), rows[KeyOf(r)])  BY <1>1, Fitting
  <1>4. SendRowFits(i, rows[KeyOf(r)]) /\ RowApproved(i, rows[KeyOf(r)])
    BY <1>1, <1>2, <1>3 DEF RowFit
  <1>5. /\ client[i].draft # 0
        /\ req[r].step \in Aims => messages[target].draft = client[i].draft
        /\ req[r].step = "complete" => messages[target].state = "sent"
    BY <1>2, <1>3 DEF Fit, SendFits
  <1>6. client[i].approves =>
           /\ req[r].step \in Aims \ {"complete"} => target = client[i].expected
           /\ req[r].step \in {"prepare", "call", "await"} => Alone(i)
           /\ req[r].step = "complete" => Checked(messages[target].content, i)
    BY <1>2, <1>3 DEF Fit, AimsApproved
  <1>7. req[r].step \in Aims => target \in 1 .. Len(messages)
    BY <1>1, <1>2 DEF Aims, Points
  <1>. QED  BY <1>1, <1>2, <1>4, <1>5, <1>6, <1>7

\* A row of a send is written while a request moves.
LEMMA SendRecords ==
    ASSUME WritesInv, IInv', UNCHANGED <<messages, late, client>>,
           NEW r \in Request, NEW q \in RequestRecord, req' = [req EXCEPT ![r] = q], Fit(q),
           \A i \in Intent : ~Holds(q, i),
           NEW i \in Intent, NEW row \in Row, rows' = [rows EXCEPT ![<<"send", i>>] = row],
           SendRowFits(i, row), RowApproved(i, row)
    PROVE  WritesInv'
  <1>1. rows \in [Key -> Row] /\ req \in [Request -> RequestRecord]  BY Fitting DEF TypeOK
  <1>2. \A s \in Request : req'[s] = req[s] \/ (s = r /\ req'[s] = q)  BY <1>1
  <1>3. \A j \in Intent : FreeRow(j)' => FreeRow(j)
    <2>1. \A j \in Intent : <<"save", j>> \in Key /\ <<"save", j>> # <<"send", i>>  BY DEF Key
    <2>. QED  BY <1>1, <2>1 DEF FreeRow
  <1>4. FreeHasNone' /\ OnePen'
    BY <1>2, <1>3, Fitting, NothingWritten, PensStay
  <1>5. RowFit(<<"send", i>>, row)  BY DEF RowFit
  <1>6. \A j \in Key : rows'[j] = rows[j] \/ (j = <<"send", i>> /\ rows'[j] = row)
    BY <1>1
  <1>. QED  BY <1>2, <1>4, <1>5, <1>6, Records

\* A send claims its row, or resumes what it recorded.
LEMMA BeginSendWrites ==
    ASSUME WritesInv, IInv', NEW r \in Request, BeginSend(r)
    PROVE  WritesInv'
  <1>0. /\ req[r].step = "begin" /\ req[r].kind = "send"
        /\ UNCHANGED <<messages, late, client>>
    BY DEF BeginSend, QueriesAt, At
  <1>1. PICK i \in Intent, target \in Nat :
              /\ i = req[r].intent
              /\ KeyOf(r) = <<"send", i>> /\ KeyOf(r) \in Key /\ rows[KeyOf(r)] \in Row
              /\ client[i].draft # 0
              /\ SendRowFits(i, rows[KeyOf(r)])
              /\ RowApproved(i, rows[KeyOf(r)])
    BY <1>0, SendFacts
  <1>2. PICK step \in {"respond", "reread", "read"} :
          /\ step = "respond" => rows[KeyOf(r)].status = "complete"
          /\ step = "reread" => rows[KeyOf(r)].status = "pending" /\ rows[KeyOf(r)].target # 0
          /\ req' = [req EXCEPT ![r].step = step, ![r].id = claims'[KeyOf(r)],
                                ![r].target = rows[KeyOf(r)].target]
    BY <1>1 DEF BeginSend, Row
  <1>3. /\ step \in Step
        /\ IF rows[KeyOf(r)].status = "none" THEN Claim(KeyOf(r)) ELSE UNCHANGED <<rows, claims>>
    BY DEF Step, BeginSend
  <1>4. PICK p \in Working, row \in Row :
              /\ p.kind = req[r].kind /\ p.intent = req[r].intent
              /\ p.step = step /\ p.target = rows[KeyOf(r)].target
              /\ p \in RequestRecord /\ p.intent \in Intent
              /\ req' = [req EXCEPT ![r] = p]
              /\ \A s \in Request : req'[s] = req[s] \/ (s = r /\ req'[s] = p)
              /\ rows[KeyOf(r)].status = "none" =>
                    /\ row = [status |-> "pending", target |-> 0]
                    /\ rows' = [rows EXCEPT ![KeyOf(r)] = row]
              /\ rows[KeyOf(r)].status # "none" => rows' = rows
    BY <1>0, <1>2, <1>3, BeginsTo
  <1>5. Fit(p)
    <2>1. SaveFits(p)  BY <1>0, <1>4 DEF SaveFits
    <2>2. SendFits(p)  BY <1>0, <1>1, <1>2, <1>4 DEF SendFits, Aims, SendRowFits
    <2>3. AimsApproved(p)
      BY <1>0, <1>1, <1>2, <1>4 DEF AimsApproved, Aims, RowApproved
    <2>. QED  BY <2>1, <2>2, <2>3 DEF Fit
  <1>6. \A j \in Intent : ~Holds(p, j)  BY <1>0, <1>4 DEF Holds
  <1>7. CASE rows[KeyOf(r)].status # "none"
    BY <1>0, <1>4, <1>5, <1>6, <1>7, Walks
  <1>8. CASE rows[KeyOf(r)].status = "none"
    <2>1. SendRowFits(i, row) /\ RowApproved(i, row)
      BY <1>4, <1>8 DEF SendRowFits, RowApproved
    <2>2. rows' = [rows EXCEPT ![<<"send", i>>] = row]  BY <1>1, <1>4, <1>8
    <2>. QED  BY <1>0, <1>4, <1>5, <1>6, <2>1, <2>2, SendRecords
  <1>. QED  BY <1>7, <1>8

\* The steps of a send that only look.
LEMMA LooksWrites ==
    ASSUME WritesInv, IInv', NEW r \in Request,
           Connect(r) \/ Lock(r) \/ ReadDraft(r) \/ RereadDraft(r) \/ ConfirmSent(r)
    PROVE  WritesInv'
  <1>0. /\ req[r].kind = "send"
        /\ req[r].step \in {"connect", "lock", "read", "reread", "confirm"}
        /\ UNCHANGED <<messages, rows, late, client>>
    BY DEF Connect, Lock, ReadDraft, RereadDraft, ConfirmSent, QueriesAt, At
  <1>1. PICK i \in Intent, target \in Nat :
              /\ i = req[r].intent /\ target = req[r].target
              /\ req[r].step \in Aims => /\ messages[target].draft = client[i].draft
                                         /\ target \in 1 .. Len(messages)
              /\ client[i].approves =>
                    (req[r].step \in Aims \ {"complete"} => target = client[i].expected)
              /\ client[i].draft # 0
    BY <1>0, SendFacts
  <1>2. CASE Connect(r)
    <2>1. Goto(r, "lock") /\ "lock" \in Step /\ "lock" \notin Aims
      BY <1>2 DEF Connect, Step, Aims
    <2>. QED  BY <1>0, <1>1, <2>1, SendGoes
  <1>3. CASE Lock(r)
    <2>1. Goto(r, "begin") /\ "begin" \in Step /\ "begin" \notin Aims
      BY <1>3 DEF Lock, Step, Aims
    <2>. QED  BY <1>0, <1>1, <2>1, SendGoes
  <1>4. CASE ReadDraft(r)
    <2>. DEFINE found == InDraft(client[i].draft)
    <2>1. CASE \E m \in found : AsApproved(i, m)
      <3>1. PICK m \in found : AsApproved(i, m) /\ GotoWith(r, "prepare", m)
        BY <1>1, <1>4, <2>1 DEF ReadDraft
      <3>2. /\ m \in 1 .. Len(messages) /\ m \in Nat
            /\ messages[m].draft = client[i].draft /\ messages[m].state = "draft"
        BY Fitting, Lengths DEF InDraft
      <3>3. \A n \in found : n = m
        BY <3>2, Fitting, Lengths DEF InDraft, MessagesFit
      <3>4. client[i].approves => m = client[i].expected /\ Alone(i)
        BY <3>1, <3>3 DEF AsApproved, Alone, Checked
      <3>5. "prepare" \in Step  BY DEF Step
      <3>. HIDE DEF found
      <3>. QED  BY <1>0, <1>1, <3>1, <3>2, <3>4, <3>5, SendGoes
    <2>2. CASE ~\E m \in found : AsApproved(i, m)
      <3>1. Goto(r, "unprepare") /\ "unprepare" \in Step /\ "unprepare" \notin Aims
        BY <1>1, <1>4, <2>2 DEF ReadDraft, Step, Aims
      <3>. QED  BY <1>0, <1>1, <3>1, SendGoes
    <2>. QED  BY <2>1, <2>2
  <1>5. CASE RereadDraft(r)
    <2>1. req[r].step = "reread"  BY <1>5 DEF RereadDraft, At
    <2>2. messages[target].draft = client[i].draft  BY <1>1, <2>1 DEF Aims
    <2>3. CASE End(r)  BY <1>0, <2>3, EndWalks
    <2>4. CASE Goto(r, "confirm")
      <3>1. "confirm" \in Step  BY DEF Step
      <3>. QED  BY <1>0, <1>1, <2>1, <2>2, <2>4, <3>1, SendGoes DEF Aims
    <2>5. CASE InDraft(messages[req[r].target].draft) = {req[r].target} /\ Goto(r, "call")
      <3>1. "call" \in Step  BY DEF Step
      <3>2. client[i].approves => target = client[i].expected /\ Alone(i)
        BY <1>1, <2>1, <2>2, <2>5 DEF Aims, Alone, Checked
      <3>. QED  BY <1>0, <1>1, <2>1, <2>2, <2>5, <3>1, <3>2, SendGoes
    <2>. QED  BY <1>5, <2>3, <2>4, <2>5 DEF RereadDraft
  <1>6. CASE ConfirmSent(r)
    <2>1. req[r].step = "confirm"  BY <1>6 DEF ConfirmSent, At
    <2>2. messages[target].draft = client[i].draft  BY <1>1, <2>1 DEF Aims
    <2>3. CASE Confirms(req[r].target)
      <3>1. Goto(r, "complete") /\ messages[target].state = "sent" /\ "complete" \in Step
        BY <1>1, <1>6, <2>3 DEF ConfirmSent, Confirms, Step
      <3>2. client[i].approves => Checked(messages[target].content, i)
        <4>1. Original(client[i].expected, i)  BY <1>1, Fitting DEF ClientFits
        <4>. QED  BY <1>1, <2>1, <4>1 DEF Aims, Original, Checked
      <3>. QED  BY <1>0, <1>1, <2>2, <3>1, <3>2, SendGoes
    <2>4. CASE ~Confirms(req[r].target)
      <3>1. End(r)  BY <1>6, <2>4 DEF ConfirmSent
      <3>. QED  BY <1>0, <3>1, EndWalks
    <2>. QED  BY <2>3, <2>4
  <1>. QED  BY <1>2, <1>3, <1>4, <1>5, <1>6

\* abandonUnpreparedGmailDraftSend.
LEMMA UnprepareWrites ==
    ASSUME WritesInv, IInv', NEW r \in Request, Unprepare(r)
    PROVE  WritesInv'
  <1>0. /\ req[r].step = "unprepare" /\ req[r].kind = "send" /\ End(r)
        /\ UNCHANGED <<messages, late, client>>
        /\ rows' = rows \/ rows' = [rows EXCEPT ![KeyOf(r)] = NoRow]
    BY DEF Unprepare, QueriesAt, At
  <1>1. CASE rows' = rows  BY <1>0, <1>1, EndWalks
  <1>2. CASE rows' = [rows EXCEPT ![KeyOf(r)] = NoRow]
    <2>1. PICK i \in Intent : KeyOf(r) = <<"send", i>>  BY <1>0, SendFacts
    <2>2. rows' = [rows EXCEPT ![<<"send", i>>] = NoRow] /\ req' = [req EXCEPT ![r] = Idle]
      BY <1>0, <1>2, <2>1 DEF End
    <2>3. NoRow \in Row /\ SendRowFits(i, NoRow) /\ RowApproved(i, NoRow)
      BY DEF NoRow, Row, SendRowFits, RowApproved
    <2>. QED  BY <1>0, <2>2, <2>3, IdleFits, IdleIsIdle, SendRecords
  <1>. QED  BY <1>0, <1>1, <1>2

\* prepareGmailDraftSend.
LEMMA PrepareWrites ==
    ASSUME WritesInv, IInv', NEW r \in Request, Prepare(r)
    PROVE  WritesInv'
  <1>0. /\ req[r].step = "prepare" /\ req[r].kind = "send"
        /\ UNCHANGED <<messages, late, client>>
    BY DEF Prepare, QueriesAt, At
  <1>1. PICK i \in Intent, target \in Nat :
              /\ i = req[r].intent /\ target = req[r].target
              /\ KeyOf(r) = <<"send", i>> /\ KeyOf(r) \in Key /\ rows[KeyOf(r)] \in Row
              /\ client[i].draft # 0
              /\ req[r].step \in Aims => messages[target].draft = client[i].draft
              /\ client[i].approves =>
                    /\ req[r].step \in Aims \ {"complete"} => target = client[i].expected
                    /\ req[r].step \in {"prepare", "call", "await"} => Alone(i)
    BY <1>0, SendFacts
  <1>2. CASE End(r) /\ rows' = rows  BY <1>0, <1>2, EndWalks
  <1>3. CASE /\ IsPendingAs(KeyOf(r), req[r].id)
             /\ rows' = [rows EXCEPT ![KeyOf(r)].target = req[r].target] /\ Goto(r, "call")
    <2>1. rows[KeyOf(r)].status = "pending" /\ rows \in [Key -> Row]
      BY <1>3, Fitting DEF IsPendingAs, TypeOK
    <2>. DEFINE new == [rows[KeyOf(r)] EXCEPT !.target = target]
    <2>2. new \in Row /\ new.status = "pending" /\ new.target = target
      BY <1>1, <2>1 DEF Row
    <2>3. rows' = [rows EXCEPT ![KeyOf(r)] = new]  BY <1>1, <1>3, <2>1
    <2>4. PICK row \in Row : row = new  BY <2>2
    <2>. HIDE DEF new
    <2>5. rows' = [rows EXCEPT ![<<"send", i>>] = row]  BY <1>1, <2>3, <2>4
    <2>6. SendRowFits(i, row) /\ RowApproved(i, row)
      BY <1>0, <1>1, <2>2, <2>4 DEF SendRowFits, RowApproved, Aims
    <2>7. "call" \in Step  BY DEF Step
    <2>8. PICK p \in Working :
              /\ p.kind = req[r].kind /\ p.intent = req[r].intent
              /\ p.step = "call" /\ p.target = target
              /\ req' = [req EXCEPT ![r] = p] /\ p \in RequestRecord
      BY <1>0, <1>1, <1>3, <2>7, Fitting, GoesTo
    <2>9. Fit(p)
      <3>1. SaveFits(p)  BY <1>0, <2>8 DEF SaveFits
      <3>2. SendFits(p)  BY <1>0, <1>1, <2>8 DEF SendFits, Aims
      <3>3. AimsApproved(p)  BY <1>0, <1>1, <2>8 DEF AimsApproved, Aims
      <3>. QED  BY <3>1, <3>2, <3>3 DEF Fit
    <2>10. \A j \in Intent : ~Holds(p, j)  BY <1>0, <2>8 DEF Holds
    <2>. QED  BY <1>0, <2>5, <2>6, <2>8, <2>9, <2>10, SendRecords
  <1>. QED  BY <1>2, <1>3 DEF Prepare

\* drafts.send by a request.
LEMMA SendAnsweredWrites ==
    ASSUME WritesInv, IInv', NEW r \in Request, SendAnswered(r)
    PROVE  WritesInv'
  <1>0. /\ req[r].step = "await" /\ req[r].kind = "send"
        /\ UNCHANGED <<rows, late, client>>
    BY DEF SendAnswered, At
  <1>1. PICK i \in Intent, target \in Nat :
              /\ i = req[r].intent /\ target = req[r].target
              /\ client[i].draft # 0
              /\ req[r].step \in Aims => messages[target].draft = client[i].draft
              /\ client[i].approves =>
                    /\ req[r].step \in Aims \ {"complete"} => target = client[i].expected
                    /\ req[r].step \in {"prepare", "call", "await"} => Alone(i)
    BY <1>0, SendFacts
  <1>2. /\ messages[target].draft = client[i].draft
        /\ client[i].approves => target = client[i].expected /\ Alone(i)
    BY <1>0, <1>1 DEF Aims
  <1>3. CASE messages' = messages /\ Goto(r, "confirm")
    <2>1. "confirm" \in Step  BY DEF Step
    <2>. QED  BY <1>0, <1>1, <1>2, <1>3, <2>1, SendGoes
  <1>4. CASE \E m \in SendTargets(target) : \E id \in SentIds(m) :
                messages' = SentAs(m, id) /\ GotoWith(r, "complete", id)
    <2>1. PICK m \in SendTargets(target) : \E id \in SentIds(m) :
                messages' = SentAs(m, id) /\ GotoWith(r, "complete", id)
      BY <1>4
    <2>2. PICK id \in SentIds(m) : messages' = SentAs(m, id) /\ GotoWith(r, "complete", id)
      BY <2>1
    <2>3. /\ m \in 1 .. Len(messages) /\ messages[m].state = "draft"
          /\ messages[m].draft = client[i].draft
      BY <1>2, Fitting, Lengths DEF SendTargets, InDraft
    <2>4. /\ Grown /\ MessagesFit' /\ Unwritten /\ Steady
          /\ id \in 1 .. Len(messages')
          /\ messages'[id].state = "sent" /\ messages'[id].draft = messages[m].draft
          /\ messages'[id].content = m
      BY <2>2, <2>3, Fitting, IsSent
    <2>5. id \in Nat /\ "complete" \in Step  BY <2>4 DEF Grown, Step
    <2>6. PICK p \in Working :
              /\ p.kind = req[r].kind /\ p.intent = req[r].intent
              /\ p.step = "complete" /\ p.target = id
              /\ p \in RequestRecord
              /\ \A s \in Request : req'[s] = req[s] \/ (s = r /\ req'[s] = p)
      BY <1>0, <2>2, <2>5, Fitting, GoesTo
    <2>7. client[i].approves => Checked(m, i)
      BY <1>2, <2>1 DEF Alone, SendTargets
    <2>8. Fit(p)'
      <3>1. SaveFits(p)'  BY <1>0, <2>6 DEF SaveFits
      <3>2. SendFits(p)'  BY <1>0, <1>1, <2>3, <2>4, <2>6 DEF SendFits
      <3>3. AimsApproved(p)'
        BY <1>0, <1>1, <2>3, <2>4, <2>6, <2>7 DEF AimsApproved, Checked, Grown
      <3>. QED  BY <3>1, <3>2, <3>3 DEF Fit
    <2>9. \A j \in Intent : ~Holds(p, j)  BY <1>0, <2>6 DEF Holds
    <2>10. FreeHasNone' /\ OnePen'
      <3>1. FreeHasNone /\ OnePen  BY Fitting
      <3>2. /\ \A call \in late' : call.kind = "save" => call \in late
            /\ \A j \in Intent : FreeRow(j)' => FreeRow(j)
        BY <1>0 DEF FreeRow
      <3>. QED  BY <2>4, <2>6, <2>9, <3>1, <3>2, PensStay
    <2>11. ClientsStay /\ \A j \in Intent : ClientFits(j)'  BY <1>0, <2>4, SameClients
    <2>12. rows' = rows /\ \A call \in late' : call \in late  BY <1>0
    <2>13. Aimed' /\ Approved'
      <3>1. Grown /\ Steady  BY <2>4
      <3>2. \A s \in Request : req'[s] = req[s] \/ (s = r /\ req'[s] = p)  BY <2>6
      <3>3. p \in RequestRecord  BY <2>6
      <3>. QED  BY <2>8, <2>11, <2>12, <3>1, <3>2, <3>3, PersistsUnrecorded
    <2>. QED  BY <2>4, <2>10, <2>13 DEF WritesInv
  <1>. QED  BY <1>1, <1>3, <1>4 DEF SendAnswered

\* A call goes out.
LEMMA IssueWrites ==
    ASSUME WritesInv, IInv', NEW r \in Request, Issue(r)
    PROVE  WritesInv'
  <1>1. /\ req[r].step = "call" /\ Goto(r, "await") /\ "await" \in Step
        /\ UNCHANGED <<messages, rows, late, client>>
    BY DEF Issue, Step
  <1>2. req[r].kind \in {"save", "send"} /\ req[r].target \in Nat
    BY <1>1, Fitting, KeyFacts DEF Working
  <1>3. CASE req[r].kind = "save"  BY <1>1, <1>2, <1>3, SaveGoes
  <1>4. CASE req[r].kind = "send"
    <2>1. PICK i \in Intent, target \in Nat :
              /\ i = req[r].intent /\ target = req[r].target
              /\ req[r].step \in Aims => messages[target].draft = client[i].draft
              /\ client[i].approves =>
                    /\ req[r].step \in Aims \ {"complete"} => target = client[i].expected
                    /\ req[r].step \in {"prepare", "call", "await"} => Alone(i)
      BY <1>1, <1>4, SendFacts
    <2>2. /\ messages[target].draft = client[i].draft
          /\ client[i].approves => target = client[i].expected /\ Alone(i)
      BY <1>1, <2>1 DEF Aims
    <2>. QED  BY <1>1, <1>4, <2>1, <2>2, SendGoes
  <1>. QED  BY <1>2, <1>3, <1>4

\* completeGmailDraftWrite.
LEMMA CompleteWrites ==
    ASSUME WritesInv, IInv', NEW r \in Request, Complete(r)
    PROVE  WritesInv'
  <1>. DEFINE done == [status |-> "complete", target |-> req[r].target]
  <1>0. req[r].step = "complete" /\ UNCHANGED <<messages, late, client>>
    BY DEF Complete
  <1>1. /\ req[r].intent \in Intent /\ req[r].kind \in {"save", "send"}
        /\ KeyOf(r) \in Key /\ KeyOf(r) = <<req[r].kind, req[r].intent>>
        /\ req[r].target \in Nat /\ req[r].target # 0
        /\ rows \in [Key -> Row] /\ req \in [Request -> RequestRecord]
    BY <1>0, Fitting, KeyFacts DEF Points, TypeOK, Working
  <1>2. CASE End(r) /\ rows' = rows  BY <1>0, <1>2, EndWalks
  <1>3. CASE rows' = [rows EXCEPT ![KeyOf(r)] = done] /\ Goto(r, "respond")
    <2>1. "respond" \in Step  BY DEF Step
    <2>2. PICK p \in Working :
              /\ p.kind = req[r].kind /\ p.intent = req[r].intent
              /\ p.step = "respond" /\ p.target = req[r].target
              /\ req' = [req EXCEPT ![r] = p] /\ p \in RequestRecord
              /\ \A s \in Request : req'[s] = req[s] \/ (s = r /\ req'[s] = p)
      BY <1>0, <1>1, <1>3, <2>1, Fitting, GoesTo
    <2>3. PICK row \in Row : row = done  BY <1>1 DEF Row
    <2>4. PICK i \in Intent : i = req[r].intent  BY <1>1
    <2>5. Fit(req[r])  BY Fitting
    <2>6. \A j \in Intent : ~Holds(p, j)  BY <2>2 DEF Holds
    <2>7. CASE req[r].kind = "save"
      <3>1. Original(req[r].target, i)  BY <1>0, <2>4, <2>5, <2>7 DEF Fit, SaveFits
      <3>2. Fit(p)
        BY <2>2, <2>4, <2>7, <3>1 DEF Fit, SaveFits, SendFits, AimsApproved, Original
      <3>3. PICK k : k = <<"save", i>>  OBVIOUS
      <3>4. k = KeyOf(r)  BY <1>1, <2>4, <2>7, <3>3
      <3>5. RowFit(k, row)
        BY <2>3, <3>1, <3>3 DEF RowFit, SaveRowFits, Original
      <3>6. \A j \in Key : rows'[j] = rows[j] \/ (j = k /\ rows'[j] = row)
        BY <1>1, <1>3, <2>3, <3>4
      <3>7. \A j \in Intent : FreeRow(j)' => FreeRow(j)
        <4>1. \A j \in Intent : <<"save", j>> \in Key  BY DEF Key
        <4>2. row.status = "complete"  BY <2>3
        <4>. QED  BY <3>6, <4>1, <4>2 DEF FreeRow
      <3>8. FreeHasNone' /\ OnePen'
        BY <1>0, <2>2, <2>6, <3>7, Fitting, NothingWritten, PensStay
      <3>. QED  BY <1>0, <2>2, <3>2, <3>5, <3>6, <3>8, Records
    <2>8. CASE req[r].kind = "send"
      <3>1. Fit(p)
        BY <2>2, <2>5, <2>8 DEF Fit, SaveFits, SendFits, AimsApproved, Aims
      <3>2. SendRowFits(i, row) /\ RowApproved(i, row)
        <4>1. SendRowFits(i, row)
          BY <1>0, <2>3, <2>4, <2>5, <2>8 DEF Fit, SendFits, SendRowFits, Aims
        <4>2. RowApproved(i, row)
          BY <1>0, <2>3, <2>4, <2>5, <2>8 DEF Fit, AimsApproved, RowApproved
        <4>. QED  BY <4>1, <4>2
      <3>3. rows' = [rows EXCEPT ![<<"send", i>>] = row]
        BY <1>1, <1>3, <2>3, <2>4, <2>8
      <3>. QED  BY <1>0, <2>2, <2>6, <3>1, <3>2, <3>3, SendRecords
    <2>. QED  BY <1>1, <2>7, <2>8
  <1>. QED  BY <1>2, <1>3 DEF Complete

\* The answer of a save: whoever answers first or again names the same draft.
LEMMA RespondWrites ==
    ASSUME WritesInv, IInv', NEW r \in Request, Respond(r)
    PROVE  WritesInv'
  <1>0. req[r].step = "respond" /\ End(r) /\ UNCHANGED <<messages, rows, late>>
    BY DEF Respond
  <1>1. /\ req[r].intent \in Intent /\ req[r].kind \in {"save", "send"}
        /\ req[r].target \in 1 .. Len(messages)
        /\ client \in [Intent -> Client] /\ req \in [Request -> RequestRecord]
    BY <1>0, Fitting, KeyFacts DEF Points, TypeOK, Working
  <1>2. PICK i \in Intent, target \in 1 .. Len(messages) :
            i = req[r].intent /\ target = req[r].target
    BY <1>1
  <1>3. Grown /\ MessagesFit' /\ Unwritten /\ Steady  BY <1>0, Fitting, NothingWritten
  <1>4. ClientFits(i)  BY Fitting
  <1>5. ClientsStay /\ \A j \in Intent : ClientFits(j)'
    <2>1. CASE client' = client  BY <1>3, <2>1, SameClients
    <2>2. CASE client' # client
      <3>1. \/ /\ req[r].kind = "save"
               /\ client' = [client EXCEPT ![i].draft = messages[target].draft,
                                           ![i].expected = target]
            \/ client' = [client EXCEPT ![i].sent = TRUE]
        BY <1>1, <1>2, <2>2 DEF Respond
      <3>2. /\ \A j \in Intent : j # i => client'[j] = client[j]
            /\ client'[i].approves = client[i].approves
            /\ \/ /\ req[r].kind = "save" /\ client'[i].expected = target
                  /\ client'[i].draft = messages[target].draft
               \/ /\ client'[i].expected = client[i].expected
                  /\ client'[i].draft = client[i].draft
        BY <1>1, <3>1 DEF Client
      <3>3. /\ client'[i].draft # 0 => /\ client'[i].expected \in 1 .. Len(messages)
                                       /\ Original(client'[i].expected, i)
                                       /\ messages[client'[i].expected].draft = client'[i].draft
            /\ client[i].draft # 0 => /\ client'[i].draft = client[i].draft
                                      /\ client'[i].expected = client[i].expected
        <4>1. CASE req[r].kind = "save" /\ client'[i].expected = target
                   /\ client'[i].draft = messages[target].draft
          <5>1. Original(target, i)
            <6>1. SaveFits(req[r])  BY Fitting DEF Fit
            <6>. QED  BY <1>0, <1>2, <4>1, <6>1 DEF SaveFits
          <5>2. client[i].draft # 0 => client[i].expected = target
            BY <1>4, <5>1, Fitting DEF ClientFits, OnePen
          <5>. QED  BY <1>4, <4>1, <5>1, <5>2 DEF ClientFits
        <4>2. CASE client'[i].expected = client[i].expected /\ client'[i].draft = client[i].draft
          BY <1>4, <4>2 DEF ClientFits
        <4>. QED  BY <3>2, <4>1, <4>2
      <3>4. ClientsStay  BY <3>2, <3>3 DEF ClientsStay
      <3>5. ASSUME NEW j \in Intent PROVE ClientFits(j)'
        <4>1. CASE j = i  BY <1>0, <3>3, <4>1 DEF ClientFits, Original
        <4>2. CASE j # i
          <5>1. ClientFits(j)  BY Fitting
          <5>. QED  BY <1>0, <3>2, <4>2, <5>1 DEF ClientFits, Original
        <4>. QED  BY <4>1, <4>2
      <3>. QED  BY <3>4, <3>5
    <2>. QED  BY <2>1, <2>2
  <1>6. req' = [req EXCEPT ![r] = Idle]  BY <1>0 DEF End
  <1>7. \A s \in Request : req'[s] = req[s] \/ (s = r /\ req'[s] = Idle)  BY <1>1, <1>6
  <1>8. FreeHasNone' /\ OnePen'
    BY <1>0, <1>3, <1>7, IdleFits, Fitting, PensStay DEF FreeRow
  <1>9. rows' = rows /\ \A call \in late' : call \in late  BY <1>0
  <1>10. Aimed' /\ Approved'
    <2>1. Grown /\ Steady  BY <1>3
    <2>2. Idle \in RequestRecord /\ Fit(Idle)'  BY IdleFits, IdleIsIdle
    <2>. QED  BY <1>5, <1>7, <1>9, <2>1, <2>2, PersistsUnrecorded
  <1>. QED  BY <1>3, <1>8, <1>10 DEF WritesInv

\* A request dies, and may leave its call; or it loses its lock.
LEMMA FaultWrites ==
    ASSUME WritesInv, IInv', NEW r \in Request, Fault(r)
    PROVE  WritesInv'
  <1>1. CASE SaveFailsEarly(r) \/ SaveRejected(r)
    <2>1. /\ req[r].kind = "save" /\ req[r].step \in {"current", "call", "await"}
          /\ Goto(r, "abandon") /\ UNCHANGED <<messages, rows, late, client>>
      BY <1>1 DEF SaveFailsEarly, SaveRejected, At
    <2>2. "abandon" \in Step /\ req[r].target \in Nat
      BY <2>1, Fitting, KeyFacts DEF Step
    <2>. QED  BY <2>1, <2>2, SaveGoes
  <1>2. CASE LoseLock(r)
    <2>1. UNCHANGED <<messages, rows, late, client, req>>  BY <1>2 DEF LoseLock
    <2>. QED  BY <2>1, IdleFits, IdleIsIdle, Walks
  <1>3. CASE Dies(r)
    <2>1. End(r) /\ UNCHANGED <<messages, rows, client>>
      BY <1>3 DEF Dies, RowsKept
    <2>2. CASE late' = late  BY <2>1, <2>2, EndWalks
    <2>3. CASE late' # late
      <3>. DEFINE out == [kind |-> req[r].kind, intent |-> req[r].intent,
                          id |-> req[r].id, target |-> req[r].target]
      <3>1. req[r].step = "await" /\ late' = late \union {out}
        BY <1>3, <2>3 DEF Dies
      <3>2. req[r] \in Working /\ req \in [Request -> RequestRecord]
        BY <3>1, Fitting, KeyFacts DEF TypeOK
      <3>3. PICK call \in Call :
              /\ call.kind = req[r].kind /\ call.intent = req[r].intent
              /\ call.target = req[r].target
              /\ late' = late \union {call}
        <4>1. out \in Call /\ out.kind = req[r].kind /\ out.intent = req[r].intent
              /\ out.target = req[r].target
          BY <3>2 DEF Working, Call
        <4>. HIDE DEF out
        <4>. QED  BY <3>1, <4>1
      <3>. HIDE DEF out
      <3>4. req' = [req EXCEPT ![r] = Idle]  BY <2>1 DEF End
      <3>5. \A s \in Request : req'[s] = req[s] \/ (s = r /\ req'[s] = Idle)  BY <3>2, <3>4
      <3>6. Grown /\ MessagesFit' /\ Unwritten /\ Steady  BY <2>1, Fitting, NothingWritten
      <3>7. FreeHasNone' /\ OnePen'
        <4>1. FreeHasNone /\ OnePen  BY Fitting
        <4>2. CASE req[r].kind = "save"
          <5>1. PICK i \in Intent : i = req[r].intent  BY <3>2 DEF Working
          <5>2. Holds(req[r], i)  BY <3>1, <4>2, <5>1 DEF Holds
          <5>3. \A j \in Intent : LateSave(call, j) => j = i  BY <3>3, <5>1 DEF LateSave
          <5>4. \A j \in Intent : ~Holds(Idle, j)  BY IdleFits
          <5>. QED  BY <2>1, <3>2, <3>3, <3>4, <4>1, <5>2, <5>3, <5>4, PenLeft
        <4>3. CASE req[r].kind # "save"
          <5>1. \A c \in late' : c.kind = "save" => c \in late  BY <3>3, <4>3
          <5>2. \A j \in Intent : FreeRow(j)' => FreeRow(j)  BY <2>1 DEF FreeRow
          <5>3. \A j \in Intent : ~Holds(Idle, j)  BY IdleFits
          <5>. QED  BY <3>5, <3>6, <4>1, <5>1, <5>2, <5>3, PensStay
        <4>. QED  BY <4>2, <4>3
      <3>8. ClientsStay /\ \A j \in Intent : ClientFits(j)'  BY <2>1, <3>6, SameClients
      <3>9. LateFits(call)' /\ LateApproved(call)'
        <4>1. Fit(req[r])  BY Fitting
        <4>2. LateFits(call)
          BY <3>1, <3>3, <4>1 DEF Fit, SendFits, LateFits, Aims
        <4>3. LateApproved(call)
          BY <3>1, <3>3, <4>1 DEF Fit, AimsApproved, LateApproved, Aims
        <4>. QED  BY <2>1, <4>2, <4>3 DEF LateFits, LateApproved, Alone, Checked, InDraft
      <3>10. rows' = rows /\ \A c \in late' : c \in late \/ c = call
        BY <2>1, <3>3
      <3>11. \A c \in late' :
                c \in late \/ (LateFits(c)' /\ LateApproved(c)')
        BY <3>9, <3>10
      <3>12. Aimed' /\ Approved'
        BY <3>5, <3>6, <3>8, <3>10, <3>11, IdleFits, IdleIsIdle, PersistsUnrecorded
      <3>. QED  BY <3>6, <3>7, <3>12 DEF WritesInv
    <2>. QED  BY <2>2, <2>3
  <1>. QED  BY <1>1, <1>2, <1>3 DEF Fault

\* Gmail alone changes messages.
LEMMA OnlyMessages ==
    ASSUME WritesInv, IInv', UNCHANGED <<rows, req, client>>, late' \subseteq late,
           Grown, MessagesFit', Steady, FreeHasNone' /\ OnePen'
    PROVE  WritesInv'
  <1>1. ClientsStay /\ \A j \in Intent : ClientFits(j)'  BY SameClients
  <1>2. /\ \A s \in Request : req'[s] = req[s]
        /\ \A c \in late' : c \in late
    OBVIOUS
  <1>3. Aimed' /\ Approved'
    BY <1>1, <1>2, IdleFits, IdleIsIdle, PersistsUnrecorded
  <1>. QED  BY <1>3 DEF WritesInv

\* Gmail alone changes messages, and writes no save.
LEMMA OnlyMoved ==
    ASSUME WritesInv, IInv', UNCHANGED <<rows, req, client>>, late' \subseteq late,
           Grown, MessagesFit', Steady, Unwritten
    PROVE  WritesInv'
  <1>1. FreeHasNone' /\ OnePen'
    <2>1. FreeHasNone /\ OnePen  BY Fitting
    <2>2. /\ \A j \in Intent : FreeRow(j)' => FreeRow(j)
          /\ \A j \in Intent : ~Holds(Idle, j)
          /\ \A s \in Request : req'[s] = req[s]
          /\ \A c \in late' : c \in late
      BY IdleFits DEF FreeRow
    <2>. QED  BY <2>1, <2>2, PensStay
  <1>. QED  BY <1>1, OnlyMessages

\* A late call reaches Gmail.
LEMMA ArrivalWrites ==
    ASSUME WritesInv, IInv', NEW call \in late, Arrives(call)
    PROVE  WritesInv'
  <1>1. late' = late \ {call} /\ UNCHANGED <<rows, req, client>>  BY DEF Arrives
  <1>2. call \in Call  BY Fitting DEF TypeOK
  <1>3. CASE /\ call.kind = "save" /\ messages' = Saved(call.intent, call.id)
    <2>1. PICK i \in Intent, id \in Nat : i = call.intent /\ id = call.id  BY <1>2 DEF Call
    <2>2. Grown /\ MessagesFit' /\ Wrote(i) /\ Steady
      BY <1>3, <2>1, Fitting, IsSaved
    <2>3. LateSave(call, i)  BY <1>3, <2>1 DEF LateSave
    <2>4. FreeHasNone' /\ OnePen'  BY <1>1, <2>2, <2>3, Fitting, PenArrives
    <2>. QED  BY <1>1, <2>2, <2>4, OnlyMessages
  <1>4. CASE \E m \in SendTargets(call.target) : \E id \in SentIds(m) : messages' = SentAs(m, id)
    <2>1. PICK m \in SendTargets(call.target) : \E id \in SentIds(m) : messages' = SentAs(m, id)
      BY <1>4
    <2>2. PICK id \in SentIds(m) : messages' = SentAs(m, id)  BY <2>1
    <2>3. m \in 1 .. Len(messages) /\ messages[m].state = "draft"
      BY Fitting, Lengths DEF SendTargets, InDraft
    <2>4. Grown /\ MessagesFit' /\ Unwritten /\ Steady
      BY <2>2, <2>3, Fitting, IsSent
    <2>. QED  BY <1>1, <2>4, OnlyMoved
  <1>5. CASE messages' = messages
    <2>1. Grown /\ MessagesFit' /\ Unwritten /\ Steady  BY <1>5, Fitting, NothingWritten
    <2>. QED  BY <1>1, <2>1, OnlyMoved
  <1>. QED  BY <1>3, <1>4, <1>5 DEF Arrives

\* A draft is edited, discarded or sent in Gmail.
LEMMA GmailWrites ==
    ASSUME WritesInv, IInv', InGmail
    PROVE  WritesInv'
  <1>1. PICK m \in DOMAIN messages :
            EditOutside(m) \/ \E state \in {"gone", "trash", "sent"} : LeaveOutside(m, state)
    BY DEF InGmail
  <1>2. m \in 1 .. Len(messages) /\ UNCHANGED <<rows, req, client, late>>
    BY <1>1, Fitting, Lengths DEF EditOutside, LeaveOutside
  <1>3. Grown /\ MessagesFit' /\ Unwritten /\ Steady
    <2>1. CASE EditOutside(m)  BY <1>2, <2>1, Fitting, IsEdited
    <2>2. CASE \E state \in {"gone", "trash", "sent"} : LeaveOutside(m, state)
      <3>1. PICK state \in {"sent", "trash", "gone"} :
                /\ messages[m].state = "draft"
                /\ messages' = [messages EXCEPT ![m].state = state]
        BY <2>2 DEF LeaveOutside
      <3>. QED  BY <1>2, <3>1, Fitting, Leaves
    <2>. QED  BY <1>1, <2>1, <2>2
  <1>. QED  BY <1>2, <1>3, OnlyMoved

\* The steps of requests together.
LEMMA RequestWrites ==
    ASSUME WritesInv, IInv', NEW r \in Request, RequestStep(r)
    PROVE  WritesInv'
  <1>1. CASE GiveUp(r)
    <2>1. End(r) /\ UNCHANGED <<messages, rows, client, late>>  BY <1>1 DEF GiveUp
    <2>. QED  BY <2>1, EndWalks
  <1>2. CASE ReadCurrent(r)
    <2>1. /\ req[r].kind = "save" /\ req[r].step = "current"
          /\ UNCHANGED <<messages, rows, late, client>>
      BY <1>2 DEF ReadCurrent, At
    <2>2. PICK step \in {"call", "abandon"} : Goto(r, step)  BY <1>2 DEF ReadCurrent
    <2>3. step \in Step /\ req[r].target \in Nat  BY <2>1, Fitting, KeyFacts DEF Step
    <2>. QED  BY <2>1, <2>2, <2>3, SaveGoes
  <1>. QED
    BY <1>1, <1>2, BeginSaveWrites, SaveAnsweredWrites, AbandonSaveWrites, ListDraftsWrites,
               BeginSendWrites, LooksWrites, UnprepareWrites, PrepareWrites, SendAnsweredWrites,
               IssueWrites, CompleteWrites, RespondWrites
            DEF RequestStep, SaveStep, SendStep

\* At the start one draft is there, and nobody has asked for anything.
LEMMA InitWrites == Init => WritesInv
  <1>. SUFFICES ASSUME Init PROVE WritesInv  OBVIOUS
  <1>. DEFINE first == [draft |-> ExistingDraft, op |-> Outside, content |-> 1,
                        overtook |-> FALSE, state |-> "draft"]
  <1>1. IInv  BY InitKeeps
  <1>2. messages = <<first>> /\ late = {}  BY DEF Init
  <1>3. Len(messages) = 1 /\ messages[1] = first /\ 1 .. Len(messages) = {1}  BY <1>2
  <1>4. /\ first.draft = 1 /\ first.op = Outside /\ first.content = 1 /\ first.state = "draft"
    BY DEF ExistingDraft
  <1>. HIDE DEF first
  <1>5. MessagesFit  BY <1>3, <1>4 DEF MessagesFit
  <1>6. \A m \in 1 .. Len(messages) : \A i \in Intent : ~Original(m, i)
    BY <1>3, <1>4 DEF Original
  <1>7. \A r \in Request : req[r] = Idle  BY DEF Init
  <1>8. FreeHasNone /\ OnePen
    BY <1>2, <1>6, <1>7, IdleFits DEF FreeHasNone, OnePen
  <1>9. \A i \in Intent : client[i].draft = 0  BY DEF Init
  <1>10. \A k \in Key : rows[k] = NoRow  BY DEF Init
  <1>11. Aimed /\ Approved
    <2>1. \A r \in Request : /\ SaveFits(req[r]) /\ SendFits(req[r])
                             /\ AimsApproved(req[r])
      BY <1>7, IdleFits DEF Fit
    <2>2. \A i \in Intent : /\ ClientFits(i)
                            /\ SaveRowFits(i, rows[<<"save", i>>])
                            /\ SendRowFits(i, rows[<<"send", i>>])
                            /\ RowApproved(i, rows[<<"send", i>>])
      BY <1>9, <1>10 DEF ClientFits, SaveRowFits, SendRowFits, RowApproved, NoRow, Key
    <2>. QED  BY <1>2, <2>1, <2>2 DEF Aimed, Approved
  <1>. QED  BY <1>1, <1>5, <1>8, <1>11 DEF WritesInv

\* Nothing happens.
LEMMA StutterWrites ==
    ASSUME WritesInv, IInv', UNCHANGED vars
    PROVE  WritesInv'
  <1>1. UNCHANGED <<messages, rows, late, client, req>>  BY DEF vars
  <1>. QED  BY <1>1, IdleFits, IdleIsIdle, Walks

-----------------------------------------------------------------------------
(* The theorems.                                                           *)

\* Nothing happens.
LEMMA StutterKeeps == IInv /\ UNCHANGED vars => IInv'
  BY DEF vars, IInv, TypeOK, TargetsExist, SendsRecorded, OnRecord, Points, Sends

\* The invariant is inductive: whatever requests, Gmail and failures do, targets
\* exist and sends that are out are on record.
THEOREM Inductive == Spec => []IInv
  <1>1. IInv /\ [Next]_vars => IInv'
    <2>. SUFFICES ASSUME IInv, [Next]_vars PROVE IInv'  OBVIOUS
    <2>. QED
      BY RequestKeeps, FaultKeeps, AskKeeps, ArrivalKeeps, GmailKeeps, StutterKeeps DEF Next
  <1>. QED  BY InitKeeps, <1>1, PTL DEF Spec

\* Every variable keeps its type: no request answers, completes or recovers with a
\* message that is not there, and a complete row has its result.
THEOREM TypeCorrect == Spec => []TypeOK
  <1>1. IInv => TypeOK  BY DEF IInv
  <1>. QED  BY Inductive, <1>1, PTL

\* sendComposeDraft: while a send may reach Gmail its row is there and names what is
\* sent, whichever requests race, die or lose the lock.
THEOREM SendNotForgotten == Spec => []SendRemembered
  <1>1. IInv => SendRemembered
    <2>. SUFFICES ASSUME IInv, NEW i \in Intent, MaySend(i) PROVE OnRecord(i)
      BY DEF SendRemembered, OnRecord
    <2>. QED  BY DEF IInv, SendsRecorded, MaySend, Sends
  <1>. QED  BY Inductive, <1>1, PTL

\* One pen, one draft and one approval: whatever requests, Gmail and failures do.
THEOREM WritesHold == Spec => []WritesInv
  <1>1. WritesInv /\ [Next]_vars => WritesInv'
    <2>. SUFFICES ASSUME WritesInv, [Next]_vars PROVE WritesInv'  OBVIOUS
    <2>1. IInv'
      BY Fitting, RequestKeeps, FaultKeeps, AskKeeps, ArrivalKeeps, GmailKeeps, StutterKeeps
         DEF Next
    <2>. QED  BY <2>1, RequestWrites, FaultWrites, AskWrites, ArrivalWrites, GmailWrites,
                 StutterWrites DEF Next
  <1>. QED  BY InitWrites, <1>1, PTL DEF Spec

\* saveComposeDraft: one idempotency key writes one message to Gmail, whichever
\* requests race, die, are rejected or arrive late.
THEOREM SavedOnce == Spec => []WrittenOnce
  <1>1. WritesInv => WrittenOnce
    <2>. SUFFICES ASSUME WritesInv, NEW i \in Intent PROVE Cardinality(Writes(i)) <= 1
      BY DEF WrittenOnce
    <2>1. \A m \in Writes(i) : m \in 1 .. Len(messages) /\ Original(m, i)
      <3>1. /\ DOMAIN messages = 1 .. Len(messages)
            /\ \A id : <<i, id>> # Outside /\ <<i, id>>[1] = i
        BY Fitting, Lengths, MarksDiffer
      <3>. QED  BY <3>1 DEF Writes, Original
    <2>2. \A m, n \in Writes(i) : m = n  BY <2>1, Fitting DEF OnePen
    <2>3. CASE Writes(i) = {}  BY <2>3, FS_EmptySet
    <2>4. CASE Writes(i) # {}
      <3>1. PICK m \in Writes(i) : TRUE  BY <2>4
      <3>2. Writes(i) = {m}  BY <2>2, <3>1
      <3>3. Cardinality({m}) = 1  BY FS_Singleton
      <3>. QED  BY <3>2, <3>3
    <2>. QED  BY <2>3, <2>4
  <1>. QED  BY WritesHold, <1>1, PTL

\* completeGmailDraftWrite: a send that is recorded as done has sent a message, from
\* the draft that its composer saved.
THEOREM SentIsSent == Spec => []SentTruly
  <1>1. WritesInv => SentTruly
    <2>. SUFFICES ASSUME WritesInv, NEW i \in Intent, rows[<<"send", i>>].status = "complete"
                  PROVE  LET m == rows[<<"send", i>>].target
                         IN messages[m].state = "sent" /\ messages[m].draft = client[i].draft
      BY DEF SentTruly
    <2>1. SendRowFits(i, rows[<<"send", i>>])  BY DEF WritesInv, Aimed
    <2>2. rows[<<"send", i>>].target # 0
      <3>1. rows[<<"send", i>>] \in Row  BY Fitting DEF TypeOK, Key
      <3>. QED  BY <3>1 DEF Row
    <2>. QED  BY <2>1, <2>2 DEF SendRowFits
  <1>. QED  BY WritesHold, <1>1, PTL

\* prepareAndSend and recoverPreparedSend: an approved send sends what was approved, or
\* what was written into the draft after the last check of it, whatever is edited, retried,
\* lost or late.
THEOREM ApprovedIsSent == Spec => []SentAsChecked
  <1>1. WritesInv => SentAsChecked
    BY DEF WritesInv, Approved, RowApproved, SentAsChecked, SentContent, Checked
  <1>. QED  BY WritesHold, <1>1, PTL
=============================================================================
