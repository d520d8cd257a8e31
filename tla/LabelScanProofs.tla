--------------------------- MODULE LabelScanProofs ---------------------------
(***************************************************************************)
(* Theorems about LabelScan, for every number of threads, every size of a  *)
(* page and every bound.                                                   *)
(***************************************************************************)
EXTENDS LabelScan, FiniteSetTheorems, WellFoundedInduction, TLAPS

-----------------------------------------------------------------------------
(* The inductive invariant.                                                *)

Sending == {"file", "prepare", "upload", "record", "batch", "recordBatch"}
SubId1 == 1 .. Len(subs)
Sent(i) == remote[i].batch # "none"

\* What a batch has been asked is not ahead of the thread, and lies behind it
\* once the user has chosen.
Stale(e) == /\ e.version <= threads[e.thread].version
            /\ threads[e.thread].late => e.version < threads[e.thread].version

\* A scope without threads is the next page; a retry and its continuations fit a page.
Small(T) == Cardinality(T) <= PageLimit
Fitting(conts) ==
    \A k \in DOMAIN conts : conts[k].retry > 0 /\ conts[k].threads # {} /\ Small(conts[k].threads)
Proper(s) == /\ s.threads = {} => s.conts = <<>> /\ s.retry = 0
             /\ s.threads # {} => s.retry > 0
             /\ Small(s.threads) /\ Fitting(s.conts)

\* What an attempt has found or done.
Sound(a) ==
    /\ Proper(a.scope) /\ Proper(a.outcome.scope)
    /\ a.at \in Sending \union {"check", "claim"} => a.kind = "submit"
    /\ a.at \in {"read", "apply"} => a.kind = "finalize"
    /\ a.at \in Sending \/ a.kind = "finalize" => a.sub \in SubId1
    /\ (\A e \in a.entries : Stale(e)) /\ Small(ThreadsOf(a.entries))
    /\ a.at \in {"record", "batch", "recordBatch"} => remote[a.sub].files # {}
    /\ a.at = "recordBatch" \/ a.kind = "finalize" => Sent(a.sub)
    /\ a.at = "apply" => remote[a.sub].batch \in States
    /\ a.at = "report" /\ a.outcome.status = "submitted" =>
          a.outcome.sub \in SubId1 /\ Sent(a.outcome.sub)
    /\ a.at = "report" /\ a.outcome.status = "pending" => a.kind = "finalize"
    /\ a.at \in {"file", "prepare"} /\ spent["changes"] = 0 => a.entries # {}

\* What a submission is to do, and how far it has come.
Planned(i) ==
    /\ i \in Active => i = Len(subs)
    /\ subs[i].retry = 0 => subs[i].conts = <<>>
    /\ Small(ThreadsOf(subs[i].manifest)) /\ Fitting(subs[i].conts)
    /\ \A e \in subs[i].manifest : Stale(e)
    /\ i \in Active /\ spent["changes"] = 0 =>
          subs[i].manifest # {} /\ \A e \in subs[i].manifest : Unchanged(e)
Handed(i) ==
    /\ Sent(i) => remote[i].files # {}
    /\ subs[i].file # {} \/ subs[i].batch => remote[i].files # {}
    /\ subs[i].status = "submitted" => subs[i].batch
    /\ subs[i].batch => Sent(i)

Driven ==
    /\ Proper(exec.scope)
    /\ exec.at = "none" => exec.scope = FirstScope
    /\ exec.at \in {"wait", "finalize"} => exec.sub \in SubId1 /\ Sent(exec.sub)
    /\ exec.at = "died" => spent["deaths"] > 0

\* The Execution waits for one attempt at a time.
Led == \A a \in work : a.live =>
           /\ a.kind = exec.at /\ a.scope = exec.scope
           /\ \A b \in work : b.live => b = a

\* While no attempt is overtaken there is one at a time.
Alone(a) ==
    /\ a.live /\ a.kind = exec.at /\ a.scope = exec.scope
    /\ a.at = "prepare" => ~Sent(a.sub) /\ a.file = ThreadsOf(subs[a.sub].manifest)
    /\ a.at \in {"file", "prepare"} => a.entries \subseteq subs[a.sub].manifest
Sequential == spent["timeouts"] = 0 => \A a, b \in work : a = b /\ Alone(a)

\* While nothing has changed an attempt is to ask about threads as they are.
Fresh == spent["changes"] = 0 =>
    \A a \in work : a.at \in {"file", "prepare"} /\ a.sub \in Active => \A e \in a.entries : Unchanged(e)

\* Nothing is sent any more for a submission that is over.
Over(i) == \/ remote[i].batch \in States
           \/ remote[i].batch = "none" /\ \A a \in work : a.at \in Sending => a.sub # i
OneBatch ==
    spent["timeouts"] = 0 \/ spent["changes"] = 0 =>
        \A i \in SubId1 : i < Len(subs) \/ (Open /\ i \notin Active) => Over(i)

\* Every thread that is left has its place: behind the cursor, in a batch that
\* is out, or in the scope that comes next.
In(conts, t) == \E k \in DOMAIN conts : t \in conts[k].threads
Covers(s, t) == t > scan.cursor \/ t \in s.threads \/ In(s.conts, t)
Left == Thread \ settled
Closing(a) == a.at = "report" /\ a.outcome.status = "finalized"
Going(a) == a.at = "report" /\ a.outcome.status \in {"skipped", "finalized"}
Holds(i) ==
    /\ \A t \in Left : t > scan.cursor \/ t \in ThreadsOf(subs[i].manifest) \/ In(subs[i].conts, t)
    /\ subs[i].retry = 0 =>
          /\ \A t \in ThreadsOf(subs[i].manifest) : t > scan.cursor
          /\ \A t \in Left, u \in ThreadsOf(subs[i].manifest) :
                t > scan.cursor /\ t <= u => t \in ThreadsOf(subs[i].manifest)
Placed ==
    ~Astray /\ Open =>
        /\ exec.at \in {"none", "submit"} /\ ~(\E a \in work : Closing(a)) =>
              \A t \in Left : Covers(exec.scope, t)
        /\ \A a \in work : Going(a) => \A t \in Left : Covers(a.outcome.scope, t)
        /\ \A i \in Active : Holds(i)

Attempts == \A a \in work : Sound(a)
Submissions == \A i \in SubId1 : Planned(i) /\ Handed(i)

IInv == /\ TypeOK /\ Attempts /\ Submissions /\ Driven /\ Led /\ Sequential /\ Fresh
        /\ OneBatch /\ Placed

-----------------------------------------------------------------------------
(* Threads and pages.                                                      *)

\* What the constants are.
LEMMA ConstantsTyped ==
    /\ Threads \in Nat \ {0} /\ PageLimit \in Nat \ {0} /\ MaxSubs \in Nat \ {0}
    /\ RetryLimit \in Nat /\ MaxFaults \in Nat /\ MaxTimeouts \in Nat /\ MaxDeaths \in Nat
    /\ MaxChanges \in Nat /\ MaxRevocations \in Nat /\ MaxBoots \in Nat /\ MaxEvents \in Nat
    /\ Thread \subseteq Nat \ {0} /\ Thread \subseteq 0 .. Threads
BY ScanAssumption DEF Thread

\* A set of numbers has a least one.
LEMMA Least ==
    ASSUME NEW T, T \subseteq Nat, T # {}
    PROVE  \E x \in T : \A y \in T : x <= y
  <1> DEFINE R == OpToRel(<, Nat)
  <1>1. IsWellFoundedOn(R, Nat)  BY NatLessThanWellFounded
  <1>2. R = {ss \in Nat \X Nat : ss[1] < ss[2]}  BY DEF OpToRel
  <1> HIDE DEF R
  <1>3. PICK x \in T : \A y \in T : ~(<<y, x>> \in R)  BY <1>1, WFMin
  <1>4. ASSUME NEW y \in T PROVE x <= y
    <2>1. x \in Nat /\ y \in Nat  OBVIOUS
    <2>2. ~(y < x)
      <3> DEFINE ss == <<y, x>>
      <3>1. ss \in Nat \X Nat /\ ss[1] = y /\ ss[2] = x  BY <2>1
      <3>2. ss \notin R  BY <1>3
      <3>. HIDE DEF ss
      <3>. QED  BY <1>2, <3>1, <3>2
    <2>. QED  BY <2>1, <2>2
  <1>. QED  BY <1>4

\* A set of threads has a last one.
LEMMA LastIs ==
    ASSUME NEW S, S \subseteq Thread, S # {}
    PROVE  Last(S) \in S /\ \A u \in S : u <= Last(S)
  <1> DEFINE T == {Threads - t : t \in S}
  <1>1. Threads \in Nat /\ \A t \in S : t \in Nat /\ t <= Threads
    BY ConstantsTyped DEF Thread
  <1>2. T \subseteq Nat /\ T # {}  BY <1>1
  <1>3. PICK x \in T : \A y \in T : x <= y  BY <1>2, Least
  <1>4. PICK t \in S : x = Threads - t  BY <1>3
  <1>5. \A u \in S : u <= t
    <2> TAKE u \in S
    <2>1. Threads - u \in T  OBVIOUS
    <2>2. x <= Threads - u  BY <2>1, <1>3
    <2>. QED  BY <2>2, <1>1, <1>4
  <1>. QED  BY <1>4, <1>5 DEF Last

\* Threads are finitely many.
LEMMA ThreadsFinite ==
    /\ IsFiniteSet(Thread)
    /\ \A S : S \subseteq Thread => IsFiniteSet(S) /\ Cardinality(S) \in Nat
  <1>1. IsFiniteSet(Thread)  BY FS_Interval, ConstantsTyped DEF Thread
  <1>. QED  BY <1>1, FS_Subset, FS_CardinalityType

\* Fewer threads fit where more do.
LEMMA SmallSubset ==
    ASSUME NEW S, NEW T, S \subseteq T, T \subseteq Thread, Small(T)
    PROVE  Small(S)
  <1>1. Cardinality(S) \in Nat /\ Cardinality(T) \in Nat /\ Cardinality(S) <= Cardinality(T)
    BY ThreadsFinite, FS_Subset
  <1>. QED  BY <1>1, ConstantsTyped DEF Small

\* Nothing fits a page.
LEMMA SmallEmpty == Small({})
BY FS_EmptySet, ConstantsTyped DEF Small

\* The page of a scope: what it may take, in order, until it is full.
Found(scope) == {t \in Thread : /\ Eligible(t)
                                /\ IF scope.threads # {} THEN t \in scope.threads
                                   ELSE t > scan.cursor}

\* The page is the first of what was found.
LEMMA PageIs ==
    ASSUME NEW scope
    PROVE  /\ Page(scope) \subseteq Found(scope) /\ Found(scope) \subseteq Thread
           /\ \A t \in Found(scope), u \in Page(scope) : t <= u => t \in Page(scope)
           /\ Page(scope) = {} => Found(scope) = {}
           /\ Small(Page(scope))
           /\ scope.threads # {} /\ Small(scope.threads) /\ scope.threads \subseteq Thread =>
                 Page(scope) = Found(scope)
  <1> DEFINE F == Found(scope)
             G == Page(scope)
             Before(t) == {u \in F : u < t}
  <1>1. G = {t \in F : Cardinality(Before(t)) < PageLimit}  BY DEF Page, Found
  <1>2. F \subseteq Thread  BY DEF Found
  <1> HIDE DEF F, G
  <1>3. \A t \in F : Before(t) \subseteq Thread /\ IsFiniteSet(Before(t)) /\ Cardinality(Before(t)) \in Nat
    BY <1>2, ThreadsFinite
  <1>4. PageLimit \in Nat \ {0} /\ \A t \in F : t \in Nat
    BY <1>2, ConstantsTyped
  <1>5. ASSUME NEW t \in F, NEW u \in G, t <= u PROVE t \in G
    <2>1. u \in F /\ Cardinality(Before(u)) < PageLimit  BY <1>1
    <2>2. Before(t) \subseteq Before(u)  BY <2>1, <1>4, <1>5
    <2>3. Cardinality(Before(t)) <= Cardinality(Before(u))
      BY <2>1, <2>2, <1>3, FS_Subset
    <2> DEFINE m == Cardinality(Before(t))
               n == Cardinality(Before(u))
    <2>4. m \in Nat /\ n \in Nat /\ PageLimit \in Nat /\ m <= n /\ n < PageLimit
      BY <2>1, <2>3, <1>3, <1>4
    <2>. HIDE DEF m, n
    <2>5. m < PageLimit  BY <2>4
    <2>6. Cardinality(Before(t)) < PageLimit  BY <2>5 DEF m
    <2>. QED  BY <2>6, <1>1
  <1>6. ASSUME F # {} PROVE G # {}
    <2>1. PICK x \in F : \A y \in F : x <= y  BY <1>4, <1>6, Least
    <2>2. Before(x) = {}  BY <2>1, <1>4
    <2>3. Cardinality(Before(x)) = 0  BY <2>2, FS_EmptySet
    <2>4. x \in G  BY <2>3, <1>1, <1>4
    <2>. QED  BY <2>4
  <1>7. Small(G)
    <2>1. CASE G = {}  BY <2>1, SmallEmpty
    <2>2. CASE G # {}
      <3>1. G \subseteq Thread /\ G \subseteq F  BY <1>1, <1>2
      <3>2. PICK m \in G : \A u \in G : u <= m  BY <2>2, <3>1, LastIs
      <3>3. m \in F /\ Cardinality(Before(m)) < PageLimit /\ Cardinality(Before(m)) \in Nat
            /\ IsFiniteSet(Before(m))
        BY <1>1, <1>3, <3>2
      <3>4. m \notin Before(m)  BY <3>3, <1>4
      <3>5. /\ IsFiniteSet(Before(m) \union {m})
            /\ Cardinality(Before(m) \union {m}) = Cardinality(Before(m)) + 1
        BY <3>3, <3>4, FS_AddElement
      <3>6. G \subseteq Before(m) \union {m}
        <4> SUFFICES ASSUME NEW u \in G PROVE (u < m /\ u \in F) \/ u = m
          OBVIOUS
        <4>1. u \in F /\ u <= m  BY <3>1, <3>2
        <4>2. u \in Nat /\ m \in Nat  BY <4>1, <3>3, <1>4
        <4>. QED  BY <4>1, <4>2
      <3>7. Cardinality(G) <= Cardinality(Before(m) \union {m})
        BY <3>5, <3>6, FS_Subset
      <3>8. Cardinality(G) \in Nat  BY <3>1, ThreadsFinite
      <3>. QED  BY <3>3, <3>5, <3>7, <3>8, <1>4 DEF Small
    <2>. QED  BY <2>1, <2>2
  <1>8. ASSUME scope.threads # {}, Small(scope.threads), scope.threads \subseteq Thread PROVE G = F
    <2> DEFINE T == scope.threads
    <2>1. F \subseteq T  BY <1>8 DEF F, Found
    <2> HIDE DEF T
    <2>2. IsFiniteSet(F) /\ Cardinality(F) \in Nat /\ IsFiniteSet(T) /\ Cardinality(T) \in Nat
      BY <1>2, <1>8, ThreadsFinite DEF T
    <2>3. Cardinality(F) <= PageLimit
      <3>1. Cardinality(F) <= Cardinality(T)  BY <2>1, <2>2, FS_Subset
      <3>2. Cardinality(T) <= PageLimit  BY <1>8 DEF T, Small
      <3>. QED  BY <2>2, <3>1, <3>2, <1>4
    <2>4. ASSUME NEW t \in F PROVE t \in G
      <3>1. IsFiniteSet(F \ {t}) /\ Cardinality(F \ {t}) = Cardinality(F) - 1
        BY <2>2, FS_RemoveElement
      <3>2. Before(t) \subseteq F \ {t}  BY <1>4
      <3>3. Cardinality(Before(t)) <= Cardinality(F \ {t})
        BY <3>1, <3>2, FS_Subset
      <3>4. Cardinality(Before(t)) < PageLimit
        BY <3>1, <3>3, <2>2, <2>3, <1>3, <1>4
      <3>. QED  BY <3>4, <1>1
    <2>. QED  BY <2>4, <1>1
  <1>9. G \subseteq F  BY <1>1
  <1>. QED  BY <1>2, <1>5, <1>6, <1>7, <1>8, <1>9 DEF F, G

-----------------------------------------------------------------------------
(* Scopes, attempts and submissions.                                       *)

\* A scope, what comes after it, and what a submission goes on with.
LEMMA ScopeTyped ==
    /\ FirstScope \in Scope /\ Proper(FirstScope)
    /\ FirstScope.threads = {} /\ FirstScope.conts = <<>> /\ FirstScope.retry = 0
    /\ Nothing \in Outcome /\ Nothing.scope = FirstScope /\ Nothing.status = "none"
  <1>1. FirstScope \in Scope  BY ConstantsTyped DEF FirstScope, Scope
  <1>2. Proper(FirstScope)  BY SmallEmpty DEF FirstScope, Proper, Fitting
  <1>3. Nothing \in Outcome  BY <1>1, ConstantsTyped DEF Nothing, Outcome, SubId
  <1>. QED  BY <1>1, <1>2, <1>3 DEF FirstScope, Nothing

\* A scope that comes next holds what was to be continued.
LEMMA NextScopeIs ==
    ASSUME NEW conts \in Seq(Continuation), Fitting(conts)
    PROVE  /\ NextScope(conts) \in Scope /\ Proper(NextScope(conts))
           /\ \A t : In(conts, t) => t \in NextScope(conts).threads \/ In(NextScope(conts).conts, t)
  <1>1. CASE conts = <<>>  BY <1>1, ScopeTyped DEF NextScope, In
  <1>2. CASE conts # <<>>
    <2> DEFINE s == [retry |-> conts[1].retry, threads |-> conts[1].threads, conts |-> Tail(conts)]
    <2>1. NextScope(conts) = s  BY <1>2 DEF NextScope
    <2>2. /\ 1 \in DOMAIN conts /\ conts[1] \in Continuation /\ Tail(conts) \in Seq(Continuation)
          /\ DOMAIN conts = 1 .. Len(conts) /\ Len(conts) \in Nat
          /\ DOMAIN Tail(conts) = 1 .. Len(conts) - 1
          /\ \A k \in DOMAIN Tail(conts) : k + 1 \in DOMAIN conts /\ Tail(conts)[k] = conts[k + 1]
      BY <1>2
    <2>3. s \in Scope  BY <2>2 DEF Scope, Continuation
    <2>4. Fitting(Tail(conts))  BY <2>2 DEF Fitting
    <2>5. conts[1].retry > 0 /\ conts[1].threads # {} /\ Small(conts[1].threads)
      BY <2>2 DEF Fitting
    <2>6. Proper(s)  BY <2>4, <2>5 DEF Proper
    <2>7. ASSUME NEW t, In(conts, t) PROVE t \in conts[1].threads \/ In(Tail(conts), t)
      <3>1. PICK k \in DOMAIN conts : t \in conts[k].threads  BY <2>7 DEF In
      <3>2. CASE k = 1  BY <3>1, <3>2
      <3>3. CASE k # 1
        <4>1. k - 1 \in DOMAIN Tail(conts) /\ Tail(conts)[k - 1] = conts[k]
          BY <3>3, <2>2
        <4>. QED  BY <3>1, <4>1 DEF In
      <3>. QED  BY <3>2, <3>3
    <2>. QED  BY <2>1, <2>3, <2>6, <2>7
  <1>. QED  BY <1>1, <1>2

\* An attempt with what it does next.
AttemptAt == {"check", "claim", "file", "prepare", "upload", "record", "batch",
              "recordBatch", "read", "apply", "fail", "report"}
Outcomes == {"none", "submitted", "skipped", "exhausted", "superseded",
             "pending", "finalized", "ended", "recorded"}
Like(b, a) == b.kind = a.kind /\ b.live = a.live /\ b.scope = a.scope

\* An attempt field by field.
LEMMA AttemptTyped ==
    ASSUME NEW a \in Attempt
    PROVE  /\ a.at \in AttemptAt /\ a.kind \in {"submit", "finalize", "fail"} /\ a.live \in BOOLEAN
           /\ a.scope \in Scope /\ a.sub \in SubId /\ a.entries \subseteq Entry
           /\ a.file \subseteq Thread /\ a.outcome \in Outcome
           /\ a.outcome.scope \in Scope /\ a.outcome.sub \in SubId /\ a.outcome.status \in Outcomes
           /\ \A e \in a.entries : e.thread \in Thread /\ e.version \in Nat /\ e.content \in Nat
  <1>1. /\ a.at \in AttemptAt /\ a.kind \in {"submit", "finalize", "fail"} /\ a.live \in BOOLEAN
        /\ a.scope \in Scope /\ a.sub \in SubId /\ a.entries \subseteq Entry
        /\ a.file \subseteq Thread /\ a.outcome \in Outcome
    BY DEF Attempt, AttemptAt
  <1>2. a.outcome.scope \in Scope /\ a.outcome.sub \in SubId /\ a.outcome.status \in Outcomes
    BY <1>1 DEF Outcome, Outcomes
  <1>3. \A e \in a.entries : e.thread \in Thread /\ e.version \in Nat /\ e.content \in Nat
    BY <1>1 DEF Entry
  <1>. QED  BY <1>1, <1>2, <1>3

\* An attempt goes on to a phase.
LEMMA GoesTo ==
    ASSUME NEW a \in Attempt, NEW at \in AttemptAt
    PROVE  \E b \in Attempt : /\ b = [a EXCEPT !.at = at] /\ Like(b, a)
                              /\ b.at = at /\ b.sub = a.sub /\ b.entries = a.entries
                              /\ b.file = a.file /\ b.outcome = a.outcome
  <1> DEFINE b == [a EXCEPT !.at = at]
  <1>1. /\ b \in Attempt /\ Like(b, a) /\ b.at = at /\ b.sub = a.sub /\ b.entries = a.entries /\ b.file = a.file /\ b.outcome = a.outcome
    BY DEF Attempt, AttemptAt, Like
  <1> HIDE DEF b
  <1>2. b = [a EXCEPT !.at = at]  BY DEF b
  <1>. QED  BY <1>1, <1>2

\* An attempt has an outcome to report.
LEMMA ReportsIs ==
    ASSUME NEW a \in Attempt, NEW status \in Outcomes, NEW scope \in Scope, NEW sub \in SubId,
           Reports(a, status, scope, sub)
    PROVE  \E b \in Attempt : /\ work' = (work \ {a}) \union {b} /\ Like(b, a)
                              /\ b.at = "report" /\ b.sub = a.sub /\ b.entries = a.entries
                              /\ b.outcome.status = status /\ b.outcome.scope = scope
                              /\ b.outcome.sub = sub
  <1> DEFINE o == [status |-> status, scope |-> scope, sub |-> sub]
  <1>1. o \in Outcome  BY DEF Outcome, Outcomes
  <1> DEFINE b == [a EXCEPT !.at = "report", !.outcome = o]
  <1>2. work' = (work \ {a}) \union {b}  BY DEF Reports, Becomes
  <1>3. o.status = status /\ o.scope = scope /\ o.sub = sub  OBVIOUS
  <1> HIDE DEF o
  <1>4. /\ b \in Attempt /\ Like(b, a) /\ b.at = "report" /\ b.sub = a.sub
        /\ b.entries = a.entries /\ b.outcome = o
    BY <1>1 DEF Attempt, Like
  <1> HIDE DEF b
  <1>. QED  BY <1>2, <1>3, <1>4

\* A submission, and one with fields replaced.
LEMMA SubmissionTyped ==
    ASSUME NEW s \in Submission
    PROVE  /\ s.status \in {"preparing", "submitted", "complete", "failed"} /\ s.retry \in 0 .. RetryLimit
           /\ s.manifest \subseteq Entry /\ s.conts \in Seq(Continuation) /\ s.file \subseteq Thread
           /\ s.batch \in BOOLEAN /\ ThreadsOf(s.manifest) \subseteq Thread
           /\ \A e \in s.manifest : e.thread \in Thread /\ e.version \in Nat /\ e.content \in Nat
  <1>1. /\ s.status \in {"preparing", "submitted", "complete", "failed"} /\ s.retry \in 0 .. RetryLimit
        /\ s.manifest \subseteq Entry /\ s.conts \in Seq(Continuation) /\ s.file \subseteq Thread
        /\ s.batch \in BOOLEAN
    BY DEF Submission
  <1>2. \A e \in s.manifest : e.thread \in Thread /\ e.version \in Nat /\ e.content \in Nat
    BY <1>1 DEF Entry
  <1>. QED  BY <1>1, <1>2 DEF ThreadsOf

\* One place of a sequence replaced.
LEMMA PutTyped ==
    ASSUME NEW S, NEW s \in Seq(S), NEW i, NEW x \in S, i \in 1 .. Len(s)
    PROVE  /\ [s EXCEPT ![i] = x] \in Seq(S) /\ Len([s EXCEPT ![i] = x]) = Len(s)
           /\ DOMAIN [s EXCEPT ![i] = x] = 1 .. Len(s)
           /\ [s EXCEPT ![i] = x][i] = x
           /\ \A j \in 1 .. Len(s) : j # i => [s EXCEPT ![i] = x][j] = s[j]
  <1> DEFINE t == [s EXCEPT ![i] = x]
  <1>1. DOMAIN s = 1 .. Len(s) /\ Len(s) \in Nat /\ \A j \in 1 .. Len(s) : s[j] \in S
    OBVIOUS
  <1>2. /\ t = [j \in 1 .. Len(s) |-> t[j]] /\ DOMAIN t = 1 .. Len(s)
        /\ t[i] = x /\ \A j \in 1 .. Len(s) : j # i => t[j] = s[j]
    BY <1>1
  <1>3. \A j \in 1 .. Len(s) : t[j] \in S  BY <1>1, <1>2
  <1> HIDE DEF t
  <1>4. t \in Seq(S) /\ Len(t) = Len(s)  BY <1>1, <1>2, <1>3
  <1>. QED  BY <1>2, <1>4 DEF t

-----------------------------------------------------------------------------
(* What a step leaves alone.                                               *)

\* Bounds are used up, versions grow, what was sent stays sent.
Grown == \A c \in Counters : spent'[c] = 0 => spent[c] = 0
Monotone ==
    /\ Grown /\ Len(subs) <= Len(subs')
    /\ \A i \in SubId1 : /\ remote[i].files # {} => remote'[i].files # {}
                         /\ remote[i].batch # "none" => remote'[i].batch # "none"
                         /\ remote[i].batch \in States => remote'[i].batch \in States
    /\ \A e \in Entry : Stale(e) => Stale(e)'

\* The conjuncts of TypeOK that the proofs use most.
LEMMA Typed ==
    ASSUME TypeOK
    PROVE  /\ work \subseteq Attempt /\ subs \in Seq(Submission) /\ remote \in Seq(Remote)
           /\ Len(remote) = Len(subs) /\ Len(subs) \in Nat /\ Len(subs) <= MaxSubs
           /\ DOMAIN subs = SubId1 /\ DOMAIN remote = SubId1
           /\ SubId1 \subseteq SubId /\ SubId1 \subseteq Nat
           /\ \A i \in SubId1 : subs[i] \in Submission /\ remote[i] \in Remote
           /\ threads \in [Thread -> ThreadRecord] /\ exec \in Execution
           /\ scan.cursor \in 0 .. Threads /\ scan.cursor \in Nat
           /\ scan.status \in {"queued", "running", "complete", "failed", "superseded"}
           /\ settled \subseteq Thread /\ spent \in [Counters -> Nat]
  <1>1. /\ work \subseteq Attempt /\ subs \in Seq(Submission) /\ remote \in Seq(Remote)
        /\ Len(remote) = Len(subs) /\ Len(subs) <= MaxSubs
        /\ threads \in [Thread -> ThreadRecord] /\ exec \in Execution
        /\ settled \subseteq Thread /\ spent \in [Counters -> Nat]
        /\ scan \in [status : {"queued", "running", "complete", "failed", "superseded"},
                     cursor : 0 .. Threads]
    BY DEF TypeOK
  <1>2. /\ Len(subs) \in Nat /\ DOMAIN subs = 1 .. Len(subs) /\ DOMAIN remote = 1 .. Len(remote)
        /\ \A i \in 1 .. Len(subs) : subs[i] \in Submission /\ remote[i] \in Remote
    BY <1>1
  <1>3. SubId1 \subseteq SubId /\ SubId1 \subseteq Nat
    BY <1>1, <1>2, ConstantsTyped DEF SubId1, SubId
  <1>4. /\ scan.cursor \in 0 .. Threads /\ scan.cursor \in Nat
        /\ scan.status \in {"queued", "running", "complete", "failed", "superseded"}
    BY <1>1, ConstantsTyped
  <1>. QED  BY <1>1, <1>2, <1>3, <1>4 DEF SubId1

\* A step that leaves batches, threads and bounds alone.
LEMMA NothingGrows ==
    ASSUME TypeOK, UNCHANGED <<subs, remote, threads, spent>>
    PROVE  Grown /\ Monotone
  <1>1. \A e \in Entry : Stale(e) => Stale(e)'  BY DEF Stale
  <1>2. Len(subs) <= Len(subs')  BY Typed
  <1>. QED  BY <1>1, <1>2 DEF Grown, Monotone

\* A bound is used.
LEMMA SpendIs ==
    ASSUME TypeOK, NEW c \in Counters, NEW bound, Spend(c, bound)
    PROVE  /\ spent' \in [Counters -> Nat] /\ spent'[c] > 0
           /\ \A d \in Counters : d # c => spent'[d] = spent[d]
           /\ Grown
  <1>1. spent \in [Counters -> Nat] /\ spent' = [spent EXCEPT ![c] = @ + 1]
    BY Typed DEF Spend
  <1>2. spent[c] \in Nat /\ spent'[c] = spent[c] + 1 /\ spent' \in [Counters -> Nat]
    BY <1>1
  <1>3. \A d \in Counters : d # c => spent'[d] = spent[d]  BY <1>1
  <1>. QED  BY <1>2, <1>3 DEF Grown

\* Nothing has gone astray while three bounds are untouched.
LEMMA AstrayIs ==
    ASSUME TypeOK
    PROVE  ~Astray <=> spent["deaths"] = 0 /\ spent["timeouts"] = 0 /\ spent["skipped"] = 0
  <1>1. spent["deaths"] \in Nat /\ spent["timeouts"] \in Nat /\ spent["skipped"] \in Nat
    BY Typed DEF Counters
  <1>. QED  BY <1>1 DEF Astray

\* What has not gone astray had not before.
LEMMA CalmBefore ==
    ASSUME TypeOK, TypeOK', Grown, ~Astray'
    PROVE  ~Astray
  <1>1. spent'["deaths"] = 0 /\ spent'["timeouts"] = 0 /\ spent'["skipped"] = 0
    <2>1. spent'["deaths"] \in Nat /\ spent'["timeouts"] \in Nat /\ spent'["skipped"] \in Nat
      BY DEF TypeOK, Counters
    <2>. QED  BY <2>1 DEF Astray
  <1>. QED  BY <1>1, AstrayIs DEF Grown, Counters

\* What an attempt has found stays true.
LEMMA StaysSound ==
    ASSUME TypeOK, TypeOK', Monotone, NEW a \in Attempt, Sound(a)
    PROVE  Sound(a)'
  <1>1. Len(subs) \in Nat /\ Len(subs') \in Nat /\ Len(subs) <= Len(subs')
    BY Typed DEF Monotone, TypeOK
  <1>2. SubId1 \subseteq SubId1'  BY <1>1 DEF SubId1
  <1>3. \A e \in a.entries : e \in Entry  BY AttemptTyped
  <1>4. spent'["changes"] = 0 => spent["changes"] = 0
    BY DEF Monotone, Grown, Counters
  <1>5. \A e \in a.entries : Stale(e)'  BY <1>3 DEF Monotone, Sound
  <1>6. /\ a.at \in Sending \/ a.kind = "finalize" => a.sub \in SubId1
        /\ a.at \in {"record", "batch", "recordBatch"} => remote[a.sub].files # {}
        /\ a.at = "recordBatch" \/ a.kind = "finalize" => remote[a.sub].batch # "none"
        /\ a.at = "apply" => remote[a.sub].batch \in States
        /\ a.at \in {"read", "apply"} => a.kind = "finalize"
    BY DEF Sound, Sent
  <1>7. /\ a.at \in {"record", "batch", "recordBatch"} => remote'[a.sub].files # {}
        /\ a.at = "recordBatch" \/ a.kind = "finalize" => remote'[a.sub].batch # "none"
        /\ a.at = "apply" => remote'[a.sub].batch \in States
    BY <1>6 DEF Monotone, Sending
  <1>8. a.at = "report" /\ a.outcome.status = "submitted" =>
           a.outcome.sub \in SubId1' /\ remote'[a.outcome.sub].batch # "none"
    BY <1>2 DEF Monotone, Sound, Sent
  <1>9. Proper(a.scope) /\ Proper(a.outcome.scope) /\ Small(ThreadsOf(a.entries))
    BY DEF Sound
  <1>10. Proper(a.scope)' /\ Proper(a.outcome.scope)' /\ Small(ThreadsOf(a.entries))'
    BY <1>9 DEF Proper, Fitting, Small, ThreadsOf
  <1>. QED  BY <1>2, <1>4, <1>5, <1>6, <1>7, <1>8, <1>10 DEF Sound, Sent

\* Attempts go on, and new ones are sound.
LEMMA AttemptsGo ==
    ASSUME TypeOK, TypeOK', Monotone, Attempts, NEW B, work' \subseteq work \union B,
           \A b \in B : Sound(b)'
    PROVE  Attempts'
  <1>1. ASSUME NEW a \in work' PROVE Sound(a)'
    <2>1. CASE a \in B  BY <2>1
    <2>2. CASE a \notin B  BY <2>2, StaysSound, Typed DEF Attempts
    <2>. QED  BY <2>1, <2>2
  <1>. QED  BY <1>1 DEF Attempts

\* A submission that keeps its plan.
SamePlan(i) == /\ subs'[i].retry = subs[i].retry /\ subs'[i].conts = subs[i].conts
               /\ subs'[i].manifest = subs[i].manifest

\* It keeps its plan while threads stay as they are.
LEMMA StaysPlanned ==
    ASSUME TypeOK, TypeOK', UNCHANGED threads, Grown, Len(subs') = Len(subs),
           NEW i \in SubId1, SamePlan(i), i \in Active' => i \in Active, Planned(i)
    PROVE  Planned(i)'
  <1>1. spent'["changes"] = 0 => spent["changes"] = 0  BY DEF Grown, Counters
  <1>2. \A e : (Stale(e) <=> Stale(e)') /\ (Unchanged(e) <=> Unchanged(e)')
    BY DEF Stale, Unchanged
  <1>. QED  BY <1>1, <1>2 DEF Planned, SamePlan, Small, Fitting

\* Submissions that a step leaves alone.
LEMMA SubmissionsStay ==
    ASSUME TypeOK, TypeOK', UNCHANGED <<subs, remote, threads>>, Grown, Submissions
    PROVE  Submissions'
  <1>1. ASSUME NEW i \in SubId1 PROVE Planned(i)' /\ Handed(i)'
    <2>1. Planned(i) /\ Handed(i)  BY DEF Submissions
    <2>2. Planned(i)'  BY <2>1, StaysPlanned DEF SamePlan, Active
    <2>. QED  BY <2>1, <2>2 DEF Handed, Sent
  <1>. QED  BY <1>1 DEF Submissions, SubId1

\* An Execution that a step leaves alone.
LEMMA DrivenStays ==
    ASSUME TypeOK, TypeOK', Monotone, UNCHANGED exec, Driven
    PROVE  Driven'
  <1>1. Len(subs) \in Nat /\ Len(subs') \in Nat /\ Len(subs) <= Len(subs')
    BY Typed DEF Monotone, TypeOK
  <1>2. SubId1 \subseteq SubId1'  BY <1>1 DEF SubId1
  <1>3. spent["deaths"] > 0 => spent'["deaths"] > 0
    <2>1. spent["deaths"] \in Nat /\ spent'["deaths"] \in Nat
      BY DEF TypeOK, Counters
    <2>. QED  BY <2>1 DEF Monotone, Grown, Counters
  <1>4. exec.at \in {"wait", "finalize"} => Sent(exec.sub)'
    BY DEF Driven, Monotone, Sent
  <1>. QED  BY <1>2, <1>3, <1>4 DEF Driven, Proper, Fitting, Small

\* An attempt is replaced by at most one.
LEMMA SequentialGoes ==
    ASSUME Sequential, Grown, NEW a \in work, NEW B, work' = (work \ {a}) \union B,
           \A b, c \in B : b = c, \A b \in B : spent'["timeouts"] = 0 => Alone(b)'
    PROVE  Sequential'
  <1>1. spent'["timeouts"] = 0 => spent["timeouts"] = 0  BY DEF Grown, Counters
  <1>2. ASSUME spent'["timeouts"] = 0, NEW b \in work', NEW c \in work' PROVE b = c /\ Alone(b)'
    <2>1. work \subseteq {a}  BY <1>1, <1>2 DEF Sequential
    <2>2. b \in B /\ c \in B  BY <2>1
    <2>. QED  BY <2>2, <1>2
  <1>. QED  BY <1>2 DEF Sequential

\* Attempts that end leave at most one.
LEMMA SequentialStays ==
    ASSUME Sequential, Grown, work' \subseteq work, UNCHANGED <<exec, subs, remote>>
    PROVE  Sequential'
  <1>1. spent'["timeouts"] = 0 => spent["timeouts"] = 0  BY DEF Grown, Counters
  <1>. QED  BY <1>1 DEF Sequential, Alone, Sent

\* What was over stays over.
LEMMA OneBatchStays ==
    ASSUME TypeOK, TypeOK', Submissions, OneBatch, Grown, Len(subs') = Len(subs), Open' => Open,
           \A i \in SubId1 :
              \/ remote'[i].batch = remote[i].batch
              \/ remote[i].batch \notin States /\ (remote[i].batch = "none" =>
                     \E a \in work : a.at \in Sending /\ a.sub = i)
              \/ remote[i].batch \in States /\ remote'[i].batch \in States,
           \A i \in Active : Open' => i \in Active',
           \A b \in work' : b.at \in Sending =>
              b.sub \in Active \/ \E a \in work : a.at \in Sending /\ a.sub = b.sub
    PROVE  OneBatch'
  <1> SUFFICES ASSUME spent'["timeouts"] = 0 \/ spent'["changes"] = 0,
                      NEW i \in SubId1', i < Len(subs') \/ (Open' /\ i \notin Active')
               PROVE  Over(i)'
    BY DEF OneBatch
  <1>1. spent["timeouts"] = 0 \/ spent["changes"] = 0  BY DEF Grown, Counters
  <1>2. i \in SubId1 /\ (i < Len(subs) \/ (Open /\ i \notin Active))
    BY DEF SubId1
  <1>3. Over(i)  BY <1>1, <1>2 DEF OneBatch
  <1>4. i \notin Active
    <2>1. SUFFICES ASSUME i \in Active PROVE FALSE  OBVIOUS
    <2>2. i = Len(subs)  BY <1>2, <2>1 DEF Submissions, Planned
    <2>3. ~(i < Len(subs))  BY <2>2, Typed
    <2>. QED  BY <2>1, <2>3
  <1>5. CASE remote[i].batch \in States
    <2>1. remote'[i].batch \in States  BY <1>2, <1>5
    <2>. QED  BY <2>1 DEF Over
  <1>6. CASE remote[i].batch = "none" /\ \A a \in work : a.at \in Sending => a.sub # i
    <2>1. "none" \notin States  BY DEF States
    <2>2. remote'[i].batch = "none"  BY <1>2, <1>6, <2>1
    <2>3. \A b \in work' : b.at \in Sending => b.sub # i  BY <1>4, <1>6
    <2>. QED  BY <2>2, <2>3 DEF Over
  <1>. QED  BY <1>3, <1>5, <1>6 DEF Over

\* What was in its place stays in it.
LEMMA PlacedStays ==
    ASSUME TypeOK, TypeOK', Placed, Grown, Open' => Open, scan'.cursor = scan.cursor,
           settled \subseteq settled', UNCHANGED exec, Len(subs') = Len(subs),
           \A i \in Active' : i \in Active /\ SamePlan(i),
           \A a \in work : Closing(a) /\ ~Astray' /\ exec.at \in {"none", "submit"} =>
              \E b \in work' : Closing(b),
           \A b \in work' : Going(b) => b \in work
    PROVE  Placed'
  <1> SUFFICES ASSUME ~Astray', Open' PROVE
        /\ exec.at \in {"none", "submit"} /\ ~(\E a \in work' : Closing(a)) =>
              \A t \in Left' : Covers(exec.scope, t)'
        /\ \A a \in work' : Going(a) => \A t \in Left' : Covers(a.outcome.scope, t)'
        /\ \A i \in Active' : Holds(i)'
    BY DEF Placed
  <1>1. ~Astray /\ Open  BY CalmBefore
  <1>2. Left' \subseteq Left  BY DEF Left
  <1>3. \A s, t : Covers(s, t) => Covers(s, t)'  BY DEF Covers, In
  <1>4. exec.at \in {"none", "submit"} /\ ~(\E a \in work' : Closing(a)) =>
           \A t \in Left' : Covers(exec.scope, t)'
    BY <1>1, <1>2, <1>3 DEF Placed
  <1>5. \A a \in work' : Going(a) => \A t \in Left' : Covers(a.outcome.scope, t)'
    BY <1>1, <1>2, <1>3 DEF Placed
  <1>6. ASSUME NEW i \in Active' PROVE Holds(i)'
    <2>1. Holds(i) /\ SamePlan(i)  BY <1>1, <1>6 DEF Placed
    <2>. QED  BY <2>1, <1>2 DEF Holds, SamePlan, In
  <1>. QED  BY <1>4, <1>5, <1>6

\* The attempt the Execution waits for is replaced by at most one.
LEMMA LedGoes ==
    ASSUME Led, NEW a \in work, NEW B, work' = (work \ {a}) \union B, UNCHANGED exec,
           \A b, c \in B : b = c, \A b \in B : Like(b, a)
    PROVE  Led'
  <1>1. ASSUME NEW b \in work', b.live, NEW c \in work', c.live PROVE b = c
    <2>1. CASE b \in B /\ c \in B  BY <2>1
    <2>2. CASE b \in B /\ c \notin B
      <3>1. a.live /\ c \in work /\ c # a  BY <2>2, <1>1 DEF Like
      <3>. QED  BY <3>1, <1>1 DEF Led
    <2>3. CASE b \notin B /\ c \in B
      <3>1. a.live /\ b \in work /\ b # a  BY <2>3, <1>1 DEF Like
      <3>. QED  BY <3>1, <1>1 DEF Led
    <2>4. CASE b \notin B /\ c \notin B  BY <2>4, <1>1 DEF Led
    <2>. QED  BY <2>1, <2>2, <2>3, <2>4
  <1>2. ASSUME NEW b \in work', b.live PROVE b.kind = exec'.at /\ b.scope = exec'.scope
    <2>1. CASE b \in B  BY <2>1, <1>2 DEF Like, Led
    <2>2. CASE b \notin B  BY <2>2, <1>2 DEF Led
    <2>. QED  BY <2>1, <2>2
  <1>. QED  BY <1>1, <1>2 DEF Led

\* Attempts that end leave the others led.
LEMMA LedStays ==
    ASSUME Led, work' \subseteq work, UNCHANGED exec
    PROVE  Led'
BY DEF Led

\* Attempts that are to ask about threads as they are.
LEMMA FreshStays ==
    ASSUME Fresh, Grown, UNCHANGED threads, \A i \in Active' : i \in Active,
           \A b \in work' : b.at \in {"file", "prepare"} /\ b.sub \in Active' =>
              \/ \E c \in work : c.at \in {"file", "prepare"} /\ c.sub = b.sub /\ c.entries = b.entries
              \/ spent'["changes"] = 0 => \A e \in b.entries : Unchanged(e)
    PROVE  Fresh'
  <1> SUFFICES ASSUME spent'["changes"] = 0, NEW b \in work', b.at \in {"file", "prepare"}, b.sub \in Active'
               PROVE  \A e \in b.entries : Unchanged(e)'
    BY DEF Fresh
  <1>1. spent["changes"] = 0  BY DEF Grown, Counters
  <1>2. \A e \in b.entries : Unchanged(e)  BY <1>1 DEF Fresh
  <1>. QED  BY <1>2 DEF Unchanged
-----------------------------------------------------------------------------
(* Steps of an attempt that only carry its work on.                        *)

Carried ==
    /\ UNCHANGED <<threads, exec, settled, spent>>
    /\ scan'.cursor = scan.cursor /\ (Open' => Open) /\ Len(subs') = Len(subs)
    /\ \A i \in SubId1 : SamePlan(i) /\ (i \in Active' <=> i \in Active)
    /\ \A i \in SubId1 : /\ remote[i].files # {} => remote'[i].files # {}
                         /\ remote[i].batch # "none" => remote'[i].batch = remote[i].batch

\* An attempt a carries on as B, or throws.
LEMMA CarriesOn ==
    ASSUME IInv, TypeOK', Carried, NEW a \in work, NEW B, work' = (work \ {a}) \union B,
           a.at # "report", \A b, c \in B : b = c,
           \A i \in SubId1 : Handed(i)' /\ (remote'[i].batch # remote[i].batch => a.at \in Sending /\ a.sub = i),
           \A b \in B : /\ Sound(b)' /\ ~Going(b) /\ Like(b, a)
                        /\ b.at \in Sending => b.sub \in Active \/ (a.at \in Sending /\ a.sub = b.sub)
                        /\ b.at = "prepare" => ~Sent(b.sub)' /\ b.file = ThreadsOf(subs'[b.sub].manifest)
                        /\ b.at \in {"file", "prepare"} =>
                              \/ a.at = "file" /\ b.sub = a.sub /\ b.entries = a.entries
                              \/ b.entries \subseteq subs'[b.sub].manifest
    PROVE  IInv'
  <1>1. TypeOK /\ Attempts /\ Submissions /\ Driven /\ Led /\ Sequential /\ Fresh /\ OneBatch /\ Placed
    BY DEF IInv
  <1>2. UNCHANGED <<threads, exec, settled, spent>> /\ Grown /\ Len(subs') = Len(subs)
    BY DEF Carried, Grown
  <1>3. Monotone
    <2>1. \A e \in Entry : Stale(e) => Stale(e)'  BY <1>2 DEF Stale
    <2>2. Len(subs) <= Len(subs')  BY <1>1, <1>2, Typed
    <2>3. \A i \in SubId1 : /\ remote[i].files # {} => remote'[i].files # {}
                            /\ remote[i].batch # "none" => remote'[i].batch # "none"
                            /\ remote[i].batch \in States => remote'[i].batch \in States
      BY DEF Carried, States
    <2>. QED  BY <1>2, <2>1, <2>2, <2>3 DEF Monotone
  <1>4. Attempts'
    <2>1. work' \subseteq work \union B  OBVIOUS
    <2>. QED  BY <1>1, <1>3, <2>1, AttemptsGo
  <1>5. Submissions'
    <2>1. ASSUME NEW i \in SubId1 PROVE Planned(i)'
      BY <1>1, <1>2, StaysPlanned DEF Carried, Submissions
    <2>2. SubId1' = SubId1  BY <1>2 DEF SubId1
    <2>. QED  BY <2>1, <2>2 DEF Submissions
  <1>6. Driven'  BY <1>1, <1>2, <1>3, DrivenStays
  <1>7. Sequential'
    <2>1. ASSUME NEW b \in B, spent'["timeouts"] = 0 PROVE Alone(b)'
      <3>1. Alone(a)  BY <1>1, <1>2, <2>1 DEF Sequential
      <3>2. b.live /\ b.kind = exec.at /\ b.scope = exec.scope
        BY <3>1 DEF Alone, Like
      <3>3. b.at = "prepare" => ~Sent(b.sub)' /\ b.file = ThreadsOf(subs[b.sub].manifest)'
        <4>1. b.at = "prepare" => ~Sent(b.sub)' /\ b.file = ThreadsOf(subs'[b.sub].manifest)
          OBVIOUS
        <4>. QED  BY <4>1 DEF ThreadsOf
      <3>4. b.at \in {"file", "prepare"} => b.entries \subseteq subs'[b.sub].manifest
        <4>1. CASE a.at = "file" /\ b.sub = a.sub /\ b.entries = a.entries
          <5>1. a.sub \in SubId1  BY <1>1, <4>1 DEF Attempts, Sound, Sending
          <5>2. subs'[a.sub].manifest = subs[a.sub].manifest
            BY <5>1 DEF Carried, SamePlan
          <5>3. a.entries \subseteq subs[a.sub].manifest
            BY <3>1, <4>1 DEF Alone
          <5>. QED  BY <4>1, <5>2, <5>3
        <4>. QED  BY <4>1
      <3>. QED  BY <1>2, <3>2, <3>3, <3>4 DEF Alone
    <2>. QED  BY <1>1, <1>2, <2>1, SequentialGoes
  <1>8. OneBatch'
    <2>1. \A i \in SubId1 :
              \/ remote'[i].batch = remote[i].batch
              \/ remote[i].batch \notin States /\ (remote[i].batch = "none" =>
                     \E c \in work : c.at \in Sending /\ c.sub = i)
      BY DEF Carried, States
    <2>2. \A i \in Active : i \in Active'
      <3>1. \A i \in Active : i \in SubId1  BY DEF Active, SubId1
      <3>. QED  BY <3>1 DEF Carried
    <2>3. \A b \in work' : b.at \in Sending =>
              b.sub \in Active \/ \E c \in work : c.at \in Sending /\ c.sub = b.sub
      OBVIOUS
    <2>4. Open' => Open  BY DEF Carried
    <2>. QED  BY <1>1, <1>2, <2>1, <2>2, <2>3, <2>4, OneBatchStays
  <1>9. Placed'
    <2>1. \A i \in Active' : i \in Active /\ SamePlan(i)
      <3>1. \A i \in Active' : i \in SubId1  BY <1>2 DEF Active, SubId1
      <3>. QED  BY <3>1 DEF Carried
    <2>2. \A c \in work : Closing(c) => c \in work'  BY DEF Closing
    <2>3. \A b \in work' : Going(b) => b \in work  OBVIOUS
    <2>4. /\ (Open' => Open) /\ scan'.cursor = scan.cursor
          /\ settled \subseteq settled' /\ UNCHANGED exec
      BY <1>2 DEF Carried
    <2>5. ASSUME NEW c \in work, Closing(c) PROVE \E b \in work' : Closing(b)
      BY <2>2, <2>5
    <2>. QED  BY <1>1, <1>2, <2>1, <2>3, <2>4, <2>5, PlacedStays
  <1>10. Led'  BY <1>1, <1>2, LedGoes
  <1>11. Fresh'
    <2>1. \A i \in Active' : i \in Active
      <3>1. \A i \in Active' : i \in SubId1  BY <1>2 DEF Active, SubId1
      <3>. QED  BY <3>1 DEF Carried
    <2>2. ASSUME NEW b \in B, b.at \in {"file", "prepare"}, b.sub \in Active'
          PROVE  \/ \E c \in work : c.at \in {"file", "prepare"} /\ c.sub = b.sub /\ c.entries = b.entries
                 \/ spent'["changes"] = 0 => \A e \in b.entries : Unchanged(e)
      <3>1. CASE a.at = "file" /\ b.sub = a.sub /\ b.entries = a.entries
        BY <3>1
      <3>2. CASE b.entries \subseteq subs'[b.sub].manifest
        <4>1. b.sub \in Active /\ b.sub \in SubId1
          BY <2>1, <2>2 DEF Active, SubId1
        <4>2. b.entries \subseteq subs[b.sub].manifest
          BY <3>2, <4>1 DEF Carried, SamePlan
        <4>3. spent["changes"] = 0 => \A e \in subs[b.sub].manifest : Unchanged(e)
          BY <1>1, <4>1 DEF Submissions, Planned
        <4>. QED  BY <1>2, <4>2, <4>3
      <3>. QED  BY <2>2, <3>1, <3>2
    <2>3. ASSUME NEW b \in work', b.at \in {"file", "prepare"}, b.sub \in Active'
          PROVE  \/ \E c \in work : c.at \in {"file", "prepare"} /\ c.sub = b.sub /\ c.entries = b.entries
                 \/ spent'["changes"] = 0 => \A e \in b.entries : Unchanged(e)
      <3>1. CASE b \in B  BY <2>2, <2>3, <3>1
      <3>2. CASE b \notin B  BY <2>3, <3>2
      <3>. QED  BY <3>1, <3>2
    <2>. QED  BY <1>1, <1>2, <2>1, <2>3, FreshStays
  <1>. QED  BY <1>4, <1>5, <1>6, <1>7, <1>8, <1>9, <1>10, <1>11 DEF IInv

\* A scan whose label has changed is superseded where it is read.
LEMMA SupersededIs ==
    ASSUME TypeOK
    PROVE  /\ Superseded \in [status : {"queued", "running", "complete", "failed", "superseded"},
                              cursor : 0 .. Threads]
           /\ Superseded.cursor = scan.cursor
           /\ Superseded.status \in {scan.status, "superseded"}
           /\ scan.status \notin {"queued", "running"} => Superseded.status = scan.status
           /\ Superseded.status # scan.status => scan.status \in {"queued", "running"}
  <1>1. scan \in [status : {"queued", "running", "complete", "failed", "superseded"}, cursor : 0 .. Threads]
    BY DEF TypeOK
  <1> DEFINE x == IF scan.status \in {"queued", "running"} /\ connected /\ ~definition THEN "superseded"
                  ELSE scan.status
  <1>2. x \in {scan.status, "superseded"} /\ (x # scan.status => scan.status \in {"queued", "running"})
    OBVIOUS
  <1>3. Superseded = [scan EXCEPT !.status = x]  BY DEF Superseded
  <1> HIDE DEF x
  <1>. QED  BY <1>1, <1>2, <1>3

\* An attempt goes on and the submissions stay as they are.
LEMMA WorkCarriesOn ==
    ASSUME IInv, TypeOK', UNCHANGED <<threads, subs, remote, exec, settled, spent>>,
           scan' \in {scan, Superseded}, NEW a \in work, NEW b \in Attempt, work' = (work \ {a}) \union {b},
           a.at # "report", Like(b, a), Sound(b), ~Going(b),
           b.at \in Sending => b.sub \in Active \/ (a.at \in Sending /\ a.sub = b.sub),
           b.at = "prepare" => ~Sent(b.sub) /\ b.file = ThreadsOf(subs[b.sub].manifest),
           b.at \in {"file", "prepare"} => \/ a.at = "file" /\ b.sub = a.sub /\ b.entries = a.entries
                                           \/ b.entries \subseteq subs[b.sub].manifest
    PROVE  IInv'
  <1> DEFINE B == {b}
  <1>1. TypeOK /\ Submissions  BY DEF IInv
  <1>2. Grown /\ Monotone  BY <1>1, NothingGrows
  <1>3. Sound(b)'  BY <1>1, <1>2, StaysSound
  <1>4. scan'.cursor = scan.cursor /\ (Open' => Open)
    BY <1>1, SupersededIs DEF Open
  <1>5. \A i \in SubId1 : SamePlan(i) /\ (i \in Active' <=> i \in Active)
    BY DEF SamePlan, Active
  <1>6. Carried  BY <1>4, <1>5 DEF Carried
  <1>7. \A i \in SubId1 : Handed(i)' /\ (remote'[i].batch # remote[i].batch => a.at \in Sending /\ a.sub = i)
    BY <1>1 DEF Submissions, Handed, Sent
  <1>8. \A d \in B : /\ Sound(d)' /\ ~Going(d) /\ Like(d, a)
                     /\ d.at \in Sending => d.sub \in Active \/ (a.at \in Sending /\ a.sub = d.sub)
                     /\ d.at = "prepare" => ~Sent(d.sub)' /\ d.file = ThreadsOf(subs'[d.sub].manifest)
                     /\ d.at \in {"file", "prepare"} =>
                           \/ a.at = "file" /\ d.sub = a.sub /\ d.entries = a.entries
                           \/ d.entries \subseteq subs'[d.sub].manifest
    BY <1>3 DEF Sent
  <1>9. work' = (work \ {a}) \union B /\ \A d, e \in B : d = e  OBVIOUS
  <1>. HIDE DEF B
  <1>. QED  BY <1>6, <1>7, <1>8, <1>9, CarriesOn

\* An attempt throws.
LEMMA Throwing ==
    ASSUME IInv, TypeOK', UNCHANGED <<threads, subs, remote, exec, settled, spent>>,
           scan' \in {scan, Superseded}, NEW a \in work, work' = work \ {a}, a.at # "report"
    PROVE  IInv'
  <1> DEFINE B == {}
  <1>1. TypeOK /\ Submissions  BY DEF IInv
  <1>4. scan'.cursor = scan.cursor /\ (Open' => Open)
    BY <1>1, SupersededIs DEF Open
  <1>5. \A i \in SubId1 : SamePlan(i) /\ (i \in Active' <=> i \in Active)
    BY DEF SamePlan, Active
  <1>6. Carried  BY <1>4, <1>5 DEF Carried
  <1>7. \A i \in SubId1 : Handed(i)' /\ (remote'[i].batch # remote[i].batch => a.at \in Sending /\ a.sub = i)
    BY <1>1 DEF Submissions, Handed, Sent
  <1>8. \A d \in B : FALSE  OBVIOUS
  <1>9. work' = (work \ {a}) \union B /\ \A d, e \in B : d = e  OBVIOUS
  <1>. HIDE DEF B
  <1>. QED  BY <1>6, <1>7, <1>8, <1>9, CarriesOn

\* A report that says nothing of threads is sound.
LEMMA SaysSound ==
    ASSUME Attempts, NEW a \in work, NEW b \in Attempt, Like(b, a), b.at = "report", b.sub = a.sub,
           b.entries = a.entries, Proper(b.outcome.scope), b.kind = "finalize" => Sent(b.sub),
           b.outcome.status = "submitted" => b.outcome.sub \in SubId1 /\ Sent(b.outcome.sub),
           b.outcome.status = "pending" => b.kind = "finalize"
    PROVE  Sound(b)
  <1>1. Sound(a)  BY DEF Attempts
  <1>2. Proper(b.scope) /\ (\A e \in b.entries : Stale(e)) /\ Small(ThreadsOf(b.entries))
        /\ (b.kind = "finalize" => b.sub \in SubId1)
    BY <1>1 DEF Sound, Like
  <1>. QED  BY <1>2 DEF Sound, Sending

\* Only the attempts and the scan's status change.
LEMMA TypeOfWork ==
    ASSUME TypeOK, UNCHANGED <<mailbox, subs, remote, offered, exec, settled, spent>>,
           scan' \in {scan, Superseded}, work' \subseteq Attempt
    PROVE  TypeOK'
  <1>1. scan' \in [status : {"queued", "running", "complete", "failed", "superseded"}, cursor : 0 .. Threads]
    BY SupersededIs DEF TypeOK
  <1>. QED  BY <1>1 DEF TypeOK, mailbox

-----------------------------------------------------------------------------
(* Steps of a submit attempt.                                              *)

\* What is known of an attempt and of the submission it works on.
LEMMA AttemptIs ==
    ASSUME IInv, NEW a \in work
    PROVE  /\ a \in Attempt /\ Sound(a)
           /\ (a.at \in Sending \/ a.kind = "finalize" =>
                 a.sub \in SubId1 /\ a.sub \in SubId /\ Planned(a.sub) /\ Handed(a.sub)
                 /\ subs[a.sub] \in Submission /\ remote[a.sub] \in Remote)
  <1>1. TypeOK /\ Attempts /\ Submissions  BY DEF IInv
  <1>2. a \in Attempt /\ Sound(a)  BY <1>1, Typed DEF Attempts
  <1>3. ASSUME a.at \in Sending \/ a.kind = "finalize" PROVE a.sub \in SubId1
    BY <1>2, <1>3 DEF Sound
  <1>. QED  BY <1>1, <1>2, <1>3, Typed DEF Submissions

\* Check answers with a batch that has been sent, or goes on.
LEMMA CheckKeeps ==
    ASSUME IInv, NEW a \in work, Check(a)
    PROVE  IInv'
  <1>1. TypeOK /\ Attempts /\ Submissions  BY DEF IInv
  <1>2. a \in Attempt /\ Sound(a)  BY AttemptIs
  <1>3. /\ a.at = "check"
        /\ UNCHANGED <<mailbox, subs, remote, offered, exec, settled, spent>>
        /\ scan' \in {scan, Superseded}
    BY DEF Check
  <1>4. UNCHANGED <<threads, subs, remote, exec, settled, spent>>
    BY <1>3 DEF mailbox
  <1>5. CASE \E i \in Active : /\ subs[i].status = "submitted" /\ subs[i].batch
                               /\ Reports(a, "submitted", FirstScope, i)
    <2>1. PICK i \in Active : /\ subs[i].status = "submitted" /\ subs[i].batch
                              /\ Reports(a, "submitted", FirstScope, i)
      BY <1>5
    <2>2. i \in SubId1 /\ i \in SubId
      <3>1. i \in SubId1  BY <2>1 DEF Active, SubId1
      <3>. QED  BY <3>1, <1>1, Typed
    <2>3. "submitted" \in Outcomes /\ FirstScope \in Scope /\ Proper(FirstScope)
      BY ScopeTyped DEF Outcomes
    <2>4. PICK b \in Attempt : /\ work' = (work \ {a}) \union {b} /\ Like(b, a)
                               /\ b.at = "report" /\ b.sub = a.sub /\ b.entries = a.entries
                               /\ b.outcome.status = "submitted" /\ b.outcome.scope = FirstScope
                               /\ b.outcome.sub = i
      BY <1>2, <2>1, <2>2, <2>3, ReportsIs
    <2>5. work' \subseteq Attempt  BY <2>4, <1>1, Typed
    <2>6. TypeOK'  BY <1>1, <1>3, <2>5, TypeOfWork
    <2>7. Sent(i)  BY <1>1, <2>1, <2>2 DEF Submissions, Handed
    <2>8. b.kind = "finalize" => Sent(b.sub)  BY <1>2, <2>4 DEF Sound, Like
    <2>9. Sound(b)
      <3>1. /\ b.outcome.status = "submitted" /\ Proper(b.outcome.scope) /\ b.outcome.status # "pending"
            /\ b.outcome.sub \in SubId1 /\ Sent(b.outcome.sub)
        BY <2>2, <2>3, <2>4, <2>7
      <3>. QED  BY <1>1, <2>4, <2>8, <3>1, SaysSound
    <2>10. ~Going(b) /\ b.at \notin Sending  BY <2>4 DEF Going, Sending
    <2>11. b.at # "prepare" /\ b.at \notin {"file", "prepare"}  BY <2>4
    <2>. QED  BY <1>3, <1>4, <2>4, <2>6, <2>9, <2>10, <2>11, WorkCarriesOn
  <1>6. CASE Becomes(a, [a EXCEPT !.at = "claim"])
    <2>1. PICK b \in Attempt : /\ b = [a EXCEPT !.at = "claim"] /\ Like(b, a)
                               /\ b.at = "claim" /\ b.sub = a.sub /\ b.entries = a.entries
                               /\ b.file = a.file /\ b.outcome = a.outcome
      BY <1>2, GoesTo DEF AttemptAt
    <2>2. work' = (work \ {a}) \union {b}  BY <1>6, <2>1 DEF Becomes
    <2>3. work' \subseteq Attempt  BY <2>2, <1>1, Typed
    <2>4. TypeOK'  BY <1>1, <1>3, <2>3, TypeOfWork
    <2>5. Sound(b)  BY <1>2, <1>3, <2>1 DEF Sound, Like, Sending
    <2>6. ~Going(b) /\ b.at \notin Sending /\ b.at \notin {"file", "prepare"} /\ b.at # "prepare"
      BY <2>1 DEF Going, Sending
    <2>. QED  BY <1>3, <1>4, <2>1, <2>2, <2>4, <2>5, <2>6, WorkCarriesOn
  <1>. QED  BY <1>5, <1>6 DEF Check

\* A step that only reports that nothing further happens.
LEMMA ReportCarriesOn ==
    ASSUME IInv, UNCHANGED <<mailbox, subs, remote, offered, exec, settled, spent>>,
           scan' \in {scan, Superseded}, NEW a \in work, a.at # "report",
           NEW status \in Outcomes \ {"submitted", "skipped", "finalized"},
           Reports(a, status, FirstScope, 0), status = "pending" => a.kind = "finalize"
    PROVE  IInv'
  <1>1. TypeOK /\ Attempts /\ Submissions  BY DEF IInv
  <1>2. a \in Attempt /\ Sound(a)  BY AttemptIs
  <1>3. UNCHANGED <<threads, subs, remote, exec, settled, spent>>
    BY DEF mailbox
  <1>4. status \in Outcomes /\ FirstScope \in Scope /\ Proper(FirstScope) /\ 0 \in SubId
    BY ScopeTyped, ConstantsTyped DEF SubId
  <1>5. PICK b \in Attempt : /\ work' = (work \ {a}) \union {b} /\ Like(b, a)
                             /\ b.at = "report" /\ b.sub = a.sub /\ b.entries = a.entries
                             /\ b.outcome.status = status /\ b.outcome.scope = FirstScope
                             /\ b.outcome.sub = 0
    BY <1>2, <1>4, ReportsIs
  <1>6. work' \subseteq Attempt  BY <1>5, <1>1, Typed
  <1>7. TypeOK'  BY <1>1, <1>6, TypeOfWork
  <1>8. b.kind = "finalize" => Sent(b.sub)  BY <1>2, <1>5 DEF Sound, Like
  <1>9. Sound(b)
    <2>1. /\ b.outcome.status # "submitted" /\ Proper(b.outcome.scope)
          /\ b.outcome.status = "pending" => b.kind = "finalize"
      BY <1>4, <1>5 DEF Like
    <2>. QED  BY <1>1, <1>5, <1>8, <2>1, SaysSound
  <1>10. ~Going(b) /\ b.at \notin Sending /\ b.at \notin {"file", "prepare"} /\ b.at # "prepare"
    BY <1>5 DEF Going, Sending
  <1>. QED  BY <1>3, <1>5, <1>7, <1>9, <1>10, WorkCarriesOn

\* Claim finds the scan gone, or a batch that is out.
LEMMA ClaimSupersededKeeps ==
    ASSUME IInv, NEW a \in work, a.at = "claim", ClaimSuperseded(a),
           UNCHANGED <<mailbox, offered, exec, spent>>
    PROVE  IInv'
  <1>1. /\ UNCHANGED <<mailbox, subs, remote, offered, exec, settled, spent>>
        /\ scan' \in {scan, Superseded} /\ Reports(a, "superseded", FirstScope, 0)
    BY DEF ClaimSuperseded
  <1>2. "superseded" \in Outcomes \ {"submitted", "skipped", "finalized"} /\ "superseded" # "pending"
    BY DEF Outcomes
  <1>. QED  BY <1>1, <1>2, ReportCarriesOn

\* Claim takes up the submission an earlier attempt has left.
LEMMA ClaimResumedKeeps ==
    ASSUME IInv, NEW a \in work, a.at = "claim", ClaimResumed(a),
           UNCHANGED <<mailbox, offered, exec, spent>>
    PROVE  IInv'
  <1>1. TypeOK /\ Attempts /\ Submissions  BY DEF IInv
  <1>2. a \in Attempt /\ Sound(a)  BY AttemptIs
  <1>3. /\ UNCHANGED <<mailbox, subs, remote, offered, exec, settled, spent>>
        /\ scan' \in {scan, Superseded}
    BY DEF ClaimResumed
  <1>4. UNCHANGED <<threads, subs, remote, exec, settled, spent>>
    BY <1>3 DEF mailbox
  <1>5. PICK i \in Resumed :
            Becomes(a, [a EXCEPT !.at = "file", !.sub = i, !.entries = Hydrated(subs[i].manifest)])
    BY DEF ClaimResumed
  <1>6. i \in Active /\ i \in SubId1 /\ i \in SubId
    <2>1. i \in Active /\ i \in SubId1  BY DEF Resumed, Active, SubId1
    <2>. QED  BY <2>1, <1>1, Typed
  <1>7. subs[i] \in Submission /\ Planned(i)
    BY <1>1, <1>6, Typed DEF Submissions
  <1>18. PICK E : E = Hydrated(subs[i].manifest)  OBVIOUS
  <1>8. E \subseteq subs[i].manifest /\ E \in SUBSET Entry
    BY <1>7, <1>18, SubmissionTyped DEF Hydrated
  <1>0. Becomes(a, [a EXCEPT !.at = "file", !.sub = i, !.entries = E])
    BY <1>5, <1>18
  <1>19. PICK b : b = [a EXCEPT !.at = "file", !.sub = i, !.entries = E]
    OBVIOUS
  <1>9. /\ b \in Attempt /\ Like(b, a) /\ b.at = "file" /\ b.sub = i /\ b.entries = E
        /\ b.file = a.file /\ b.outcome = a.outcome
    <2>1. a \in Attempt  BY <1>2
    <2>2. i \in SubId  BY <1>6
    <2>3. E \in SUBSET Entry  BY <1>8
    <2>. QED  BY <2>1, <2>2, <2>3, <1>19 DEF Attempt, Like
  <1>10. work' = (work \ {a}) \union {b}  BY <1>0, <1>19 DEF Becomes
  <1>11. work' \subseteq Attempt  BY <1>9, <1>10, <1>1, Typed
  <1>12. TypeOK'  BY <1>1, <1>3, <1>11, TypeOfWork
  <1>13. spent["changes"] = 0 => b.entries # {}
    <2>1. spent["changes"] = 0 => E # {}
      BY <1>6, <1>7, <1>18 DEF Planned, Hydrated
    <2>. QED  BY <2>1, <1>9
  <1>14. \A e \in b.entries : Stale(e)  BY <1>7, <1>8, <1>9 DEF Planned
  <1>20. Small(ThreadsOf(b.entries))
    <2>1. ThreadsOf(b.entries) \subseteq ThreadsOf(subs[i].manifest)
      BY <1>8, <1>9 DEF ThreadsOf
    <2>. QED  BY <1>7, <2>1, SmallSubset, SubmissionTyped DEF Planned
  <1>15. b.kind = "submit" /\ Proper(b.scope) /\ Proper(b.outcome.scope)
    BY <1>2, <1>9 DEF Sound, Like
  <1>16. Sound(b)  BY <1>6, <1>9, <1>13, <1>14, <1>15, <1>20 DEF Sound, Sending
  <1>17. ~Going(b) /\ b.at # "prepare" /\ b.sub \in Active /\ b.entries \subseteq subs[b.sub].manifest
    BY <1>6, <1>8, <1>9 DEF Going
  <1>. QED  BY <1>3, <1>4, <1>9, <1>10, <1>12, <1>16, <1>17, WorkCarriesOn

\* Read ends, waits on, or goes on to apply.
LEMMA ReadKeeps ==
    ASSUME IInv, NEW a \in work, Read(a)
    PROVE  IInv'
  <1>1. TypeOK /\ Attempts /\ Submissions  BY DEF IInv
  <1>2. a \in Attempt /\ Sound(a)  BY AttemptIs
  <1>3. /\ a.at = "read"
        /\ UNCHANGED <<mailbox, subs, remote, offered, exec, settled, spent>>
        /\ scan' \in {scan, Superseded}
    BY DEF Read
  <1>4. UNCHANGED <<threads, subs, remote, exec, settled, spent>>
    BY <1>3 DEF mailbox
  <1>5. CASE Reports(a, "ended", FirstScope, 0)
    <2>1. "ended" \in Outcomes \ {"submitted", "skipped", "finalized"} /\ "ended" # "pending"
      BY DEF Outcomes
    <2>. QED  BY <1>3, <1>5, <2>1, ReportCarriesOn
  <1>6. CASE Reports(a, "pending", FirstScope, 0)
    <2>1. "pending" \in Outcomes \ {"submitted", "skipped", "finalized"} /\ a.kind = "finalize"
      BY <1>2, <1>3 DEF Outcomes, Sound
    <2>. QED  BY <1>3, <1>6, <2>1, ReportCarriesOn
  <1>7. CASE remote[a.sub].batch # "running" /\ Becomes(a, [a EXCEPT !.at = "apply"])
    <2>1. PICK b \in Attempt : /\ b = [a EXCEPT !.at = "apply"] /\ Like(b, a)
                               /\ b.at = "apply" /\ b.sub = a.sub /\ b.entries = a.entries
                               /\ b.file = a.file /\ b.outcome = a.outcome
      BY <1>2, GoesTo DEF AttemptAt
    <2>2. work' = (work \ {a}) \union {b}  BY <1>7, <2>1 DEF Becomes
    <2>3. work' \subseteq Attempt  BY <2>2, <1>1, Typed
    <2>4. TypeOK'  BY <1>1, <1>3, <2>3, TypeOfWork
    <2>5. a.kind = "finalize" /\ a.sub \in SubId1 /\ Sent(a.sub) /\ remote[a.sub] \in Remote
      <3>1. a.kind = "finalize"  BY <1>2, <1>3 DEF Sound
      <3>. QED  BY <3>1, <1>2, AttemptIs DEF Sound
    <2>6. remote[a.sub].batch \in States  BY <2>5, <1>7 DEF Sent, Remote, States
    <2>7. Sound(b)  BY <1>2, <2>1, <2>5, <2>6 DEF Sound, Like, Sending
    <2>8. ~Going(b) /\ b.at \notin Sending /\ b.at \notin {"file", "prepare"} /\ b.at # "prepare"
      BY <2>1 DEF Going, Sending
    <2>. QED  BY <1>3, <1>4, <2>1, <2>2, <2>4, <2>7, <2>8, WorkCarriesOn
  <1>. QED  BY <1>5, <1>6, <1>7 DEF Read

\* A submission whose file is recorded, or whose batch is.
LEMMA SubmissionPut ==
    ASSUME TypeOK, NEW i \in SubId1, NEW s \in Submission, subs' = [subs EXCEPT ![i] = s],
           s.retry = subs[i].retry, s.conts = subs[i].conts, s.manifest = subs[i].manifest,
           s.status \in {"preparing", "submitted"} <=> subs[i].status \in {"preparing", "submitted"}
    PROVE  /\ subs' \in Seq(Submission) /\ Len(subs') = Len(subs)
           /\ subs'[i] = s /\ \A j \in SubId1 : j # i => subs'[j] = subs[j]
           /\ \A j \in SubId1 : SamePlan(j) /\ (j \in Active' <=> j \in Active)
  <1>1. subs \in Seq(Submission) /\ i \in 1 .. Len(subs)  BY Typed DEF SubId1
  <1>2. /\ subs' \in Seq(Submission) /\ Len(subs') = Len(subs)
        /\ subs'[i] = s /\ \A j \in SubId1 : j # i => subs'[j] = subs[j]
    BY <1>1, PutTyped DEF SubId1
  <1>3. ASSUME NEW j \in SubId1 PROVE SamePlan(j) /\ (j \in Active' <=> j \in Active)
    <2>1. CASE j = i  BY <2>1, <1>2 DEF SamePlan, Active, SubId1
    <2>2. CASE j # i  BY <2>2, <1>2 DEF SamePlan, Active, SubId1
    <2>. QED  BY <2>1, <2>2
  <1>. QED  BY <1>2, <1>3

\* The file of an upload is recorded.
LEMMA RecordsFile ==
    ASSUME IInv, NEW a \in work, a.at \in {"file", "record"}, subs[a.sub].status = "preparing",
           remote[a.sub].files # {}, NEW f \in SUBSET Thread, subs' = [subs EXCEPT ![a.sub].file = f],
           work' = (work \ {a}) \union {[a EXCEPT !.at = "batch", !.file = f]},
           UNCHANGED <<mailbox, scan, remote, offered, exec, settled, spent>>
    PROVE  IInv'
  <1>1. TypeOK /\ Attempts /\ Submissions  BY DEF IInv
  <1>2. /\ a \in Attempt /\ Sound(a) /\ a.at \in Sending /\ a.sub \in SubId1
        /\ subs[a.sub] \in Submission /\ Handed(a.sub)
    BY AttemptIs DEF Sending
  <1>3. PICK s : s = [subs[a.sub] EXCEPT !.file = f]  OBVIOUS
  <1>4. /\ s \in Submission /\ s.retry = subs[a.sub].retry /\ s.conts = subs[a.sub].conts
        /\ s.manifest = subs[a.sub].manifest /\ s.status = "preparing" /\ s.batch = subs[a.sub].batch
    BY <1>2, <1>3 DEF Submission
  <1>5. subs' = [subs EXCEPT ![a.sub] = s]  BY <1>3
  <1>6. /\ subs' \in Seq(Submission) /\ Len(subs') = Len(subs)
        /\ subs'[a.sub] = s /\ \A j \in SubId1 : j # a.sub => subs'[j] = subs[j]
        /\ \A j \in SubId1 : SamePlan(j) /\ (j \in Active' <=> j \in Active)
    <2>1. s.status \in {"preparing", "submitted"} <=> subs[a.sub].status \in {"preparing", "submitted"}
      BY <1>4
    <2>. QED  BY <1>1, <1>2, <1>4, <1>5, <2>1, SubmissionPut
  <1>7. PICK b : b = [a EXCEPT !.at = "batch", !.file = f]  OBVIOUS
  <1>8. /\ b \in Attempt /\ Like(b, a) /\ b.at = "batch" /\ b.sub = a.sub /\ b.entries = a.entries
        /\ b.file = f /\ b.outcome = a.outcome
    BY <1>2, <1>7 DEF Attempt, Like
  <1> DEFINE B == {b}
  <1>9. work' = (work \ {a}) \union B /\ work' \subseteq Attempt
    BY <1>1, <1>7, <1>8, Typed
  <1>10. TypeOK'  BY <1>1, <1>6, <1>9 DEF TypeOK, mailbox
  <1>11. UNCHANGED <<threads, exec, settled, spent, remote, scan>>
    BY DEF mailbox
  <1>12. Carried  BY <1>6, <1>11 DEF Carried, Open
  <1>13. \A i \in SubId1 : Handed(i)' /\ (remote'[i].batch # remote[i].batch => a.at \in Sending /\ a.sub = i)
    <2>1. ASSUME NEW i \in SubId1 PROVE Handed(i)'
      <3>1. CASE i = a.sub  BY <3>1, <1>2, <1>4, <1>6 DEF Handed, Sent
      <3>2. CASE i # a.sub  BY <3>2, <1>1, <1>6 DEF Submissions, Handed, Sent
      <3>. QED  BY <3>1, <3>2
    <2>. QED  BY <2>1
  <1>14. Sound(b)'
    <2>1. Sound(b)  BY <1>2, <1>8 DEF Sound, Like, Sending
    <2>2. Monotone
      <3>1. \A e \in Entry : Stale(e) => Stale(e)'  BY <1>11 DEF Stale
      <3>. QED  BY <1>1, <1>6, <1>11, <3>1, Typed DEF Monotone, Grown
    <2>. QED  BY <1>1, <1>8, <1>10, <2>1, <2>2, StaysSound
  <1>15. ~Going(b) /\ b.at # "prepare" /\ b.at \notin {"file", "prepare"}
    BY <1>8 DEF Going
  <1>16. \A d \in B : /\ Sound(d)' /\ ~Going(d) /\ Like(d, a)
                      /\ d.at \in Sending => d.sub \in Active \/ (a.at \in Sending /\ a.sub = d.sub)
                      /\ d.at = "prepare" => ~Sent(d.sub)' /\ d.file = ThreadsOf(subs'[d.sub].manifest)
                      /\ d.at \in {"file", "prepare"} =>
                            \/ a.at = "file" /\ d.sub = a.sub /\ d.entries = a.entries
                            \/ d.entries \subseteq subs'[d.sub].manifest
    BY <1>2, <1>8, <1>14, <1>15
  <1>17. \A d, e \in B : d = e  OBVIOUS
  <1>18. a.at # "report"  OBVIOUS
  <1>. HIDE DEF B
  <1>. QED  BY <1>9, <1>10, <1>12, <1>13, <1>16, <1>17, <1>18, CarriesOn

\* File finds the file, or goes on to prepare one.
LEMMA FileKeeps ==
    ASSUME IInv, NEW a \in work, File(a)
    PROVE  IInv'
  <1>1. TypeOK /\ Attempts /\ Submissions  BY DEF IInv
  <1>2. a.at = "file" /\ UNCHANGED <<mailbox, scan, remote, offered, exec, settled, spent>>
    BY DEF File
  <1>3. /\ a \in Attempt /\ Sound(a) /\ a.at \in Sending /\ a.sub \in SubId1
        /\ subs[a.sub] \in Submission /\ remote[a.sub] \in Remote /\ Handed(a.sub)
    BY <1>2, AttemptIs DEF Sending
  <1>4. UNCHANGED <<threads, exec, settled, spent>>  BY <1>2 DEF mailbox
  <1> DEFINE s == subs[a.sub]
  <1>5. CASE /\ s.file # {} \/ s.batch
             /\ Becomes(a, [a EXCEPT !.at = "batch", !.file = s.file])
             /\ UNCHANGED subs
    <2>1. s.file \subseteq Thread  BY <1>3, SubmissionTyped
    <2>2. PICK f : f = s.file  OBVIOUS
    <2>3. PICK b : b = [a EXCEPT !.at = "batch", !.file = f]  OBVIOUS
    <2>4. /\ b \in Attempt /\ Like(b, a) /\ b.at = "batch" /\ b.sub = a.sub /\ b.entries = a.entries
          /\ b.file = f /\ b.outcome = a.outcome
      BY <1>3, <2>1, <2>2, <2>3 DEF Attempt, Like
    <2>5. work' = (work \ {a}) \union {b}  BY <1>5, <2>2, <2>3 DEF Becomes
    <2>6. work' \subseteq Attempt  BY <2>4, <2>5, <1>1, Typed
    <2>7. TypeOK'  BY <1>1, <1>2, <1>5, <2>6, TypeOfWork
    <2>8. remote[a.sub].files # {}  BY <1>3, <1>5 DEF Handed
    <2>9. Sound(b)  BY <1>3, <2>4, <2>8 DEF Sound, Like, Sending
    <2>10. ~Going(b) /\ b.at # "prepare" /\ b.at \notin {"file", "prepare"} /\ a.at # "report"
      BY <1>2, <2>4 DEF Going
    <2>. QED  BY <1>2, <1>3, <1>4, <1>5, <2>4, <2>5, <2>7, <2>9, <2>10, WorkCarriesOn
  <1>6. CASE /\ s.file = {} /\ ~s.batch /\ FileFound(a.sub) # {}
             /\ \E f \in FileFound(a.sub) :
                   IF s.status = "preparing"
                   THEN /\ subs' = [subs EXCEPT ![a.sub].file = f]
                        /\ Becomes(a, [a EXCEPT !.at = "batch", !.file = f])
                   ELSE Throws(a) /\ UNCHANGED subs
    <2>1. PICK f \in FileFound(a.sub) :
                   IF s.status = "preparing"
                   THEN /\ subs' = [subs EXCEPT ![a.sub].file = f]
                        /\ Becomes(a, [a EXCEPT !.at = "batch", !.file = f])
                   ELSE Throws(a) /\ UNCHANGED subs
      BY <1>6
    <2>2. f \in SUBSET Thread /\ remote[a.sub].files # {}
      BY <1>3, <1>6 DEF FileFound, Remote
    <2>3. CASE s.status = "preparing"
      <3>1. /\ subs' = [subs EXCEPT ![a.sub].file = f]
            /\ work' = (work \ {a}) \union {[a EXCEPT !.at = "batch", !.file = f]}
        BY <2>1, <2>3 DEF Becomes
      <3>2. subs[a.sub].status = "preparing" /\ a.at \in {"file", "record"}
        BY <2>3, <1>2
      <3>. QED  BY <1>2, <2>2, <3>1, <3>2, RecordsFile
    <2>4. CASE s.status # "preparing"
      <3>1. work' = work \ {a} /\ UNCHANGED subs  BY <2>1, <2>4 DEF Throws
      <3>2. work' \subseteq Attempt  BY <3>1, <1>1, Typed
      <3>3. TypeOK'  BY <1>1, <1>2, <3>1, <3>2, TypeOfWork
      <3>4. a.at # "report"  BY <1>2
      <3>. QED  BY <1>2, <1>4, <3>1, <3>3, <3>4, Throwing
    <2>. QED  BY <2>3, <2>4
  <1>7. CASE /\ s.file = {} /\ ~s.batch /\ FileFound(a.sub) = {}
             /\ Becomes(a, [a EXCEPT !.at = "prepare", !.file = ThreadsOf(s.manifest)])
             /\ UNCHANGED subs
    <2>1. ThreadsOf(s.manifest) \subseteq Thread  BY <1>3, SubmissionTyped
    <2>2. PICK f : f = ThreadsOf(s.manifest)  OBVIOUS
    <2>3. PICK b : b = [a EXCEPT !.at = "prepare", !.file = f]  OBVIOUS
    <2>4. /\ b \in Attempt /\ Like(b, a) /\ b.at = "prepare" /\ b.sub = a.sub /\ b.entries = a.entries
          /\ b.file = f /\ b.outcome = a.outcome
      BY <1>3, <2>1, <2>2, <2>3 DEF Attempt, Like
    <2>5. work' = (work \ {a}) \union {b}  BY <1>7, <2>2, <2>3 DEF Becomes
    <2>6. work' \subseteq Attempt  BY <2>4, <2>5, <1>1, Typed
    <2>7. TypeOK'  BY <1>1, <1>2, <1>7, <2>6, TypeOfWork
    <2>8. ~Sent(a.sub)  BY <1>3, <1>7 DEF Handed, FileFound
    <2>9. Sound(b)  BY <1>2, <1>3, <2>4 DEF Sound, Like, Sending
    <2>10. ~Going(b) /\ a.at # "report" /\ ~Sent(b.sub) /\ b.file = ThreadsOf(subs[b.sub].manifest)
      BY <1>2, <2>2, <2>4, <2>8 DEF Going
    <2>. QED  BY <1>2, <1>3, <1>4, <1>7, <2>4, <2>5, <2>7, <2>9, <2>10, WorkCarriesOn
  <1>. QED  BY <1>5, <1>6, <1>7 DEF File

\* An attempt that uploads or sends.
LEMMA RemoteCarriesOn ==
    ASSUME IInv, NEW a \in work, a.at \in {"upload", "batch"},
           remote' \in Seq(Remote), Len(remote') = Len(remote),
           \A j \in SubId1 : j # a.sub => remote'[j] = remote[j],
           remote'[a.sub].files # {},
           remote[a.sub].batch # "none" => remote'[a.sub].batch = remote[a.sub].batch,
           NEW at \in {"record", "recordBatch"}, at = "recordBatch" => remote'[a.sub].batch # "none",
           work' = (work \ {a}) \union {[a EXCEPT !.at = at]},
           UNCHANGED <<mailbox, scan, subs, offered, exec, settled, spent>>
    PROVE  IInv'
  <1>1. TypeOK /\ Attempts /\ Submissions  BY DEF IInv
  <1>2. a \in Attempt /\ Sound(a) /\ a.at \in Sending /\ a.sub \in SubId1 /\ Handed(a.sub)
    BY AttemptIs DEF Sending
  <1>3. PICK b : b = [a EXCEPT !.at = at]  OBVIOUS
  <1>4. /\ b \in Attempt /\ Like(b, a) /\ b.at = at /\ b.sub = a.sub /\ b.entries = a.entries
        /\ b.file = a.file /\ b.outcome = a.outcome
    BY <1>2, <1>3 DEF Attempt, Like
  <1> DEFINE B == {b}
  <1>5. work' = (work \ {a}) \union B /\ work' \subseteq Attempt
    BY <1>1, <1>3, <1>4, Typed
  <1>6. TypeOK'  BY <1>1, <1>5 DEF TypeOK, mailbox
  <1>7. UNCHANGED <<threads, exec, settled, spent, subs, scan>>  BY DEF mailbox
  <1>8. \A i \in SubId1 : SamePlan(i) /\ (i \in Active' <=> i \in Active)
    BY <1>7 DEF SamePlan, Active
  <1>9. \A i \in SubId1 : /\ remote[i].files # {} => remote'[i].files # {}
                          /\ remote[i].batch # "none" => remote'[i].batch = remote[i].batch
    OBVIOUS
  <1>10. Carried  BY <1>7, <1>8, <1>9 DEF Carried, Open
  <1>11. \A i \in SubId1 : Handed(i)' /\ (remote'[i].batch # remote[i].batch => a.at \in Sending /\ a.sub = i)
    <2>1. ASSUME NEW i \in SubId1 PROVE Handed(i)'
      <3>1. CASE i = a.sub
        <4>1. subs'[i].batch => remote'[i].batch # "none"
          BY <3>1, <1>2, <1>7 DEF Handed, Sent
        <4>2. subs'[i].status = "submitted" => subs'[i].batch
          BY <3>1, <1>2, <1>7 DEF Handed
        <4>. QED  BY <3>1, <4>1, <4>2 DEF Handed, Sent
      <3>2. CASE i # a.sub  BY <3>2, <1>1, <1>7 DEF Submissions, Handed, Sent
      <3>. QED  BY <3>1, <3>2
    <2>. QED  BY <1>2, <2>1
  <1>12. Monotone
    <2>1. \A e \in Entry : Stale(e) => Stale(e)'  BY <1>7 DEF Stale
    <2>2. Grown  BY <1>7 DEF Grown
    <2>3. Len(subs) <= Len(subs')  BY <1>1, <1>7, Typed
    <2>4. ASSUME NEW i \in SubId1
          PROVE  /\ remote[i].files # {} => remote'[i].files # {}
                 /\ remote[i].batch # "none" => remote'[i].batch # "none"
                 /\ remote[i].batch \in States => remote'[i].batch \in States
      BY <1>9 DEF States
    <2>. QED  BY <2>1, <2>2, <2>3, <2>4 DEF Monotone
  <1>13. Sound(b)'
    <2>1. Sound(a)'  BY <1>1, <1>2, <1>6, <1>12, StaysSound
    <2>2. /\ Proper(b.scope)' /\ Proper(b.outcome.scope)' /\ b.kind = "submit"
          /\ b.sub \in SubId1' /\ (\A e \in b.entries : Stale(e)') /\ Small(ThreadsOf(b.entries))'
      BY <2>1, <1>4 DEF Sound, Like, Sending, Proper, Fitting, Small, ThreadsOf
    <2>3. remote'[b.sub].files # {} /\ (b.at = "recordBatch" => Sent(b.sub)')
      BY <1>4 DEF Sent
    <2>4. b.at \in {"record", "recordBatch"}  BY <1>4
    <2>. QED  BY <2>2, <2>3, <2>4 DEF Sound, Sending
  <1>14. ~Going(b) /\ b.at # "prepare" /\ b.at \notin {"file", "prepare"}
    BY <1>4 DEF Going
  <1>15. \A d \in B : /\ Sound(d)' /\ ~Going(d) /\ Like(d, a)
                      /\ d.at \in Sending => d.sub \in Active \/ (a.at \in Sending /\ a.sub = d.sub)
                      /\ d.at = "prepare" => ~Sent(d.sub)' /\ d.file = ThreadsOf(subs'[d.sub].manifest)
                      /\ d.at \in {"file", "prepare"} =>
                            \/ a.at = "file" /\ d.sub = a.sub /\ d.entries = a.entries
                            \/ d.entries \subseteq subs'[d.sub].manifest
    BY <1>2, <1>4, <1>13, <1>14
  <1>16. (\A d, e \in B : d = e) /\ a.at # "report"  OBVIOUS
  <1>. HIDE DEF B
  <1>. QED  BY <1>5, <1>6, <1>10, <1>11, <1>15, <1>16, CarriesOn

\* A file is uploaded.
LEMMA UploadKeeps ==
    ASSUME IInv, NEW a \in work, Upload(a)
    PROVE  IInv'
  <1>1. TypeOK  BY DEF IInv
  <1>2. /\ a.at = "upload" /\ remote' = [remote EXCEPT ![a.sub].files = @ \union {a.file}]
        /\ work' = (work \ {a}) \union {[a EXCEPT !.at = "record"]}
        /\ UNCHANGED <<mailbox, scan, subs, offered, exec, settled, spent>>
    BY DEF Upload, Becomes
  <1>3. a.sub \in SubId1 /\ remote[a.sub] \in Remote /\ a.file \subseteq Thread
    BY <1>2, AttemptIs, AttemptTyped DEF Sending
  <1>4. PICK r : r = [remote[a.sub] EXCEPT !.files = @ \union {a.file}]  OBVIOUS
  <1>5. r \in Remote /\ r.files # {} /\ r.batch = remote[a.sub].batch
    BY <1>3, <1>4 DEF Remote
  <1>6. remote' = [remote EXCEPT ![a.sub] = r]  BY <1>2, <1>4
  <1>7. remote \in Seq(Remote) /\ a.sub \in 1 .. Len(remote) /\ SubId1 = 1 .. Len(remote)
    BY <1>1, <1>3, Typed DEF SubId1
  <1>8. /\ remote' \in Seq(Remote) /\ Len(remote') = Len(remote) /\ remote'[a.sub] = r
        /\ \A j \in SubId1 : j # a.sub => remote'[j] = remote[j]
    BY <1>5, <1>6, <1>7, PutTyped
  <1>9. a.at \in {"upload", "batch"} /\ "record" \in {"record", "recordBatch"} /\ "record" # "recordBatch"
    BY <1>2
  <1>. QED  BY <1>2, <1>5, <1>8, <1>9, RemoteCarriesOn

\* A batch is sent, unless it has been sent.
LEMMA BatchKeeps ==
    ASSUME IInv, NEW a \in work, Batch(a)
    PROVE  IInv'
  <1>1. TypeOK  BY DEF IInv
  <1>2. /\ a.at = "batch"
        /\ remote' = IF remote[a.sub].batch # "none" THEN remote
                     ELSE [remote EXCEPT ![a.sub].batch = "running", ![a.sub].asked = a.file]
        /\ work' = (work \ {a}) \union {[a EXCEPT !.at = "recordBatch"]}
        /\ UNCHANGED <<mailbox, scan, subs, offered, exec, settled, spent>>
    BY DEF Batch, Becomes
  <1>3. a.sub \in SubId1 /\ remote[a.sub] \in Remote /\ a.file \subseteq Thread
    BY <1>2, AttemptIs, AttemptTyped DEF Sending
  <1>4. remote[a.sub].files # {}  BY <1>2, AttemptIs DEF Sound
  <1>5. remote \in Seq(Remote) /\ a.sub \in 1 .. Len(remote) /\ SubId1 = 1 .. Len(remote)
    BY <1>1, <1>3, Typed DEF SubId1
  <1>6. a.at \in {"upload", "batch"} /\ "recordBatch" \in {"record", "recordBatch"}
    BY <1>2
  <1>7. CASE remote[a.sub].batch # "none"
    <2>1. remote' = remote  BY <1>2, <1>7
    <2>2. /\ remote' \in Seq(Remote) /\ Len(remote') = Len(remote)
          /\ \A j \in SubId1 : j # a.sub => remote'[j] = remote[j]
          /\ remote'[a.sub].files # {} /\ remote'[a.sub].batch # "none"
          /\ remote[a.sub].batch # "none" => remote'[a.sub].batch = remote[a.sub].batch
      BY <2>1, <1>4, <1>5, <1>7
    <2>. QED  BY <1>2, <1>6, <2>2, RemoteCarriesOn
  <1>8. CASE remote[a.sub].batch = "none"
    <2>1. PICK r : r = [remote[a.sub] EXCEPT !.batch = "running", !.asked = a.file]
      OBVIOUS
    <2>2. r \in Remote /\ r.files # {} /\ r.batch = "running"
      BY <1>3, <1>4, <2>1 DEF Remote
    <2>3. remote' = [remote EXCEPT ![a.sub] = r]  BY <1>2, <1>5, <1>8, <2>1
    <2>4. /\ remote' \in Seq(Remote) /\ Len(remote') = Len(remote) /\ remote'[a.sub] = r
          /\ \A j \in SubId1 : j # a.sub => remote'[j] = remote[j]
      BY <2>2, <2>3, <1>5, PutTyped
    <2>5. /\ remote'[a.sub].files # {} /\ remote'[a.sub].batch # "none"
          /\ remote[a.sub].batch # "none" => remote'[a.sub].batch = remote[a.sub].batch
      BY <2>2, <2>4, <1>8
    <2>. QED  BY <1>2, <1>6, <2>4, <2>5, RemoteCarriesOn
  <1>. QED  BY <1>7, <1>8

\* A file that has been uploaded is recorded, unless there is one.
LEMMA RecordKeeps ==
    ASSUME IInv, NEW a \in work, Record(a)
    PROVE  IInv'
  <1>1. TypeOK  BY DEF IInv
  <1>2. a.at = "record" /\ UNCHANGED <<mailbox, scan, remote, offered, exec, settled, spent>>
    BY DEF Record
  <1>3. a.sub \in SubId1 /\ subs[a.sub] \in Submission /\ a.file \subseteq Thread
    BY <1>2, AttemptIs, AttemptTyped DEF Sending
  <1>4. remote[a.sub].files # {}  BY <1>2, AttemptIs DEF Sound
  <1>5. CASE subs[a.sub].status = "preparing"
    <2>1. PICK f : f = IF subs[a.sub].file = {} THEN a.file ELSE subs[a.sub].file
      OBVIOUS
    <2>2. f \in SUBSET Thread  BY <2>1, <1>3, SubmissionTyped
    <2>3. /\ subs' = [subs EXCEPT ![a.sub].file = f]
          /\ work' = (work \ {a}) \union {[a EXCEPT !.at = "batch", !.file = f]}
      BY <1>5, <2>1 DEF Record, Becomes
    <2>4. a.at \in {"file", "record"}  BY <1>2
    <2>. QED  BY <1>2, <1>4, <1>5, <2>2, <2>3, <2>4, RecordsFile
  <1>6. CASE subs[a.sub].status # "preparing"
    <2>1. work' = work \ {a} /\ UNCHANGED subs  BY <1>6 DEF Record, Throws
    <2>2. work' \subseteq Attempt  BY <2>1, <1>1, Typed
    <2>3. TypeOK'  BY <1>1, <1>2, <2>1, <2>2, TypeOfWork
    <2>4. a.at # "report" /\ UNCHANGED threads  BY <1>2 DEF mailbox
    <2>. QED  BY <1>2, <2>1, <2>3, <2>4, Throwing
  <1>. QED  BY <1>5, <1>6

\* A batch that has been sent is recorded.
LEMMA RecordBatchKeeps ==
    ASSUME IInv, NEW a \in work, RecordBatch(a)
    PROVE  IInv'
  <1>1. TypeOK /\ Attempts /\ Submissions  BY DEF IInv
  <1>2. a.at = "recordBatch" /\ UNCHANGED <<mailbox, scan, remote, offered, exec, settled, spent>>
    BY DEF RecordBatch
  <1>3. /\ a \in Attempt /\ Sound(a) /\ a.at \in Sending /\ a.sub \in SubId1 /\ a.sub \in SubId
        /\ subs[a.sub] \in Submission /\ remote[a.sub] \in Remote /\ Handed(a.sub)
    BY <1>2, AttemptIs DEF Sending
  <1>4. UNCHANGED <<threads, exec, settled, spent, remote, scan>>
    BY <1>2 DEF mailbox
  <1>5. remote[a.sub].files # {} /\ Sent(a.sub)  BY <1>2, <1>3 DEF Sound
  <1>6. CASE subs[a.sub].status \notin {"preparing", "submitted"}
    <2>1. work' = work \ {a} /\ UNCHANGED subs  BY <1>6 DEF RecordBatch, Throws
    <2>2. work' \subseteq Attempt  BY <2>1, <1>1, Typed
    <2>3. TypeOK'  BY <1>1, <1>2, <2>1, <2>2, TypeOfWork
    <2>4. a.at # "report" /\ UNCHANGED threads  BY <1>2 DEF mailbox
    <2>. QED  BY <1>2, <2>1, <2>3, <2>4, Throwing
  <1>7. CASE subs[a.sub].status \in {"preparing", "submitted"}
    <2>1. PICK s : s = [subs[a.sub] EXCEPT !.status = "submitted", !.batch = TRUE,
                                           !.file = remote[a.sub].asked]
      OBVIOUS
    <2>2. /\ s \in Submission /\ s.retry = subs[a.sub].retry /\ s.conts = subs[a.sub].conts
          /\ s.manifest = subs[a.sub].manifest /\ s.status = "submitted" /\ s.batch
      BY <1>3, <2>1 DEF Submission, Remote
    <2>3. subs' = [subs EXCEPT ![a.sub] = s]
      <3>1. subs' = [subs EXCEPT ![a.sub].status = "submitted", ![a.sub].batch = TRUE,
                                 ![a.sub].file = remote[a.sub].asked]
        BY <1>7 DEF RecordBatch
      <3>2. subs \in Seq(Submission) /\ a.sub \in 1 .. Len(subs)
        BY <1>1, <1>3, Typed DEF SubId1
      <3>. QED  BY <2>1, <3>1, <3>2
    <2>4. /\ subs' \in Seq(Submission) /\ Len(subs') = Len(subs)
          /\ subs'[a.sub] = s /\ \A j \in SubId1 : j # a.sub => subs'[j] = subs[j]
          /\ \A j \in SubId1 : SamePlan(j) /\ (j \in Active' <=> j \in Active)
      <3>1. s.status \in {"preparing", "submitted"} <=> subs[a.sub].status \in {"preparing", "submitted"}
        BY <2>2, <1>7
      <3>. QED  BY <1>1, <1>3, <2>2, <2>3, <3>1, SubmissionPut
    <2>5. Reports(a, "submitted", FirstScope, a.sub)  BY <1>7 DEF RecordBatch
    <2>6. "submitted" \in Outcomes /\ FirstScope \in Scope /\ Proper(FirstScope)
      BY ScopeTyped DEF Outcomes
    <2>7. PICK b \in Attempt : /\ work' = (work \ {a}) \union {b} /\ Like(b, a)
                               /\ b.at = "report" /\ b.sub = a.sub /\ b.entries = a.entries
                               /\ b.outcome.status = "submitted" /\ b.outcome.scope = FirstScope
                               /\ b.outcome.sub = a.sub
      BY <1>3, <2>5, <2>6, ReportsIs
    <2> DEFINE B == {b}
    <2>8. work' = (work \ {a}) \union B /\ work' \subseteq Attempt
      BY <2>7, <1>1, Typed
    <2>9. TypeOK'  BY <1>1, <1>2, <2>4, <2>8 DEF TypeOK, mailbox
    <2>10. Carried  BY <1>4, <2>4 DEF Carried, Open
    <2>11. \A i \in SubId1 : Handed(i)' /\ (remote'[i].batch # remote[i].batch => a.at \in Sending /\ a.sub = i)
      <3>1. ASSUME NEW i \in SubId1 PROVE Handed(i)'
        <4>1. CASE i = a.sub  BY <4>1, <1>4, <1>5, <2>2, <2>4 DEF Handed, Sent
        <4>2. CASE i # a.sub
          BY <4>2, <1>1, <1>4, <2>4 DEF Submissions, Handed, Sent
        <4>. QED  BY <4>1, <4>2
      <3>. QED  BY <1>4, <3>1
    <2>12. Sound(b)'
      <3>1. b.kind = "finalize" => Sent(b.sub)  BY <1>5, <2>7
      <3>2. Sound(b)
        <4>1. /\ b.outcome.status # "pending" /\ Proper(b.outcome.scope)
              /\ b.outcome.sub \in SubId1 /\ Sent(b.outcome.sub)
          BY <1>3, <1>5, <2>6, <2>7
        <4>. QED  BY <1>1, <2>7, <3>1, <4>1, SaysSound
      <3>3. Monotone
        <4>1. \A e \in Entry : Stale(e) => Stale(e)'  BY <1>4 DEF Stale
        <4>. QED  BY <1>1, <1>4, <2>4, <4>1, Typed DEF Monotone, Grown
      <3>. QED  BY <1>1, <2>7, <2>9, <3>2, <3>3, StaysSound
    <2>13. ~Going(b) /\ b.at \notin Sending /\ b.at # "prepare" /\ b.at \notin {"file", "prepare"}
      BY <2>7 DEF Going, Sending
    <2>14. \A d \in B : /\ Sound(d)' /\ ~Going(d) /\ Like(d, a)
                        /\ d.at \in Sending => d.sub \in Active \/ (a.at \in Sending /\ a.sub = d.sub)
                        /\ d.at = "prepare" => ~Sent(d.sub)' /\ d.file = ThreadsOf(subs'[d.sub].manifest)
                        /\ d.at \in {"file", "prepare"} =>
                              \/ a.at = "file" /\ d.sub = a.sub /\ d.entries = a.entries
                              \/ d.entries \subseteq subs'[d.sub].manifest
      BY <2>7, <2>12, <2>13
    <2>15. (\A d, e \in B : d = e) /\ a.at # "report"  BY <1>2
    <2>. HIDE DEF B
    <2>. QED  BY <2>8, <2>9, <2>10, <2>11, <2>14, <2>15, CarriesOn
  <1>. QED  BY <1>6, <1>7

\* Fewer entries ask about fewer threads.
LEMMA FewerEntries ==
    ASSUME NEW D, NEW E, D \subseteq E, E \subseteq Entry, Small(ThreadsOf(E))
    PROVE  Small(ThreadsOf(D))
  <1>1. ThreadsOf(D) \subseteq ThreadsOf(E)  BY DEF ThreadsOf
  <1>2. ThreadsOf(E) \subseteq Thread
    <2>1. \A e \in E : e.thread \in Thread  BY DEF Entry
    <2>. QED  BY <2>1 DEF ThreadsOf
  <1>. QED  BY <1>1, <1>2, SmallSubset

\* A continuation is put before the others.
LEMMA ContinuationPut ==
    ASSUME NEW conts \in Seq(Continuation), Fitting(conts), NEW c \in Continuation,
           c.retry > 0, c.threads # {}, Small(c.threads)
    PROVE  /\ <<c>> \o conts \in Seq(Continuation) /\ Fitting(<<c>> \o conts)
           /\ \A t : t \in c.threads \/ In(conts, t) => In(<<c>> \o conts, t)
  <1> DEFINE s == <<c>> \o conts
  <1>1. /\ s \in Seq(Continuation) /\ DOMAIN s = 1 .. Len(conts) + 1 /\ s[1] = c
        /\ Len(conts) \in Nat /\ DOMAIN conts = 1 .. Len(conts)
        /\ \A k \in 1 .. Len(conts) : s[k + 1] = conts[k]
    OBVIOUS
  <1> HIDE DEF s
  <1>2. \A k \in DOMAIN s : k = 1 \/ (k - 1 \in DOMAIN conts /\ s[k] = conts[k - 1])
    <2> TAKE k \in DOMAIN s
    <2>1. k \in 1 .. Len(conts) + 1  BY <1>1
    <2>2. CASE k # 1
      <3>1. k - 1 \in 1 .. Len(conts) /\ (k - 1) + 1 = k  BY <2>1, <2>2, <1>1
      <3>. QED  BY <3>1, <1>1
    <2>. QED  BY <2>2
  <1>3. Fitting(s)
    <2>1. ASSUME NEW k \in DOMAIN s PROVE s[k].retry > 0 /\ s[k].threads # {} /\ Small(s[k].threads)
      <3>1. CASE k = 1  BY <3>1, <1>1
      <3>2. CASE k # 1  BY <3>2, <1>2 DEF Fitting
      <3>. QED  BY <3>1, <3>2
    <2>. QED  BY <2>1 DEF Fitting
  <1>4. ASSUME NEW t, t \in c.threads \/ In(conts, t) PROVE In(s, t)
    <2>1. CASE t \in c.threads
      <3>1. 1 \in DOMAIN s /\ t \in s[1].threads  BY <2>1, <1>1
      <3>. QED  BY <3>1 DEF In
    <2>2. CASE In(conts, t)
      <3>1. PICK k \in DOMAIN conts : t \in conts[k].threads  BY <2>2 DEF In
      <3>2. k + 1 \in DOMAIN s /\ s[k + 1] = conts[k]  BY <1>1
      <3>. QED  BY <3>1, <3>2 DEF In
    <2>. QED  BY <2>1, <2>2, <1>4
  <1>. QED  BY <1>1, <1>3, <1>4 DEF s

\* What a retry page keeps for later.
LEMMA KeptIs ==
    ASSUME NEW s \in Submission, Fitting(s.conts), Small(ThreadsOf(s.manifest)),
           s.retry = 0 => s.conts = <<>>,
           NEW excluded, excluded \subseteq ThreadsOf(s.manifest)
    PROVE  /\ Kept(s, excluded) \in Seq(Continuation) /\ Fitting(Kept(s, excluded))
           /\ s.retry = 0 => Kept(s, excluded) = <<>>
           /\ \A t : In(s.conts, t) \/ (s.retry > 0 /\ t \in excluded) => In(Kept(s, excluded), t)
  <1>1. s.conts \in Seq(Continuation) /\ s.retry \in 0 .. RetryLimit /\ ThreadsOf(s.manifest) \subseteq Thread
        /\ RetryLimit \in Nat
    BY SubmissionTyped, ConstantsTyped
  <1>2. CASE s.retry > 0 /\ excluded # {}
    <2>1. PICK c : c = [retry |-> s.retry, threads |-> excluded]  OBVIOUS
    <2>2. c \in Continuation /\ c.retry > 0 /\ c.threads = excluded
      BY <1>1, <1>2, <2>1 DEF Continuation
    <2>3. Small(excluded)  BY <1>1, SmallSubset
    <2>4. Kept(s, excluded) = <<c>> \o s.conts  BY <1>2, <2>1 DEF Kept
    <2>5. /\ <<c>> \o s.conts \in Seq(Continuation) /\ Fitting(<<c>> \o s.conts)
          /\ \A t : t \in c.threads \/ In(s.conts, t) => In(<<c>> \o s.conts, t)
      BY <1>1, <1>2, <2>2, <2>3, ContinuationPut
    <2>. QED  BY <1>2, <2>2, <2>4, <2>5
  <1>3. CASE ~(s.retry > 0 /\ excluded # {})
    <2>1. Kept(s, excluded) = s.conts  BY <1>3 DEF Kept
    <2>. QED  BY <1>1, <1>3, <2>1
  <1>. QED  BY <1>2, <1>3

\* Prepare stores what fits.
LEMMA TakesKeeps ==
    ASSUME IInv, NEW a \in work, a.at = "prepare", NEW t \in ThreadsOf(a.entries),
           NEW taken, taken = Fits(a.entries, t),
           NEW excluded, excluded = a.file \ ThreadsOf(taken),
           subs[a.sub].status = "preparing", Complete(subs[a.sub], taken, excluded),
           subs' = [subs EXCEPT ![a.sub].manifest = taken, ![a.sub].conts = Kept(subs[a.sub], excluded)],
           settled' = settled \union
              {u \in ThreadsOf(subs[a.sub].manifest \ a.entries) : u < Last(ThreadsOf(taken))},
           work' = (work \ {a}) \union {[a EXCEPT !.at = "upload", !.file = ThreadsOf(taken)]},
           UNCHANGED <<mailbox, scan, remote, offered, exec, spent>>
    PROVE  IInv'
  <1>1. /\ TypeOK /\ Attempts /\ Submissions /\ Driven /\ Led /\ Sequential /\ Fresh
        /\ OneBatch /\ Placed
    BY DEF IInv
  <1>2. /\ a \in Attempt /\ Sound(a) /\ a.at \in Sending /\ a.sub \in SubId1 /\ Planned(a.sub)
        /\ subs[a.sub] \in Submission /\ Handed(a.sub)
    BY AttemptIs DEF Sending
  <1>3. PICK i : i = a.sub  OBVIOUS
  <1>4. i \in SubId1 /\ i \in Active /\ i \in 1 .. Len(subs)
    BY <1>2, <1>3 DEF SubId1, Active
  <1>5. a.entries \subseteq Entry /\ a.file \subseteq Thread
    BY <1>2, AttemptTyped
  <1>6. taken \subseteq a.entries /\ (\E e \in taken : e.thread = t) /\ \A e \in a.entries : e \in taken <=> e.thread <= t
    <2>1. \A e \in a.entries : e \in taken <=> e.thread <= t  BY DEF Fits
    <2>2. PICK e \in a.entries : e.thread = t  BY DEF ThreadsOf
    <2>3. t \in Thread /\ t \in Nat  BY <1>5, <2>2, ConstantsTyped DEF Entry
    <2>4. t <= t  BY <2>3
    <2>5. e \in taken  BY <2>1, <2>2, <2>4
    <2>. QED  BY <2>1, <2>2, <2>5 DEF Fits
  <1>7. /\ ThreadsOf(taken) \subseteq Thread /\ ThreadsOf(taken) # {} /\ taken \subseteq Entry /\ taken # {}
    <2>1. \A e \in taken : e.thread \in Thread  BY <1>5, <1>6 DEF Entry
    <2>. QED  BY <2>1, <1>5, <1>6 DEF ThreadsOf
  <1>8. Last(ThreadsOf(taken)) \in ThreadsOf(taken) /\ \A u \in ThreadsOf(taken) : u <= Last(ThreadsOf(taken))
    BY <1>7, LastIs
  <1>9. excluded \subseteq ThreadsOf(subs[i].manifest) /\ excluded \subseteq Thread
    BY <1>3, <1>5 DEF Complete
  <1>10. PICK K : K = Kept(subs[i], excluded)  OBVIOUS
  <1>11. /\ K \in Seq(Continuation) /\ Fitting(K) /\ (subs[i].retry = 0 => K = <<>>)
         /\ \A u : In(subs[i].conts, u) \/ (subs[i].retry > 0 /\ u \in excluded) => In(K, u)
    BY <1>2, <1>3, <1>9, <1>10, KeptIs DEF Planned
  <1>12. PICK s : s = [subs[i] EXCEPT !.manifest = taken, !.conts = K]  OBVIOUS
  <1>13. /\ s \in Submission /\ s.status = "preparing" /\ s.retry = subs[i].retry /\ s.manifest = taken
         /\ s.conts = K /\ s.file = subs[i].file /\ s.batch = subs[i].batch
    BY <1>2, <1>3, <1>7, <1>11, <1>12 DEF Submission
  <1>14. subs \in Seq(Submission) /\ i \in 1 .. Len(subs) /\ DOMAIN subs = 1 .. Len(subs)
    BY <1>1, <1>4, Typed DEF SubId1
  <1>15. subs' = [subs EXCEPT ![i] = s]
    <2>1. subs' = [subs EXCEPT ![i].manifest = taken, ![i].conts = K]
      BY <1>3, <1>10
    <2>. QED  BY <2>1, <1>12, <1>14
  <1>16. /\ subs' \in Seq(Submission) /\ Len(subs') = Len(subs) /\ subs'[i] = s
         /\ \A j \in SubId1 : j # i => subs'[j] = subs[j]
    <2>1. s \in Submission  BY <1>13
    <2>2. /\ subs' \in Seq(Submission) /\ Len(subs') = Len(subs)
          /\ subs'[i] = s /\ \A j \in 1 .. Len(subs) : j # i => subs'[j] = subs[j]
      <3>1. subs \in Seq(Submission) /\ i \in 1 .. Len(subs)  BY <1>14
      <3>2. /\ [subs EXCEPT ![i] = s] \in Seq(Submission) /\ Len([subs EXCEPT ![i] = s]) = Len(subs)
            /\ [subs EXCEPT ![i] = s][i] = s
            /\ \A j \in 1 .. Len(subs) : j # i => [subs EXCEPT ![i] = s][j] = subs[j]
        BY <2>1, <3>1, PutTyped
      <3>. QED  BY <1>15, <3>2
    <2>. QED  BY <2>2 DEF SubId1
  <1>17. PICK b : b = [a EXCEPT !.at = "upload", !.file = ThreadsOf(taken)]
    OBVIOUS
  <1>18. /\ b \in Attempt /\ Like(b, a) /\ b.at = "upload" /\ b.sub = i /\ b.entries = a.entries
         /\ b.outcome = a.outcome
    BY <1>2, <1>3, <1>7, <1>17 DEF Attempt, Like
  <1> DEFINE B == {b}
  <1>19. work' = (work \ {a}) \union B /\ work' \subseteq Attempt
    BY <1>1, <1>17, <1>18, Typed
  <1>20. settled \subseteq settled' /\ settled' \subseteq Thread
    <2>1. ThreadsOf(subs[i].manifest) \subseteq Thread
      BY <1>2, <1>3, SubmissionTyped
    <2>2. ThreadsOf(subs[a.sub].manifest \ a.entries) \subseteq ThreadsOf(subs[i].manifest)
      BY <1>3 DEF ThreadsOf
    <2>3. settled \subseteq Thread  BY <1>1, Typed
    <2>. QED  BY <2>1, <2>2, <2>3
  <1>21. TypeOK'  BY <1>1, <1>16, <1>19, <1>20 DEF TypeOK, mailbox
  <1>22. UNCHANGED <<threads, scan, remote, exec, spent>>  BY DEF mailbox
  <1>23. Grown /\ Monotone
    <2>1. \A e \in Entry : Stale(e) => Stale(e)'  BY <1>22 DEF Stale
    <2>2. Grown  BY <1>22 DEF Grown
    <2>3. Len(subs) <= Len(subs')
      <3>1. Len(subs) \in Nat  BY <1>1, Typed
      <3>. QED  BY <1>16, <3>1
    <2>. QED  BY <1>22, <2>1, <2>2, <2>3 DEF Monotone
  <1>24. \A j \in SubId1 : j \in Active' <=> j \in Active
    BY <1>4, <1>13, <1>16 DEF Active, SubId1
  <1>25. \A j \in Active' : j \in Active
    <2>1. \A j \in Active' : j \in SubId1  BY <1>16 DEF Active, SubId1
    <2>. QED  BY <2>1, <1>24
  <1>26. Attempts'
    <2>1. Sound(b)  BY <1>2, <1>3, <1>18 DEF Sound, Like, Sending
    <2>2. Sound(b)'  BY <1>1, <1>18, <1>21, <1>23, <2>1, StaysSound
    <2>3. work' \subseteq work \union B /\ \A d \in B : Sound(d)'
      BY <1>19, <2>2
    <2>. HIDE DEF B
    <2>. QED  BY <1>1, <1>21, <1>23, <2>3, AttemptsGo
  <1>27. Submissions'
    <2>1. ASSUME NEW j \in SubId1, j # i PROVE Planned(j)' /\ Handed(j)'
      <3>1. SamePlan(j) /\ Planned(j) /\ Handed(j)
        BY <2>1, <1>1, <1>16 DEF SamePlan, Submissions
      <3>2. Planned(j)'
        BY <1>1, <1>16, <1>21, <1>22, <1>23, <1>24, <3>1, StaysPlanned
      <3>. QED  BY <2>1, <1>16, <1>22, <3>1, <3>2 DEF Handed, Sent
    <2>2. Handed(i)'  BY <1>2, <1>3, <1>13, <1>16, <1>22 DEF Handed, Sent
    <2>3. Planned(i)'
      <3>1. i = Len(subs')  BY <1>1, <1>4, <1>16 DEF Submissions, Planned
      <3>2. Small(ThreadsOf(taken))  BY <1>2, <1>5, <1>6, FewerEntries DEF Sound
      <3>3. \A e \in taken : Stale(e)  BY <1>2, <1>6 DEF Sound
      <3>4. spent["changes"] = 0 => \A e \in taken : Unchanged(e)
        BY <1>1, <1>3, <1>4, <1>6 DEF Fresh
      <3>5. \A e : (Stale(e) <=> Stale(e)') /\ (Unchanged(e) <=> Unchanged(e)')
        BY <1>22 DEF Stale, Unchanged
      <3>6. spent'["changes"] = 0 => \A e \in taken : Unchanged(e)'
        BY <1>22, <3>4, <3>5
      <3>7. /\ subs'[i].retry = 0 => subs'[i].conts = <<>>
            /\ subs'[i].manifest = taken /\ subs'[i].conts = K
        BY <1>11, <1>13, <1>16
      <3>8. Small(ThreadsOf(subs'[i].manifest)) /\ Fitting(subs'[i].conts)
        BY <1>11, <3>2, <3>7
      <3>9. Small(ThreadsOf(subs[i].manifest))' /\ Fitting(subs[i].conts)'
        BY <3>8 DEF Small, ThreadsOf, Fitting
      <3>10. \A e \in subs'[i].manifest : Stale(e)'  BY <3>3, <3>5, <3>7
      <3>11. spent'["changes"] = 0 => subs'[i].manifest # {} /\ \A e \in subs'[i].manifest : Unchanged(e)'
        BY <1>7, <3>6, <3>7
      <3>. QED  BY <3>1, <3>7, <3>9, <3>10, <3>11 DEF Planned
    <2>4. SubId1' = SubId1  BY <1>16 DEF SubId1
    <2>. QED  BY <2>1, <2>2, <2>3, <2>4 DEF Submissions
  <1>28. Driven'  BY <1>1, <1>21, <1>22, <1>23, DrivenStays
  <1>29. Led' /\ Sequential'
    <2>1. (\A d, e \in B : d = e) /\ \A d \in B : Like(d, a)  BY <1>18
    <2>2. Led'  BY <1>1, <1>19, <1>22, <2>1, LedGoes
    <2>3. ASSUME NEW d \in B, spent'["timeouts"] = 0 PROVE Alone(d)'
      <3>1. Alone(a)  BY <1>1, <1>22, <2>3 DEF Sequential
      <3>. QED  BY <1>18, <1>22, <3>1 DEF Alone, Like
    <2>4. Sequential'
      <3>. HIDE DEF B
      <3>. QED  BY <1>1, <1>19, <1>23, <2>1, <2>3, SequentialGoes
    <2>. QED  BY <2>2, <2>4
  <1>30. Fresh'  BY <1>1, <1>18, <1>19, <1>22, <1>23, <1>25, FreshStays
  <1>31. OneBatch'
    <2>1. \A j \in SubId1 : remote'[j].batch = remote[j].batch  BY <1>22
    <2>2. \A j \in Active : Open' => j \in Active'  BY <1>24 DEF Active, SubId1
    <2>3. ASSUME NEW d \in work', d.at \in Sending
          PROVE  d.sub \in Active \/ \E c \in work : c.at \in Sending /\ c.sub = d.sub
      BY <1>4, <1>18, <1>19, <2>3
    <2>4. Open' => Open  BY <1>22 DEF Open
    <2>. QED  BY <1>1, <1>16, <1>21, <1>23, <2>1, <2>2, <2>3, <2>4, OneBatchStays
  <1>32. Placed'
    <2> SUFFICES ASSUME ~Astray', Open' PROVE
          /\ exec'.at \in {"none", "submit"} /\ ~(\E x \in work' : Closing(x)) =>
                \A u \in Left' : Covers(exec.scope, u)'
          /\ \A x \in work' : Going(x) => \A u \in Left' : Covers(x.outcome.scope, u)'
          /\ \A j \in Active' : Holds(j)'
      BY DEF Placed
    <2>1. ~Astray /\ Open /\ spent["timeouts"] = 0
      <3>1. ~Astray  BY <1>1, <1>21, <1>23, CalmBefore
      <3>. QED  BY <1>1, <1>22, <3>1, AstrayIs DEF Open
    <2>2. Left' \subseteq Left  BY <1>20 DEF Left
    <2>3. \A x, u : Covers(x, u) => Covers(x, u)'  BY <1>22 DEF Covers, In
    <2>4. \A x \in work : Closing(x) => x \in work'  BY <1>19 DEF Closing
    <2>5. \A x \in work' : Going(x) => x \in work  BY <1>18, <1>19 DEF Going
    <2>6. exec'.at \in {"none", "submit"} /\ ~(\E x \in work' : Closing(x)) =>
             \A u \in Left' : Covers(exec.scope, u)'
      <3>1. SUFFICES ASSUME exec.at \in {"none", "submit"}, ~(\E x \in work' : Closing(x)), NEW u \in Left'
                     PROVE  Covers(exec.scope, u)'
        BY <1>22
      <3>2. Covers(exec.scope, u)  BY <1>1, <2>1, <2>2, <2>4, <3>1 DEF Placed
      <3>. QED  BY <1>22, <3>2 DEF Covers, In
    <2>7. \A x \in work' : Going(x) => \A u \in Left' : Covers(x.outcome.scope, u)'
      BY <1>1, <2>1, <2>2, <2>3, <2>5 DEF Placed
    <2>8. ASSUME NEW j \in Active', j # i PROVE Holds(j)'
      <3>1. j \in Active /\ j \in SubId1  BY <1>25 DEF Active, SubId1
      <3>2. Holds(j) /\ subs'[j] = subs[j]
        BY <1>1, <1>16, <2>1, <2>8, <3>1 DEF Placed
      <3>. QED  BY <1>22, <2>2, <3>2 DEF Holds, In
    <2>9. Holds(i)'
      <3>1. Holds(i)  BY <1>1, <1>4, <2>1 DEF Placed
      <3>2. Alone(a)  BY <1>1, <2>1 DEF Sequential
      <3>3. a.file = ThreadsOf(subs[i].manifest) /\ a.entries \subseteq subs[i].manifest
        BY <1>3, <3>2 DEF Alone
      <3>4. excluded = ThreadsOf(subs[i].manifest) \ ThreadsOf(taken)  BY <3>3
      <3>5. ASSUME NEW u \in Left'
            PROVE  u > scan.cursor \/ u \in ThreadsOf(taken) \/ In(K, u)
        <4>1. u \in Left  BY <2>2
        <4>2. u > scan.cursor \/ u \in ThreadsOf(subs[i].manifest) \/ In(subs[i].conts, u)
          BY <3>1, <4>1 DEF Holds
        <4>3. CASE In(subs[i].conts, u)  BY <4>3, <1>11
        <4>4. CASE u \in ThreadsOf(subs[i].manifest) /\ subs[i].retry = 0
          BY <4>4, <3>1 DEF Holds
        <4>5. CASE u \in ThreadsOf(subs[i].manifest) /\ subs[i].retry # 0
          <5>1. subs[i].retry > 0
            BY <1>2, <1>3, <4>5, SubmissionTyped, ConstantsTyped
          <5>. QED  BY <1>11, <3>4, <4>5, <5>1
        <4>. QED  BY <4>2, <4>3, <4>4, <4>5
      <3>6. ThreadsOf(taken) \subseteq ThreadsOf(subs[i].manifest)
        BY <1>6, <3>3 DEF ThreadsOf
      <3>7. ASSUME subs[i].retry = 0, NEW v \in ThreadsOf(taken) PROVE v > scan.cursor
        BY <3>1, <3>6, <3>7 DEF Holds
      <3>8. ASSUME subs[i].retry = 0, NEW u \in Left', NEW v \in ThreadsOf(taken), u > scan.cursor, u <= v
            PROVE  u \in ThreadsOf(taken)
        <4>1. u \in ThreadsOf(subs[i].manifest) /\ u \notin settled'
          BY <2>2, <3>1, <3>6, <3>8 DEF Holds, Left
        <4>2. PICK e \in subs[i].manifest : e.thread = u  BY <4>1 DEF ThreadsOf
        <4>3. PICK f \in taken : f.thread = v  BY <3>8 DEF ThreadsOf
        <4>4. u \in Nat /\ v \in Nat /\ t \in Nat /\ Last(ThreadsOf(taken)) \in Nat
          <5>1. u \in Thread /\ v \in Thread /\ Last(ThreadsOf(taken)) \in Thread
            BY <1>7, <1>8, <3>8 DEF Left
          <5>2. t \in Thread  BY <1>6, <1>7 DEF ThreadsOf
          <5>. QED  BY <5>1, <5>2, ConstantsTyped
        <4>5. CASE e \in a.entries
          <5>1. v <= t  BY <1>6, <4>3
          <5>2. u <= t  BY <3>8, <4>4, <5>1
          <5>3. e \in taken  BY <1>6, <4>2, <4>5, <5>2
          <5>. QED  BY <4>2, <5>3 DEF ThreadsOf
        <4>6. CASE e \notin a.entries
          <5>1. u \in ThreadsOf(subs[i].manifest \ a.entries)
            BY <4>2, <4>6 DEF ThreadsOf
          <5>2. ~(u < Last(ThreadsOf(taken)))  BY <1>3, <4>1, <5>1
          <5>3. v <= Last(ThreadsOf(taken))  BY <1>8, <3>8
          <5>4. u = Last(ThreadsOf(taken))
            <6> DEFINE m == Last(ThreadsOf(taken))
            <6>1. ~(u < m) /\ v <= m /\ u <= v /\ u \in Nat /\ v \in Nat /\ m \in Nat
              BY <3>8, <4>4, <5>2, <5>3
            <6> HIDE DEF m
            <6>2. u = m  BY <6>1
            <6>. QED  BY <6>2 DEF m
          <5>. QED  BY <1>8, <5>4
        <4>. QED  BY <4>5, <4>6
      <3>9. subs'[i].manifest = taken /\ subs'[i].conts = K /\ subs'[i].retry = subs[i].retry /\ scan' = scan
        BY <1>13, <1>16, <1>22
      <3>10. \A u \in Left' : u > scan'.cursor \/ u \in ThreadsOf(subs'[i].manifest) \/ In(subs'[i].conts, u)
        BY <3>5, <3>9
      <3>11. subs'[i].retry = 0 =>
               /\ \A u \in ThreadsOf(subs'[i].manifest) : u > scan'.cursor
               /\ \A u \in Left', v \in ThreadsOf(subs'[i].manifest) :
                     u > scan'.cursor /\ u <= v => u \in ThreadsOf(subs'[i].manifest)
        BY <3>7, <3>8, <3>9
      <3>. QED  BY <3>10, <3>11 DEF Holds, ThreadsOf, In
    <2>. QED  BY <2>6, <2>7, <2>8, <2>9
  <1>. QED  BY <1>21, <1>26, <1>27, <1>28, <1>29, <1>30, <1>31, <1>32 DEF IInv

-----------------------------------------------------------------------------
(* Steps that close a submission.                                          *)

\* Only the last submission is out.
LEMMA OnlyLast ==
    ASSUME TypeOK, Submissions, NEW i \in Active
    PROVE  i \in SubId1 /\ i = Len(subs) /\ Active = {i}
  <1>1. \A j \in Active : j \in SubId1 /\ j = Len(subs)
    BY DEF Active, SubId1, Submissions, Planned
  <1>. QED  BY <1>1

\* Submission i is closed, and the attempt reports what comes next.
LEMMA ClosesKeeps ==
    ASSUME IInv, NEW a \in work, NEW i \in SubId1, i = a.sub, a.at \in {"prepare", "apply"},
           subs[i].status \in {"preparing", "submitted"},
           threads' \in [Thread -> ThreadRecord], \A e \in Entry : Stale(e) => Stale(e)',
           NEW st \in {"complete", "failed"}, subs' = [subs EXCEPT ![i].status = st],
           scan' \in [status : {"queued", "running", "complete", "failed", "superseded"}, cursor : 0 .. Threads],
           Open' => Open, settled \subseteq settled', settled' \subseteq Thread,
           NEW b \in Attempt, work' = (work \ {a}) \union {b}, Like(b, a), b.at = "report", b.sub = a.sub,
           b.entries = a.entries, Proper(b.outcome.scope), b.outcome.status \in {"ended", "finalized"},
           UNCHANGED <<connected, definition, remote, offered, exec, spent>>,
           spent["timeouts"] = 0 \/ spent["changes"] = 0 =>
              remote[i].batch \in States \/ (spent["timeouts"] = 0 /\ remote[i].batch = "none"),
           ~Astray /\ Open' => /\ Closing(b) \/ scan'.cursor = scan.cursor
                               /\ Closing(b) => \A t \in Left' : Covers(b.outcome.scope, t)'
    PROVE  IInv'
  <1>1. /\ TypeOK /\ Attempts /\ Submissions /\ Driven /\ Led /\ Sequential /\ Fresh
        /\ OneBatch /\ Placed
    BY DEF IInv
  <1>2. /\ a \in Attempt /\ Sound(a) /\ subs[i] \in Submission /\ Planned(i) /\ Handed(i)
    BY <1>1, AttemptIs, Typed DEF Submissions
  <1>3. i \in Active /\ i \in 1 .. Len(subs) /\ subs \in Seq(Submission)
    BY <1>1, Typed DEF Active, SubId1
  <1>4. i = Len(subs) /\ Active = {i}  BY <1>1, <1>3, OnlyLast
  <1>5. PICK s : s = [subs[i] EXCEPT !.status = st]  OBVIOUS
  <1>6. /\ s \in Submission /\ s.status = st /\ s.retry = subs[i].retry /\ s.manifest = subs[i].manifest
        /\ s.conts = subs[i].conts /\ s.file = subs[i].file /\ s.batch = subs[i].batch
    BY <1>2, <1>5 DEF Submission
  <1>7. subs' = [subs EXCEPT ![i] = s]  BY <1>5
  <1>8. /\ subs' \in Seq(Submission) /\ Len(subs') = Len(subs) /\ subs'[i] = s
        /\ \A j \in SubId1 : j # i => subs'[j] = subs[j]
    <2>1. /\ [subs EXCEPT ![i] = s] \in Seq(Submission) /\ Len([subs EXCEPT ![i] = s]) = Len(subs)
          /\ [subs EXCEPT ![i] = s][i] = s
          /\ \A j \in 1 .. Len(subs) : j # i => [subs EXCEPT ![i] = s][j] = subs[j]
      <3>1. s \in Submission /\ i \in 1 .. Len(subs) /\ subs \in Seq(Submission)
        BY <1>3, <1>6
      <3>. QED  BY <3>1, PutTyped
    <2>. QED  BY <1>7, <2>1 DEF SubId1
  <1>9. Active' = {}
    <2>1. ASSUME NEW j \in Active' PROVE FALSE
      <3>1. j \in SubId1 /\ subs'[j].status \in {"preparing", "submitted"}
        BY <2>1, <1>8 DEF Active, SubId1
      <3>2. j = i
        <4>1. ASSUME j # i PROVE FALSE
          <5>1. j \in Active  BY <3>1, <4>1, <1>8 DEF Active, SubId1
          <5>. QED  BY <5>1, <4>1, <1>4
        <4>. QED  BY <4>1
      <3>. QED  BY <3>1, <3>2, <1>6, <1>8
    <2>. QED  BY <2>1
  <1> DEFINE B == {b}
  <1>10. work' = (work \ {a}) \union B /\ work' \subseteq Attempt
    BY <1>1, Typed
  <1>11. TypeOK'  BY <1>1, <1>8, <1>10 DEF TypeOK
  <1>12. UNCHANGED <<remote, exec, spent>>  OBVIOUS
  <1>13. Grown /\ Monotone  BY <1>1, <1>8, <1>12, Typed DEF Monotone, Grown
  <1>14. Attempts'
    <2>1. b.kind = "finalize" => Sent(b.sub)  BY <1>2 DEF Sound, Like
    <2>2. b.outcome.status # "submitted" /\ b.outcome.status # "pending"
      OBVIOUS
    <2>3. Sound(b)  BY <1>1, <2>1, <2>2, SaysSound
    <2>4. Sound(b)'  BY <1>1, <1>11, <1>13, <2>3, StaysSound
    <2>5. work' \subseteq work \union B /\ \A d \in B : Sound(d)'
      BY <1>10, <2>4
    <2>. HIDE DEF B
    <2>. QED  BY <1>1, <1>11, <1>13, <2>5, AttemptsGo
  <1>15. Submissions'
    <2>1. ASSUME NEW j \in SubId1 PROVE Planned(j)'
      <3>1. SamePlan(j) /\ Planned(j)
        <4>1. CASE j = i  BY <4>1, <1>2, <1>6, <1>8 DEF SamePlan
        <4>2. CASE j # i  BY <4>2, <1>1, <1>8 DEF SamePlan, Submissions
        <4>. QED  BY <4>1, <4>2
      <3>2. j \notin Active'  BY <1>9
      <3>3. /\ subs'[j].retry = 0 => subs'[j].conts = <<>>
            /\ Small(ThreadsOf(subs'[j].manifest)) /\ Fitting(subs'[j].conts)
        BY <3>1 DEF Planned, SamePlan
      <3>4. Small(ThreadsOf(subs[j].manifest))' /\ Fitting(subs[j].conts)'
        BY <3>3 DEF Small, ThreadsOf, Fitting
      <3>5. ASSUME NEW e \in subs'[j].manifest PROVE Stale(e)'
        <4>1. e \in subs[j].manifest /\ Stale(e)
          BY <3>1, <3>5 DEF Planned, SamePlan
        <4>2. e \in Entry  BY <1>1, <2>1, <4>1, Typed, SubmissionTyped
        <4>. QED  BY <4>1, <4>2
      <3>. QED  BY <3>2, <3>3, <3>4, <3>5 DEF Planned
    <2>2. ASSUME NEW j \in SubId1 PROVE Handed(j)'
      <3>1. CASE j = i  BY <3>1, <1>2, <1>6, <1>8, <1>12 DEF Handed, Sent
      <3>2. CASE j # i  BY <3>2, <1>1, <1>8, <1>12 DEF Submissions, Handed, Sent
      <3>. QED  BY <3>1, <3>2
    <2>3. SubId1' = SubId1  BY <1>8 DEF SubId1
    <2>. QED  BY <2>1, <2>2, <2>3 DEF Submissions
  <1>16. Driven'  BY <1>1, <1>11, <1>12, <1>13, DrivenStays
  <1>17. Led' /\ Sequential'
    <2>1. (\A d, e \in B : d = e) /\ \A d \in B : Like(d, a)  OBVIOUS
    <2>2. Led'
      <3>. HIDE DEF B
      <3>. QED  BY <1>1, <1>10, <1>12, <2>1, LedGoes
    <2>3. ASSUME NEW d \in B, spent'["timeouts"] = 0 PROVE Alone(d)'
      <3>1. Alone(a)  BY <1>1, <1>12, <2>3 DEF Sequential
      <3>2. d.live = a.live /\ d.kind = a.kind /\ d.scope = a.scope /\ d.at = "report"
        BY DEF Like
      <3>. QED  BY <1>12, <3>1, <3>2 DEF Alone
    <2>4. Sequential'
      <3>. HIDE DEF B
      <3>. QED  BY <1>1, <1>10, <1>13, <2>1, <2>3, SequentialGoes
    <2>. QED  BY <2>2, <2>4
  <1>18. Fresh'  BY <1>9 DEF Fresh
  <1>19. OneBatch'
    <2> SUFFICES ASSUME spent["timeouts"] = 0 \/ spent["changes"] = 0, NEW j \in SubId1
                 PROVE  Over(j)'
      BY <1>8, <1>12 DEF OneBatch, SubId1
    <2>1. CASE j # i
      <3>1. j < Len(subs)  BY <1>1, <1>4, <2>1, Typed DEF SubId1
      <3>2. Over(j)  BY <1>1, <3>1 DEF OneBatch
      <3>3. \A d \in work' : d.at \in Sending => d \in work  BY DEF Sending
      <3>. QED  BY <1>12, <3>2, <3>3 DEF Over
    <2>2. CASE j = i
      <3>1. CASE remote[i].batch \in States  BY <2>2, <3>1, <1>12 DEF Over
      <3>2. CASE spent["timeouts"] = 0 /\ remote[i].batch = "none"
        <4>1. work' = {b}  BY <1>1, <3>2 DEF Sequential
        <4>2. b.at \notin Sending  BY DEF Sending
        <4>. QED  BY <2>2, <3>2, <4>1, <4>2, <1>12 DEF Over
      <3>. QED  BY <3>1, <3>2
    <2>. QED  BY <2>1, <2>2
  <1>20. Placed'
    <2> SUFFICES ASSUME ~Astray', Open' PROVE
          /\ exec'.at \in {"none", "submit"} /\ ~(\E x \in work' : Closing(x)) =>
                \A u \in Left' : Covers(exec.scope, u)'
          /\ \A x \in work' : Going(x) => \A u \in Left' : Covers(x.outcome.scope, u)'
          /\ \A j \in Active' : Holds(j)'
      BY DEF Placed
    <2>1. ~Astray /\ Open /\ spent["timeouts"] = 0
      <3>1. ~Astray  BY <1>1, <1>11, <1>13, CalmBefore
      <3>. QED  BY <1>1, <3>1, AstrayIs
    <2>2. work = {a} /\ work' = {b} /\ ~Closing(a)
      BY <1>1, <2>1 DEF Sequential, Closing
    <2>3. CASE Closing(b)
      <3>1. \A u \in Left' : Covers(b.outcome.scope, u)'  BY <2>1, <2>3
      <3>. QED  BY <1>9, <2>2, <2>3, <3>1
    <2>4. CASE ~Closing(b)
      <3>1. ~Going(b) /\ scan'.cursor = scan.cursor
        BY <2>1, <2>4 DEF Going, Closing
      <3>2. Left' \subseteq Left  BY DEF Left
      <3>3. ASSUME exec'.at \in {"none", "submit"}, NEW u \in Left' PROVE Covers(exec.scope, u)'
        <4>1. Covers(exec.scope, u)
          BY <1>1, <1>12, <2>1, <2>2, <3>2, <3>3 DEF Placed
        <4>. QED  BY <1>12, <3>1, <4>1 DEF Covers, In
      <3>. QED  BY <1>9, <2>2, <3>1, <3>3
    <2>. QED  BY <2>3, <2>4
  <1>. QED  BY <1>11, <1>14, <1>15, <1>16, <1>17, <1>18, <1>19, <1>20 DEF IInv

\* What a submission is told when its batch has been answered.
LastOf(s) == IF s.retry = 0 /\ s.manifest # {} THEN Last(ThreadsOf(s.manifest)) ELSE scan.cursor
Applied(a, i, again, hit, may, st) ==
    /\ subs[i].status \in {"preparing", "submitted"} /\ Current
    /\ again \subseteq ThreadsOf(subs[i].manifest)
    /\ hit \subseteq ThreadsOf(Hydrated(subs[i].manifest))
    /\ may => subs[i].retry < RetryLimit
    /\ threads' = [t \in Thread |->
          IF t \in hit THEN [threads[t] EXCEPT !.source = "scan", !.version = @ + 1] ELSE threads[t]]
    /\ subs' = [subs EXCEPT ![i].status = st]
    /\ settled' = settled \union (ThreadsOf(subs[i].manifest) \ again)
    /\ scan' = [scan EXCEPT !.cursor = LastOf(subs[i]),
                            !.status = IF again # {} /\ ~may THEN "failed" ELSE @]
    /\ IF again = {} \/ may THEN Reports(a, "finalized", ScopeAfter(subs[i], again), 0)
       ELSE Reports(a, "ended", FirstScope, 0)

\* The three ends of finalizeThreadLabelBatchSubmission.
LEMMA AppliesIs ==
    ASSUME NEW a, NEW i, NEW state, NEW matched, NEW invalid, Applies(a, i, state, matched, invalid)
    PROVE  \/ /\ Reports(a, "ended", FirstScope, 0) /\ scan' = Superseded
              /\ UNCHANGED <<threads, subs, settled>>
           \/ /\ subs[i].status \in {"preparing", "submitted"} /\ ~Current
              /\ scan' = Superseded /\ subs' = [subs EXCEPT ![i].status = "failed"]
              /\ Reports(a, "ended", FirstScope, 0)
              /\ UNCHANGED <<threads, settled>>
           \/ \E again, hit : \E may \in BOOLEAN, st \in {"complete", "failed"} :
                 Applied(a, i, again, hit, may, st)
  <1> DEFINE s == subs[i]
             same == ThreadsOf(Hydrated(s.manifest))
             again == IF state = "completed" THEN same \intersect invalid ELSE same
             hit == (same \ again) \intersect matched
             mayRetry == RetryLeft(s) /\ state \in {"completed", "retryable"}
             st == IF state = "completed" THEN "complete" ELSE "failed"
  <1>1. CASE /\ s.status \in {"complete", "failed"}
             /\ Reports(a, "ended", FirstScope, 0)
             /\ scan' = Superseded
             /\ UNCHANGED <<threads, subs, settled>>
    BY <1>1
  <1>2. CASE /\ s.status \in {"preparing", "submitted"} /\ ~Current
             /\ scan' = Superseded
             /\ subs' = [subs EXCEPT ![i].status = "failed"]
             /\ Reports(a, "ended", FirstScope, 0)
             /\ UNCHANGED <<threads, settled>>
    BY <1>2
  <1>3. CASE /\ s.status \in {"preparing", "submitted"} /\ Current
             /\ threads' = [t \in Thread |->
                   IF t \in hit THEN [threads[t] EXCEPT !.source = "scan", !.version = @ + 1]
                   ELSE threads[t]]
             /\ subs' = [subs EXCEPT ![i].status =
                   IF state = "completed" THEN "complete" ELSE "failed"]
             /\ settled' = settled \union (ThreadsOf(s.manifest) \ again)
             /\ scan' = [scan EXCEPT
                   !.cursor = IF s.retry = 0 /\ s.manifest # {} THEN Last(ThreadsOf(s.manifest)) ELSE @,
                   !.status = IF again # {} /\ ~mayRetry THEN "failed" ELSE @]
             /\ IF again = {} \/ mayRetry
                THEN Reports(a, "finalized", ScopeAfter(s, again), 0)
                ELSE Reports(a, "ended", FirstScope, 0)
    <2>1. PICK g : g = again  OBVIOUS
    <2>2. PICK h : h = hit  OBVIOUS
    <2>3. PICK m \in BOOLEAN : m <=> mayRetry  OBVIOUS
    <2>4. PICK x \in {"complete", "failed"} : x = st  OBVIOUS
    <2>5. g \subseteq same /\ h \subseteq same /\ same \subseteq ThreadsOf(s.manifest)
      BY <2>1, <2>2 DEF ThreadsOf, Hydrated
    <2>6. m => subs[i].retry < RetryLimit  BY <2>3 DEF RetryLeft
    <2>7. LastOf(subs[i]) = IF s.retry = 0 /\ s.manifest # {} THEN Last(ThreadsOf(s.manifest)) ELSE scan.cursor
      BY DEF LastOf
    <2>8. Applied(a, i, g, h, m, x)
      <3>1. scan' = [scan EXCEPT
                   !.cursor = IF s.retry = 0 /\ s.manifest # {} THEN Last(ThreadsOf(s.manifest)) ELSE @,
                   !.status = IF g # {} /\ ~m THEN "failed" ELSE @]
        BY <1>3, <2>1, <2>3
      <3>2. scan' = [scan EXCEPT !.cursor = LastOf(subs[i]), !.status = IF g # {} /\ ~m THEN "failed" ELSE @]
        BY <3>1, <2>7
      <3>3. /\ threads' = [t \in Thread |->
                  IF t \in h THEN [threads[t] EXCEPT !.source = "scan", !.version = @ + 1] ELSE threads[t]]
            /\ subs' = [subs EXCEPT ![i].status = x]
            /\ settled' = settled \union (ThreadsOf(s.manifest) \ g)
        BY <1>3, <2>1, <2>2, <2>4
      <3>4. IF g = {} \/ m THEN Reports(a, "finalized", ScopeAfter(subs[i], g), 0)
            ELSE Reports(a, "ended", FirstScope, 0)
        BY <1>3, <2>1, <2>3
      <3>5. s.status \in {"preparing", "submitted"} /\ Current  BY <1>3
      <3>. QED  BY <2>5, <2>6, <3>2, <3>3, <3>4, <3>5 DEF Applied
    <2>. QED  BY <2>8
  <1>. QED  BY <1>1, <1>2, <1>3 DEF Applies

\* An answer raises the version of the threads it hits, none of which the user
\* has chosen since.
LEMMA AppliedThreads ==
    ASSUME TypeOK, Submissions, NEW i \in SubId1, NEW a, NEW again, NEW hit, NEW may, NEW st,
           Applied(a, i, again, hit, may, st)
    PROVE  /\ threads' \in [Thread -> ThreadRecord]
           /\ \A e \in Entry : Stale(e) => Stale(e)'
           /\ \A t \in Thread : threads[t].late => threads'[t] = threads[t]
  <1>1. threads' = [t \in Thread |->
          IF t \in hit THEN [threads[t] EXCEPT !.source = "scan", !.version = @ + 1] ELSE threads[t]]
    BY DEF Applied
  <1>2. threads \in [Thread -> ThreadRecord]  BY Typed
  <1>3. ASSUME NEW t \in Thread
        PROVE  /\ threads'[t] \in ThreadRecord /\ threads'[t].late = threads[t].late
               /\ threads'[t].version >= threads[t].version /\ threads[t].version \in Nat
               /\ threads'[t].version \in Nat
               /\ t \notin hit => threads'[t] = threads[t]
    <2>1. threads[t] \in ThreadRecord  BY <1>2
    <2>2. threads'[t] = IF t \in hit THEN [threads[t] EXCEPT !.source = "scan", !.version = @ + 1] ELSE threads[t]
      BY <1>1
    <2>3. PICK r : r = threads[t]  OBVIOUS
    <2>4. PICK q : q = [r EXCEPT !.source = "scan", !.version = @ + 1]  OBVIOUS
    <2>5. r \in ThreadRecord /\ r.version \in Nat /\ r.version >= r.version
      BY <2>1, <2>3 DEF ThreadRecord
    <2>8. PICK v \in Nat : v = r.version + 1  BY <2>5
    <2>9. q = [r EXCEPT !.source = "scan", !.version = v]  BY <2>4, <2>8
    <2>10. q \in ThreadRecord /\ q.late = r.late /\ q.version = v
      BY <2>5, <2>8, <2>9 DEF ThreadRecord
    <2>6. q \in ThreadRecord /\ q.late = r.late /\ q.version = r.version + 1 /\ q.version >= r.version
      BY <2>5, <2>8, <2>10
    <2>7. q.version \in Nat  BY <2>5, <2>6
    <2>. QED  BY <2>2, <2>3, <2>4, <2>5, <2>6, <2>7
  <1>4. threads' \in [Thread -> ThreadRecord]  BY <1>1, <1>3
  <1>5. ASSUME NEW e \in Entry, Stale(e) PROVE Stale(e)'
    <2>1. e.thread \in Thread /\ e.version \in Nat  BY DEF Entry
    <2>2. PICK v \in Nat : v = threads[e.thread].version  BY <1>3, <2>1
    <2>3. PICK w \in Nat : w = threads'[e.thread].version  BY <1>3, <2>1
    <2>4. w >= v /\ threads'[e.thread].late = threads[e.thread].late
      BY <1>3, <2>1, <2>2, <2>3
    <2>5. e.version <= v /\ (threads[e.thread].late => e.version < v)
      BY <1>5, <2>2 DEF Stale
    <2>6. e.version <= w /\ (threads'[e.thread].late => e.version < w)
      BY <2>1, <2>4, <2>5
    <2>. QED  BY <2>3, <2>6 DEF Stale
  <1>6. ASSUME NEW t \in hit PROVE ~threads[t].late
    <2>1. PICK e \in Hydrated(subs[i].manifest) : e.thread = t
      BY <1>6 DEF Applied, ThreadsOf
    <2>2. e \in subs[i].manifest /\ threads[t].version = e.version
      BY <2>1 DEF Hydrated, Unchanged
    <2>3. Stale(e) /\ e.version \in Nat
      <3>1. Stale(e)  BY <2>2 DEF Submissions, Planned
      <3>2. e \in Entry  BY <2>2, Typed, SubmissionTyped
      <3>. QED  BY <3>1, <3>2 DEF Entry
    <2>. QED  BY <2>1, <2>2, <2>3 DEF Stale
  <1>7. ASSUME NEW t \in Thread, threads[t].late PROVE threads'[t] = threads[t]
    BY <1>3, <1>6, <1>7
  <1>. QED  BY <1>4, <1>5, <1>7

\* What the scan goes on with after a batch covers what is left.
LEMMA AfterTyped ==
    ASSUME TypeOK, Submissions, NEW i \in SubId1, NEW a, NEW again, NEW hit, NEW may, NEW st,
           Applied(a, i, again, hit, may, st), again = {} \/ may
    PROVE  ScopeAfter(subs[i], again) \in Scope /\ Proper(ScopeAfter(subs[i], again))
  <1>1. /\ subs[i] \in Submission /\ Planned(i)  BY Typed DEF Submissions
  <1>2. PICK s : s = subs[i]  OBVIOUS
  <1>3. /\ s.conts \in Seq(Continuation) /\ s.retry \in 0 .. RetryLimit /\ RetryLimit \in Nat
        /\ ThreadsOf(s.manifest) \subseteq Thread
    BY <1>1, <1>2, SubmissionTyped, ConstantsTyped
  <1>4. Fitting(s.conts) /\ Small(ThreadsOf(s.manifest)) /\ again \subseteq ThreadsOf(s.manifest)
    BY <1>1, <1>2 DEF Planned, Applied
  <1>5. CASE again = {}
    <2>1. ScopeAfter(s, again) = NextScope(s.conts)  BY <1>5 DEF ScopeAfter
    <2>. QED  BY <1>2, <1>3, <1>4, <2>1, NextScopeIs
  <1>6. CASE again # {}
    <2>1. PICK q : q = [retry |-> s.retry + 1, threads |-> again, conts |-> s.conts]
      OBVIOUS
    <2>2. ScopeAfter(s, again) = q  BY <1>6, <2>1 DEF ScopeAfter
    <2>3. s.retry < RetryLimit  BY <1>2, <1>6 DEF Applied
    <2>4. s.retry + 1 \in 0 .. RetryLimit /\ s.retry + 1 > 0  BY <1>3, <2>3
    <2>5. q \in Scope  BY <1>3, <1>4, <2>1, <2>4 DEF Scope
    <2>6. Small(again)  BY <1>3, <1>4, SmallSubset
    <2>7. q.threads = again /\ q.retry > 0 /\ q.conts = s.conts  BY <2>1, <2>4
    <2>8. Proper(q)  BY <1>4, <1>6, <2>6, <2>7 DEF Proper
    <2>. QED  BY <1>2, <2>2, <2>5, <2>8
  <1>. QED  BY <1>5, <1>6

\* The scope after it covers what it owes.
LEMMA AfterCovers ==
    ASSUME TypeOK, Submissions, NEW i \in SubId1, NEW a, NEW again, NEW hit, NEW may, NEW st,
           Applied(a, i, again, hit, may, st), again = {} \/ may, Holds(i), NEW t \in Left',
           NEW q, q = ScopeAfter(subs[i], again)
    PROVE  Covers(q, t)'
  <1>1. /\ subs[i] \in Submission /\ Planned(i)  BY Typed DEF Submissions
  <1>2. PICK s : s = subs[i]  OBVIOUS
  <1>3. /\ s.conts \in Seq(Continuation) /\ ThreadsOf(s.manifest) \subseteq Thread /\ Fitting(s.conts)
    BY <1>1, <1>2, SubmissionTyped DEF Planned
  <1>4. /\ settled' = settled \union (ThreadsOf(s.manifest) \ again)
        /\ scan' = [scan EXCEPT !.cursor = LastOf(s), !.status = IF again # {} /\ ~may THEN "failed" ELSE @]
    BY <1>2 DEF Applied
  <1>5. t \in Left /\ (t \in ThreadsOf(s.manifest) => t \in again) /\ t \in Thread
    BY <1>4 DEF Left
  <1>6. scan'.cursor = LastOf(s)  BY <1>4 DEF TypeOK
  <1>7. ASSUME t > scan.cursor PROVE t > scan'.cursor \/ t \in again
    <2>1. CASE s.retry = 0 /\ s.manifest # {}
      <3>1. ThreadsOf(s.manifest) # {}  BY <2>1 DEF ThreadsOf
      <3>2. Last(ThreadsOf(s.manifest)) \in ThreadsOf(s.manifest)
        BY <1>3, <3>1, LastIs
      <3>3. PICK m : m = Last(ThreadsOf(s.manifest))  OBVIOUS
      <3>4. m \in ThreadsOf(s.manifest) /\ m \in Nat /\ t \in Nat /\ scan'.cursor = m
        BY <1>3, <1>5, <1>6, <2>1, <3>2, <3>3, ConstantsTyped DEF LastOf
      <3>5. t <= m => t \in ThreadsOf(s.manifest)
        BY <1>2, <1>5, <1>7, <2>1, <3>4 DEF Holds
      <3>. QED  BY <1>5, <3>4, <3>5
    <2>2. CASE ~(s.retry = 0 /\ s.manifest # {})  BY <1>6, <1>7, <2>2 DEF LastOf
    <2>. QED  BY <2>1, <2>2
  <1>8. t > scan'.cursor \/ t \in again \/ In(s.conts, t)
    BY <1>2, <1>5, <1>7 DEF Holds
  <1>9. q = ScopeAfter(s, again)  BY <1>2
  <1>10. t > scan'.cursor \/ t \in q.threads \/ In(q.conts, t)
    <2>1. CASE again = {}
      <3>1. q = NextScope(s.conts)  BY <1>9, <2>1 DEF ScopeAfter
      <3>. QED  BY <1>3, <1>8, <2>1, <3>1, NextScopeIs
    <2>2. CASE again # {}
      <3>1. q = [retry |-> s.retry + 1, threads |-> again, conts |-> s.conts]
        BY <1>9, <2>2 DEF ScopeAfter
      <3>2. q.threads = again /\ q.conts = s.conts  BY <3>1
      <3>. QED  BY <1>8, <3>2
    <2>. QED  BY <2>1, <2>2
  <1>. QED  BY <1>10 DEF Covers, In

\* What an application of results leaves of the invariant.
LEMMA AppliesKeeps ==
    ASSUME IInv, NEW a \in work, NEW i \in SubId1, i = a.sub, a.at \in {"prepare", "apply"},
           NEW state, NEW matched, NEW invalid, Applies(a, i, state, matched, invalid),
           UNCHANGED <<connected, definition, remote, offered, exec, spent>>,
           spent["timeouts"] = 0 \/ spent["changes"] = 0 =>
              remote[i].batch \in States \/ (spent["timeouts"] = 0 /\ remote[i].batch = "none")
    PROVE  IInv'
  <1>1. TypeOK /\ Submissions /\ Placed  BY DEF IInv
  <1>2. a \in Attempt  BY AttemptIs
  <1>3. "ended" \in Outcomes /\ "finalized" \in Outcomes /\ 0 \in SubId /\ FirstScope \in Scope /\ Proper(FirstScope)
    BY ScopeTyped, ConstantsTyped DEF Outcomes, SubId
  <1>4. subs[i] \in Submission /\ ThreadsOf(subs[i].manifest) \subseteq Thread
    BY <1>1, Typed, SubmissionTyped
  <1>5. settled \subseteq Thread /\ threads \in [Thread -> ThreadRecord]
    BY <1>1, Typed
  <1>6. CASE /\ Reports(a, "ended", FirstScope, 0) /\ scan' = Superseded
             /\ UNCHANGED <<threads, subs, settled>>
    <2>1. /\ UNCHANGED <<mailbox, subs, remote, offered, exec, settled, spent>>
          /\ scan' \in {scan, Superseded} /\ a.at # "report"
      BY <1>6 DEF mailbox
    <2>2. "ended" \in Outcomes \ {"submitted", "skipped", "finalized"} /\ "ended" # "pending"
      BY DEF Outcomes
    <2>. QED  BY <1>6, <2>1, <2>2, ReportCarriesOn
  <1>7. CASE /\ subs[i].status \in {"preparing", "submitted"} /\ ~Current
             /\ scan' = Superseded /\ subs' = [subs EXCEPT ![i].status = "failed"]
             /\ Reports(a, "ended", FirstScope, 0)
             /\ UNCHANGED <<threads, settled>>
    <2>1. PICK b \in Attempt : /\ work' = (work \ {a}) \union {b} /\ Like(b, a)
                               /\ b.at = "report" /\ b.sub = a.sub /\ b.entries = a.entries
                               /\ b.outcome.status = "ended" /\ b.outcome.scope = FirstScope
                               /\ b.outcome.sub = 0
      BY <1>2, <1>3, <1>7, ReportsIs
    <2>2. /\ Superseded \in [status : {"queued", "running", "complete", "failed", "superseded"},
                             cursor : 0 .. Threads]
          /\ Superseded.cursor = scan.cursor /\ Superseded.status \in {scan.status, "superseded"}
      BY <1>1, SupersededIs
    <2>3. Open' => Open  BY <1>7, <2>2 DEF Open
    <2>4. \A e \in Entry : Stale(e) => Stale(e)'  BY <1>7 DEF Stale
    <2>5. ~Closing(b)  BY <2>1 DEF Closing
    <2>6. Proper(b.outcome.scope) /\ b.outcome.status \in {"ended", "finalized"}
      BY <1>3, <2>1
    <2>7. /\ threads' \in [Thread -> ThreadRecord] /\ settled \subseteq settled' /\ settled' \subseteq Thread
          /\ scan' \in [status : {"queued", "running", "complete", "failed", "superseded"}, cursor : 0 .. Threads]
          /\ scan'.cursor = scan.cursor /\ "failed" \in {"complete", "failed"}
      BY <1>5, <1>7, <2>2
    <2>8. /\ subs[i].status \in {"preparing", "submitted"} /\ subs' = [subs EXCEPT ![i].status = "failed"]
      BY <1>7
    <2>9. ~Astray /\ Open' => /\ Closing(b) \/ scan'.cursor = scan.cursor
                              /\ Closing(b) => \A t \in Left' : Covers(b.outcome.scope, t)'
      BY <2>5, <2>7
    <2>. QED  BY <2>1, <2>3, <2>4, <2>6, <2>7, <2>8, <2>9, ClosesKeeps
  <1>8. ASSUME NEW again, NEW hit, NEW may \in BOOLEAN, NEW st \in {"complete", "failed"},
               Applied(a, i, again, hit, may, st)
        PROVE  IInv'
    <2>1. /\ threads' \in [Thread -> ThreadRecord]
          /\ \A e \in Entry : Stale(e) => Stale(e)'
      BY <1>1, <1>8, AppliedThreads
    <2>2. /\ subs[i].status \in {"preparing", "submitted"} /\ Current
          /\ again \subseteq ThreadsOf(subs[i].manifest)
          /\ subs' = [subs EXCEPT ![i].status = st]
          /\ settled' = settled \union (ThreadsOf(subs[i].manifest) \ again)
          /\ scan' = [scan EXCEPT !.cursor = LastOf(subs[i]),
                                  !.status = IF again # {} /\ ~may THEN "failed" ELSE @]
          /\ IF again = {} \/ may THEN Reports(a, "finalized", ScopeAfter(subs[i], again), 0)
             ELSE Reports(a, "ended", FirstScope, 0)
      BY <1>8 DEF Applied
    <2>3. settled \subseteq settled' /\ settled' \subseteq Thread
      BY <1>4, <1>5, <2>2
    <2>4. LastOf(subs[i]) \in 0 .. Threads
      <3>1. CASE subs[i].retry = 0 /\ subs[i].manifest # {}
        <4>1. ThreadsOf(subs[i].manifest) # {}  BY <3>1 DEF ThreadsOf
        <4>2. Last(ThreadsOf(subs[i].manifest)) \in Thread
          BY <1>4, <4>1, LastIs
        <4>. QED  BY <3>1, <4>2, ConstantsTyped DEF LastOf, Thread
      <3>2. CASE ~(subs[i].retry = 0 /\ subs[i].manifest # {})
        BY <1>1, <3>2, Typed DEF LastOf
      <3>. QED  BY <3>1, <3>2
    <2>5. Open  BY <2>2 DEF Current, Open
    <2>6. /\ scan' \in [status : {"queued", "running", "complete", "failed", "superseded"}, cursor : 0 .. Threads]
          /\ Open' => (again = {} \/ may)
      <3>1. scan \in [status : {"queued", "running", "complete", "failed", "superseded"}, cursor : 0 .. Threads]
        BY <1>1 DEF TypeOK
      <3>2. PICK c \in 0 .. Threads : c = LastOf(subs[i])  BY <2>4
      <3>3. scan' = [scan EXCEPT !.cursor = c, !.status = IF again # {} /\ ~may THEN "failed" ELSE @]
        BY <2>2, <3>2
      <3>. QED  BY <3>1, <3>3 DEF Open
    <2>7. i \in Active  BY <2>2 DEF Active, SubId1
    <2>8. CASE again = {} \/ may
      <3>1. ScopeAfter(subs[i], again) \in Scope /\ Proper(ScopeAfter(subs[i], again))
        BY <1>1, <1>8, <2>8, AfterTyped
      <3>2. PICK q \in Scope : q = ScopeAfter(subs[i], again)  BY <3>1
      <3>3. Reports(a, "finalized", q, 0)  BY <2>2, <2>8, <3>2
      <3>4. PICK b \in Attempt : /\ work' = (work \ {a}) \union {b} /\ Like(b, a)
                                 /\ b.at = "report" /\ b.sub = a.sub /\ b.entries = a.entries
                                 /\ b.outcome.status = "finalized" /\ b.outcome.scope = q
                                 /\ b.outcome.sub = 0
        BY <1>2, <1>3, <3>3, ReportsIs
      <3>5. Closing(b)  BY <3>4 DEF Closing
      <3>6. ASSUME ~Astray, NEW t \in Left' PROVE Covers(b.outcome.scope, t)'
        <4>1. Holds(i)  BY <1>1, <2>5, <2>7, <3>6 DEF Placed
        <4>2. Covers(q, t)'  BY <1>1, <1>8, <2>8, <3>2, <3>6, <4>1, AfterCovers
        <4>. QED  BY <3>4, <4>2
      <3>7. ~Astray /\ Open' => /\ Closing(b) \/ scan'.cursor = scan.cursor
                                /\ Closing(b) => \A t \in Left' : Covers(b.outcome.scope, t)'
        BY <3>5, <3>6
      <3>8. Proper(b.outcome.scope) /\ b.outcome.status \in {"ended", "finalized"}
        BY <3>1, <3>2, <3>4
      <3>. QED  BY <2>1, <2>2, <2>3, <2>5, <2>6, <3>4, <3>7, <3>8, ClosesKeeps
    <2>9. CASE ~(again = {} \/ may)
      <3>1. Reports(a, "ended", FirstScope, 0)  BY <2>2, <2>9
      <3>2. PICK b \in Attempt : /\ work' = (work \ {a}) \union {b} /\ Like(b, a)
                                 /\ b.at = "report" /\ b.sub = a.sub /\ b.entries = a.entries
                                 /\ b.outcome.status = "ended" /\ b.outcome.scope = FirstScope
                                 /\ b.outcome.sub = 0
        BY <1>2, <1>3, <3>1, ReportsIs
      <3>3. ~Astray /\ Open' => /\ Closing(b) \/ scan'.cursor = scan.cursor
                                /\ Closing(b) => \A t \in Left' : Covers(b.outcome.scope, t)'
        BY <2>6, <2>9
      <3>4. Proper(b.outcome.scope) /\ b.outcome.status \in {"ended", "finalized"}
        BY <1>3, <3>2
      <3>. QED  BY <2>1, <2>2, <2>3, <2>5, <2>6, <3>2, <3>3, <3>4, ClosesKeeps
    <2>. QED  BY <2>8, <2>9
  <1>9. \/ /\ Reports(a, "ended", FirstScope, 0) /\ scan' = Superseded
           /\ UNCHANGED <<threads, subs, settled>>
        \/ /\ subs[i].status \in {"preparing", "submitted"} /\ ~Current
           /\ scan' = Superseded /\ subs' = [subs EXCEPT ![i].status = "failed"]
           /\ Reports(a, "ended", FirstScope, 0)
           /\ UNCHANGED <<threads, settled>>
        \/ \E again, hit : \E may \in BOOLEAN, st \in {"complete", "failed"} :
              Applied(a, i, again, hit, may, st)
    BY AppliesIs
  <1>. QED  BY <1>6, <1>7, <1>8, <1>9

\* Results are applied.
LEMMA ApplyKeeps ==
    ASSUME IInv, NEW a \in work, Apply(a)
    PROVE  IInv'
  <1>1. /\ a.at = "apply" /\ UNCHANGED <<connected, definition, remote, offered, exec, spent>>
        /\ Applies(a, a.sub, remote[a.sub].batch, remote[a.sub].matched, remote[a.sub].invalid)
    BY DEF Apply
  <1>2. a.kind = "finalize" /\ remote[a.sub].batch \in States
    BY <1>1, AttemptIs DEF Sound
  <1>3. a.sub \in SubId1  BY <1>2, AttemptIs
  <1>4. PICK i \in SubId1 : i = a.sub  BY <1>3
  <1>5. PICK state : state = remote[i].batch  OBVIOUS
  <1>6. PICK matched : matched = remote[i].matched  OBVIOUS
  <1>7. PICK invalid : invalid = remote[i].invalid  OBVIOUS
  <1>8. Applies(a, i, state, matched, invalid)  BY <1>1, <1>4, <1>5, <1>6, <1>7
  <1>9. remote[i].batch \in States /\ a.at \in {"prepare", "apply"}
    BY <1>1, <1>2, <1>4
  <1>. QED  BY <1>1, <1>4, <1>8, <1>9, AppliesKeeps

\* Prepare goes on with what an earlier attempt has stored, stores what fits,
\* closes an empty submission, or throws.
LEMMA PrepareKeeps ==
    ASSUME IInv, NEW a \in work, Prepare(a)
    PROVE  IInv'
  <1>1. TypeOK /\ Submissions /\ Sequential  BY DEF IInv
  <1>2. a.at = "prepare" /\ UNCHANGED <<connected, definition, remote, offered, exec, spent>>
    BY DEF Prepare
  <1>3. /\ a \in Attempt /\ Sound(a) /\ a.at \in Sending /\ a.sub \in SubId1
        /\ subs[a.sub] \in Submission /\ remote[a.sub] \in Remote /\ Handed(a.sub)
    BY <1>2, AttemptIs DEF Sending
  <1>4. CASE a.entries = {}
    <2>1. Applies(a, a.sub, "completed", {}, ThreadsOf(subs[a.sub].manifest))
      BY <1>4 DEF Prepare, Skips
    <2>2. PICK i \in SubId1 : i = a.sub  BY <1>3
    <2>3. PICK invalid : invalid = ThreadsOf(subs[i].manifest)  OBVIOUS
    <2>4. PICK matched : matched = {}  OBVIOUS
    <2>5. Applies(a, i, "completed", matched, invalid)
      BY <2>1, <2>2, <2>3, <2>4
    <2>6. spent["changes"] # 0  BY <1>2, <1>3, <1>4 DEF Sound
    <2>7. spent["timeouts"] = 0 => remote[i].batch = "none"
      BY <1>1, <1>2, <2>2 DEF Sequential, Alone, Sent
    <2>8. a.at \in {"prepare", "apply"}  BY <1>2
    <2>. QED  BY <1>2, <2>2, <2>5, <2>6, <2>7, <2>8, AppliesKeeps
  <1>5. CASE a.entries # {}
    <2>1. UNCHANGED <<threads, scan>>  BY <1>5 DEF Prepare
    <2>2. PICK t \in ThreadsOf(a.entries) :
            IF subs[a.sub].file # {} \/ subs[a.sub].batch \/ subs[a.sub].status # "preparing"
            THEN /\ Becomes(a, [a EXCEPT !.at = IF subs[a.sub].file # {} THEN "batch" ELSE "upload",
                                         !.file = IF subs[a.sub].file # {} THEN subs[a.sub].file
                                                  ELSE ThreadsOf(Fits(a.entries, t))])
                 /\ UNCHANGED <<subs, settled>>
            ELSE IF Complete(subs[a.sub], Fits(a.entries, t), a.file \ ThreadsOf(Fits(a.entries, t)))
            THEN /\ subs' = [subs EXCEPT ![a.sub].manifest = Fits(a.entries, t),
                       ![a.sub].conts = Kept(subs[a.sub], a.file \ ThreadsOf(Fits(a.entries, t)))]
                 /\ settled' = settled \union
                      {u \in ThreadsOf(subs[a.sub].manifest \ a.entries) :
                           u < Last(ThreadsOf(Fits(a.entries, t)))}
                 /\ Becomes(a, [a EXCEPT !.at = "upload", !.file = ThreadsOf(Fits(a.entries, t))])
            ELSE Throws(a) /\ UNCHANGED <<subs, settled>>
      BY <1>5 DEF Prepare
    <2>3. PICK taken : taken = Fits(a.entries, t)  OBVIOUS
    <2>4. PICK excluded : excluded = a.file \ ThreadsOf(taken)  OBVIOUS
    <2>5. ThreadsOf(taken) \subseteq Thread
      <3>1. \A e \in taken : e.thread \in Thread
        BY <1>3, <2>3, AttemptTyped DEF Fits
      <3>. QED  BY <3>1 DEF ThreadsOf
    <2>6. UNCHANGED <<mailbox, scan, remote, offered, exec, spent>>
      BY <1>2, <2>1 DEF mailbox
    <2>7. CASE subs[a.sub].file # {} \/ subs[a.sub].batch \/ subs[a.sub].status # "preparing"
      <3>1. PICK f : f = IF subs[a.sub].file # {} THEN subs[a.sub].file ELSE ThreadsOf(taken)
        OBVIOUS
      <3>2. f \subseteq Thread  BY <1>3, <2>5, <3>1, SubmissionTyped
      <3>3. PICK at : at = IF subs[a.sub].file # {} THEN "batch" ELSE "upload"
        OBVIOUS
      <3>4. PICK b : b = [a EXCEPT !.at = at, !.file = f]  OBVIOUS
      <3>5. at \in {"batch", "upload"} /\ (at = "batch" => remote[a.sub].files # {})
        BY <1>3, <3>3 DEF Handed
      <3>6. /\ b \in Attempt /\ Like(b, a) /\ b.at = at /\ b.sub = a.sub /\ b.entries = a.entries
            /\ b.outcome = a.outcome
        BY <1>3, <3>2, <3>4, <3>5 DEF Attempt, Like
      <3>7. work' = (work \ {a}) \union {b} /\ UNCHANGED <<subs, settled>>
        <4>1. /\ Becomes(a, [a EXCEPT !.at = IF subs[a.sub].file # {} THEN "batch" ELSE "upload",
                                      !.file = IF subs[a.sub].file # {} THEN subs[a.sub].file
                                               ELSE ThreadsOf(Fits(a.entries, t))])
              /\ UNCHANGED <<subs, settled>>
          BY <2>2, <2>7
        <4>2. Becomes(a, b)  BY <2>3, <3>1, <3>3, <3>4, <4>1
        <4>. QED  BY <4>1, <4>2 DEF Becomes
      <3>8. work' \subseteq Attempt  BY <1>1, <3>6, <3>7, Typed
      <3>9. UNCHANGED <<mailbox, subs, remote, offered, exec, settled, spent>> /\ scan' \in {scan, Superseded}
        BY <2>6, <3>7
      <3>10. TypeOK'  BY <1>1, <3>8, <3>9, TypeOfWork
      <3>11. Sound(b)  BY <1>3, <3>5, <3>6 DEF Sound, Like, Sending
      <3>12. /\ ~Going(b) /\ b.at # "prepare" /\ b.at \notin {"file", "prepare"} /\ a.at # "report"
             /\ UNCHANGED threads
        BY <1>2, <2>1, <3>5, <3>6 DEF Going
      <3>. QED  BY <1>3, <3>6, <3>7, <3>9, <3>10, <3>11, <3>12, WorkCarriesOn
    <2>8. CASE /\ ~(subs[a.sub].file # {} \/ subs[a.sub].batch \/ subs[a.sub].status # "preparing")
               /\ Complete(subs[a.sub], taken, excluded)
      <3>1. /\ subs' = [subs EXCEPT ![a.sub].manifest = taken,
                           ![a.sub].conts = Kept(subs[a.sub], excluded)]
            /\ settled' = settled \union
                 {u \in ThreadsOf(subs[a.sub].manifest \ a.entries) : u < Last(ThreadsOf(taken))}
            /\ work' = (work \ {a}) \union {[a EXCEPT !.at = "upload", !.file = ThreadsOf(taken)]}
        BY <2>2, <2>3, <2>4, <2>8 DEF Becomes
      <3>2. subs[a.sub].status = "preparing" /\ Complete(subs[a.sub], taken, excluded)
        BY <2>8
      <3>. QED  BY <1>2, <2>3, <2>4, <2>6, <3>1, <3>2, TakesKeeps
    <2>9. CASE /\ ~(subs[a.sub].file # {} \/ subs[a.sub].batch \/ subs[a.sub].status # "preparing")
               /\ ~Complete(subs[a.sub], taken, excluded)
      <3>1. work' = work \ {a} /\ UNCHANGED <<subs, settled>>
        BY <2>2, <2>3, <2>4, <2>9 DEF Throws
      <3>2. work' \subseteq Attempt  BY <3>1, <1>1, Typed
      <3>3. UNCHANGED <<mailbox, subs, remote, offered, exec, settled, spent>> /\ scan' \in {scan, Superseded}
        BY <2>6, <3>1
      <3>4. TypeOK'  BY <1>1, <3>2, <3>3, TypeOfWork
      <3>5. a.at # "report" /\ UNCHANGED threads  BY <1>2, <2>1
      <3>. QED  BY <3>1, <3>3, <3>4, <3>5, Throwing
    <2>. QED  BY <2>7, <2>8, <2>9
  <1>. QED  BY <1>4, <1>5

-----------------------------------------------------------------------------
(* Steps that claim the next page.                                         *)

\* While all is calm, what is left is in the scope an attempt claims for.
LEMMA ClaimCovers ==
    ASSUME IInv, NEW a \in work, a.at = "claim", Open, ~Astray
    PROVE  /\ work = {a} /\ a.scope = exec.scope /\ exec.at = "submit"
           /\ \A t \in Left : Covers(a.scope, t)
  <1>1. TypeOK /\ Sequential /\ Placed  BY DEF IInv
  <1>2. spent["timeouts"] = 0  BY <1>1, AstrayIs
  <1>3. work = {a} /\ Alone(a)  BY <1>1, <1>2 DEF Sequential
  <1>4. a.kind = "submit"  BY AttemptIs DEF Sound
  <1>5. a.scope = exec.scope /\ exec.at = "submit"  BY <1>3, <1>4 DEF Alone
  <1>6. ~(\E x \in work : Closing(x))  BY <1>3 DEF Closing
  <1>. QED  BY <1>1, <1>3, <1>5, <1>6 DEF Placed

\* Nothing is out when a page can be claimed.
LEMMA ClaimableIs ==
    ASSUME Claimable
    PROVE  Active = {} /\ Open /\ scan.status \in {"queued", "running"}
  <1>1. \A i \in Active : subs[i].status \in {"preparing", "submitted"}
    BY DEF Active
  <1>2. Active = {}  BY <1>1 DEF Claimable, Resumed
  <1>. QED  BY <1>2 DEF Claimable, Current, Open

\* A page that has nothing: its threads have all been passed over.
LEMMA PassedAll ==
    ASSUME TypeOK, NEW scope, Proper(scope), scope.threads \subseteq Thread, Page(scope) = {},
           NEW P, P = Passed(scope, {})
    PROVE  /\ P \subseteq Thread
           /\ scope.threads # {} => scope.threads \subseteq P
           /\ scope.threads = {} => \A t \in Thread : t > scan.cursor => t \in P
  <1>1. Found(scope) = {}  BY PageIs
  <1>2. CASE scope.threads # {}
    <2>1. P = {t \in scope.threads : ~Eligible(t)}  BY <1>2 DEF Passed
    <2>2. \A t \in scope.threads : ~Eligible(t)  BY <1>1, <1>2 DEF Found
    <2>. QED  BY <1>2, <2>1, <2>2
  <1>3. CASE scope.threads = {}
    <2>1. P = {t \in Thread : t > scan.cursor /\ ~Eligible(t)}
      BY <1>3 DEF Passed
    <2>2. \A t \in Thread : t > scan.cursor => ~Eligible(t)
      BY <1>1, <1>3 DEF Found
    <2>. QED  BY <1>3, <2>1, <2>2
  <1>. QED  BY <1>2, <1>3

\* Claim finds no thread: the attempt reports what comes after the scope.
LEMMA EmptyReports ==
    ASSUME IInv, TypeOK', NEW a \in work, a.at = "claim", Active = {},
           UNCHANGED <<mailbox, subs, remote, offered, exec, spent>>,
           settled \subseteq settled', scan'.cursor = scan.cursor, Open' => Open,
           NEW b \in Attempt, work' = (work \ {a}) \union {b}, Like(b, a), b.at = "report", b.sub = a.sub,
           b.entries = a.entries, Proper(b.outcome.scope), b.outcome.status \in {"skipped", "exhausted"},
           ~Astray /\ Open' => \A t \in Left' : Covers(b.outcome.scope, t)'
    PROVE  IInv'
  <1>1. /\ TypeOK /\ Attempts /\ Submissions /\ Driven /\ Led /\ Sequential /\ Fresh
        /\ OneBatch /\ Placed
    BY DEF IInv
  <1>2. a \in Attempt /\ Sound(a)  BY AttemptIs
  <1>3. UNCHANGED <<threads, subs, remote, exec, spent>>  BY DEF mailbox
  <1>4. Grown /\ Monotone /\ Active' = {}
    <2>1. Active' = Active  BY <1>3 DEF Active
    <2>. QED  BY <1>1, <1>3, <2>1, NothingGrows
  <1> DEFINE B == {b}
  <1>5. work' = (work \ {a}) \union B  OBVIOUS
  <1>6. Attempts'
    <2>1. b.kind = "finalize" => Sent(b.sub)  BY <1>2 DEF Sound, Like
    <2>2. b.outcome.status # "submitted" /\ b.outcome.status # "pending"
      OBVIOUS
    <2>3. Sound(b)  BY <1>1, <2>1, <2>2, SaysSound
    <2>4. Sound(b)'  BY <1>1, <1>4, <2>3, StaysSound
    <2>5. work' \subseteq work \union B /\ \A d \in B : Sound(d)'  BY <1>5, <2>4
    <2>. HIDE DEF B
    <2>. QED  BY <1>1, <1>4, <2>5, AttemptsGo
  <1>7. Submissions'  BY <1>1, <1>3, <1>4, SubmissionsStay
  <1>8. Driven'  BY <1>1, <1>3, <1>4, DrivenStays
  <1>9. Led' /\ Sequential'
    <2>1. (\A d, e \in B : d = e) /\ \A d \in B : Like(d, a)  OBVIOUS
    <2>2. Led'  BY <1>1, <1>3, <1>5, <2>1, LedGoes
    <2>3. ASSUME NEW d \in B, spent'["timeouts"] = 0 PROVE Alone(d)'
      <3>1. Alone(a)  BY <1>1, <1>3, <2>3 DEF Sequential
      <3>. QED  BY <1>3, <3>1 DEF Alone, Like
    <2>4. Sequential'
      <3>. HIDE DEF B
      <3>. QED  BY <1>1, <1>4, <1>5, <2>1, <2>3, SequentialGoes
    <2>. QED  BY <2>2, <2>4
  <1>10. Fresh'  BY <1>4 DEF Fresh
  <1>11. OneBatch'
    <2>1. \A j \in SubId1 : remote'[j].batch = remote[j].batch  BY <1>3
    <2>2. \A d \in work' : d.at \in Sending => d.sub \in Active \/ \E c \in work : c.at \in Sending /\ c.sub = d.sub
      BY DEF Sending
    <2>3. Len(subs') = Len(subs)  BY <1>3
    <2>. QED  BY <1>1, <1>4, <2>1, <2>2, <2>3, OneBatchStays
  <1>12. Placed'
    <2> SUFFICES ASSUME ~Astray', Open' PROVE
          /\ exec'.at \in {"none", "submit"} /\ ~(\E x \in work' : Closing(x)) =>
                \A u \in Left' : Covers(exec.scope, u)'
          /\ \A x \in work' : Going(x) => \A u \in Left' : Covers(x.outcome.scope, u)'
          /\ \A j \in Active' : Holds(j)'
      BY DEF Placed
    <2>1. ~Astray /\ Open  BY <1>1, <1>4, CalmBefore
    <2>2. work = {a} /\ \A t \in Left : Covers(a.scope, t)  BY <2>1, ClaimCovers
    <2>3. a.scope = exec.scope  BY <2>1, ClaimCovers
    <2>4. Left' \subseteq Left  BY DEF Left
    <2>5. \A u \in Left' : Covers(exec.scope, u)'
      <3> SUFFICES ASSUME NEW u \in Left' PROVE Covers(exec.scope, u)'
        OBVIOUS
      <3>1. Covers(exec.scope, u)  BY <2>2, <2>3, <2>4
      <3>. QED  BY <1>3, <3>1 DEF Covers, In
    <2>6. \A x \in work' : \A u \in Left' : Covers(x.outcome.scope, u)'
      BY <2>1, <2>2
    <2>. QED  BY <1>4, <2>5, <2>6
  <1>. QED  BY <1>6, <1>7, <1>8, <1>9, <1>10, <1>11, <1>12 DEF IInv

\* A claim that finds nothing.
LEMMA ClaimEmptyKeeps ==
    ASSUME IInv, NEW a \in work, a.at = "claim", ClaimEmpty(a),
           UNCHANGED <<mailbox, offered, exec, spent>>
    PROVE  IInv'
  <1>1. TypeOK  BY DEF IInv
  <1>2. a \in Attempt /\ Sound(a) /\ Proper(a.scope) /\ a.scope \in Scope
    BY AttemptIs, AttemptTyped DEF Sound
  <1>3. PICK scope : scope = a.scope  OBVIOUS
  <1>4. /\ Proper(scope) /\ scope.threads \subseteq Thread /\ scope.conts \in Seq(Continuation)
        /\ Fitting(scope.conts)
    BY <1>2, <1>3 DEF Scope, Proper
  <1>5. /\ Active = {} /\ Open /\ Page(scope) = {} /\ UNCHANGED <<subs, remote>>
        /\ settled' = settled \union Passed(scope, {})
    BY <1>3, ClaimableIs DEF ClaimEmpty
  <1>6. PICK P : P = Passed(scope, {})  OBVIOUS
  <1>7. /\ P \subseteq Thread
        /\ scope.threads # {} => scope.threads \subseteq P
    BY <1>1, <1>4, <1>5, <1>6, PassedAll
  <1>8. settled \subseteq settled' /\ settled' \subseteq Thread /\ settled' = settled \union P
    BY <1>1, <1>5, <1>6, <1>7, Typed
  <1>9. UNCHANGED <<mailbox, subs, remote, offered, exec, spent>>  BY <1>5
  <1>10. "skipped" \in Outcomes /\ "exhausted" \in Outcomes /\ 0 \in SubId /\ FirstScope \in Scope /\ Proper(FirstScope)
    BY ScopeTyped, ConstantsTyped DEF Outcomes, SubId
  <1>11. CASE scope.threads # {}
    <2>1. Reports(a, "skipped", NextScope(scope.conts), 0) /\ scan' = scan
      BY <1>3, <1>11 DEF ClaimEmpty
    <2>2. /\ NextScope(scope.conts) \in Scope /\ Proper(NextScope(scope.conts))
          /\ \A t : In(scope.conts, t) => t \in NextScope(scope.conts).threads \/ In(NextScope(scope.conts).conts, t)
      BY <1>4, NextScopeIs
    <2>3. PICK q \in Scope : q = NextScope(scope.conts)  BY <2>2
    <2>4. Reports(a, "skipped", q, 0)  BY <2>1, <2>3
    <2>5. PICK b \in Attempt : /\ work' = (work \ {a}) \union {b} /\ Like(b, a)
                               /\ b.at = "report" /\ b.sub = a.sub /\ b.entries = a.entries
                               /\ b.outcome.status = "skipped" /\ b.outcome.scope = q
                               /\ b.outcome.sub = 0
      BY <1>2, <1>10, <2>4, ReportsIs
    <2>6. work' \subseteq Attempt  BY <1>1, <2>5, Typed
    <2>7. TypeOK'  BY <1>1, <1>8, <1>9, <2>1, <2>6 DEF TypeOK, mailbox
    <2>8. ASSUME ~Astray, NEW t \in Left' PROVE Covers(b.outcome.scope, t)'
      <3>1. t \in Left /\ t \notin P  BY <1>8, <2>8 DEF Left
      <3>2. Covers(a.scope, t)  BY <1>5, <2>8, <3>1, ClaimCovers
      <3>3. t > scan.cursor \/ In(scope.conts, t)
        BY <1>3, <1>7, <1>11, <3>1, <3>2 DEF Covers
      <3>4. t > scan'.cursor \/ t \in q.threads \/ In(q.conts, t)
        BY <2>1, <2>2, <2>3, <3>3
      <3>5. b.outcome.scope = q  BY <2>5
      <3>6. Covers(q, t)'  BY <3>4 DEF Covers, In
      <3>. QED  BY <3>5, <3>6
    <2>9. Proper(b.outcome.scope) /\ b.outcome.status \in {"skipped", "exhausted"}
      BY <2>2, <2>3, <2>5
    <2>10. scan'.cursor = scan.cursor /\ (Open' => Open)  BY <2>1 DEF Open
    <2>. QED  BY <1>5, <1>8, <1>9, <2>5, <2>7, <2>8, <2>9, <2>10, EmptyReports
  <1>12. CASE scope.threads = {}
    <2>1. Reports(a, "exhausted", FirstScope, 0) /\ scan' = [scan EXCEPT !.status = "complete"]
      BY <1>3, <1>12 DEF ClaimEmpty
    <2>2. PICK b \in Attempt : /\ work' = (work \ {a}) \union {b} /\ Like(b, a)
                               /\ b.at = "report" /\ b.sub = a.sub /\ b.entries = a.entries
                               /\ b.outcome.status = "exhausted" /\ b.outcome.scope = FirstScope
                               /\ b.outcome.sub = 0
      BY <1>2, <1>10, <2>1, ReportsIs
    <2>3. work' \subseteq Attempt  BY <1>1, <2>2, Typed
    <2>4. /\ scan' \in [status : {"queued", "running", "complete", "failed", "superseded"}, cursor : 0 .. Threads]
          /\ scan'.status = "complete" /\ scan'.cursor = scan.cursor
      BY <1>1, <2>1 DEF TypeOK
    <2>5. TypeOK'  BY <1>1, <1>8, <1>9, <2>3, <2>4 DEF TypeOK, mailbox
    <2>6. ~Open'  BY <2>4 DEF Open
    <2>7. Proper(b.outcome.scope) /\ b.outcome.status \in {"skipped", "exhausted"}
      BY <1>10, <2>2
    <2>. QED  BY <1>5, <1>8, <1>9, <2>2, <2>4, <2>5, <2>6, <2>7, EmptyReports
  <1>. QED  BY <1>11, <1>12

\* A page: its threads are asked about, and those it passes over are not left.
LEMMA PageHolds ==
    ASSUME TypeOK, NEW scope, Proper(scope), scope.threads \subseteq Thread, Page(scope) # {},
           NEW page, page = Page(scope), NEW P, P = Passed(scope, page), NEW t \in Thread, t \notin P
    PROVE  /\ t \in scope.threads => t \in page
           /\ scope.threads = {} =>
                 \A u \in page : u > scan.cursor /\ (t > scan.cursor /\ t <= u => t \in page)
  <1>1. /\ page \subseteq Found(scope) /\ page \subseteq Thread
        /\ \A v \in Found(scope), u \in page : v <= u => v \in page
        /\ scope.threads # {} => page = Found(scope)
    BY PageIs DEF Proper
  <1>2. t \in Nat /\ \A u \in page : u \in Nat  BY <1>1, ConstantsTyped
  <1>3. ASSUME t \in scope.threads PROVE t \in page
    <2>1. P = {u \in scope.threads : ~Eligible(u)}  BY <1>3 DEF Passed
    <2>2. Eligible(t)  BY <1>3, <2>1
    <2>3. t \in Found(scope)  BY <1>3, <2>2 DEF Found
    <2>. QED  BY <1>1, <1>3, <2>3
  <1>4. ASSUME scope.threads = {}, NEW u \in page PROVE u > scan.cursor
    BY <1>1, <1>4 DEF Found
  <1>5. ASSUME scope.threads = {}, NEW u \in page, t > scan.cursor, t <= u PROVE t \in page
    <2>1. CASE Eligible(t)
      <3>1. t \in Found(scope)  BY <1>5, <2>1 DEF Found
      <3>. QED  BY <1>1, <1>5, <3>1
    <2>2. CASE ~Eligible(t)
      <3>1. P = {v \in Thread : v > scan.cursor /\ ~Eligible(v) /\ (page = {} \/ v < Last(page))}
        BY <1>5 DEF Passed
      <3>2. PICK m : m = Last(page)  OBVIOUS
      <3>3. m \in page /\ u <= m  BY <1>1, <1>5, <3>2, LastIs
      <3>4. ~(t < m)  BY <1>5, <2>2, <3>1, <3>2
      <3>5. t = m  BY <1>2, <1>5, <3>3, <3>4
      <3>. QED  BY <3>3, <3>5
    <2>. QED  BY <2>1, <2>2
  <1>. QED  BY <1>3, <1>4, <1>5

\* Claim takes the next page.
LEMMA ClaimPageKeeps ==
    ASSUME IInv, NEW a \in work, a.at = "claim", ClaimPage(a),
           UNCHANGED <<mailbox, offered, exec, spent>>
    PROVE  IInv'
  <1>1. /\ TypeOK /\ Attempts /\ Submissions /\ Driven /\ Led /\ Sequential /\ Fresh
        /\ OneBatch /\ Placed
    BY DEF IInv
  <1>2. a \in Attempt /\ Sound(a) /\ Proper(a.scope) /\ a.scope \in Scope /\ a.kind = "submit"
    BY AttemptIs, AttemptTyped DEF Sound
  <1>3. PICK scope : scope = a.scope  OBVIOUS
  <1>4. /\ Proper(scope) /\ scope.threads \subseteq Thread /\ scope.conts \in Seq(Continuation)
        /\ Fitting(scope.conts) /\ scope.retry \in 0 .. RetryLimit
        /\ scope.threads = {} => scope.conts = <<>> /\ scope.retry = 0
        /\ scope.threads # {} => scope.retry > 0
    BY <1>2, <1>3 DEF Scope, Proper
  <1>5. PICK page : page = Page(scope)  OBVIOUS
  <1>6. PICK M : M = {[thread |-> t, content |-> threads[t].content,
                       version |-> threads[t].version] : t \in page}
    OBVIOUS
  <1>7. PICK n : n = Len(subs) + 1  OBVIOUS
  <1>8. /\ Claimable /\ page # {} /\ Len(subs) < MaxSubs
        /\ subs' = Append(subs, [status |-> "preparing", retry |-> scope.retry,
                                 manifest |-> M, conts |-> scope.conts,
                                 file |-> {}, batch |-> FALSE])
        /\ remote' = Append(remote, [files |-> {}, batch |-> "none", asked |-> {},
                                     matched |-> {}, invalid |-> {}])
        /\ scan' = [scan EXCEPT !.status = "running"]
        /\ settled' = settled \union Passed(scope, page)
        /\ Becomes(a, [a EXCEPT !.at = "file", !.sub = n, !.entries = M])
    BY <1>3, <1>5, <1>6, <1>7 DEF ClaimPage
  <1>9. /\ page \subseteq Found(scope) /\ page \subseteq Thread /\ Small(page)
    BY <1>5, PageIs
  <1>10. \A t \in page : threads[t] \in ThreadRecord /\ Eligible(t)
    BY <1>1, <1>9, Typed DEF Found
  <1>11. /\ M \subseteq Entry /\ M # {} /\ ThreadsOf(M) = page
         /\ \A e \in M : Stale(e) /\ Unchanged(e)
    <2>1. ASSUME NEW e \in M PROVE e \in Entry /\ e.thread \in page /\ Stale(e) /\ Unchanged(e)
      <3>1. PICK t \in page : e = [thread |-> t, content |-> threads[t].content, version |-> threads[t].version]
        BY <1>6, <2>1
      <3>2. e.thread = t /\ e.content = threads[t].content /\ e.version = threads[t].version
        BY <3>1
      <3>3. threads[t].content \in Nat /\ threads[t].version \in Nat /\ threads[t].inbox /\ ~threads[t].late
            /\ t \in Thread
        BY <1>9, <1>10 DEF ThreadRecord, Eligible
      <3>4. e \in Entry  BY <3>1, <3>3 DEF Entry
      <3>5. threads[t].version <= threads[t].version  BY <3>3
      <3>6. Stale(e)  BY <3>2, <3>3, <3>5 DEF Stale
      <3>. QED  BY <3>2, <3>3, <3>4, <3>6 DEF Unchanged
    <2>2. ASSUME NEW t \in page PROVE \E e \in M : e.thread = t
      <3>1. PICK e : e = [thread |-> t, content |-> threads[t].content, version |-> threads[t].version]
        OBVIOUS
      <3>2. e \in M /\ e.thread = t  BY <1>6, <3>1
      <3>. QED  BY <3>2
    <2>3. ThreadsOf(M) = page  BY <2>1, <2>2 DEF ThreadsOf
    <2>4. M # {}  BY <1>8, <2>2
    <2>. QED  BY <2>1, <2>3, <2>4
  <1>12. Active = {} /\ Open  BY <1>8, ClaimableIs
  <1>13. PICK s : s = [status |-> "preparing", retry |-> scope.retry, manifest |-> M,
                       conts |-> scope.conts, file |-> {}, batch |-> FALSE]
    OBVIOUS
  <1>14. /\ s \in Submission /\ s.status = "preparing" /\ s.retry = scope.retry /\ s.manifest = M
         /\ s.conts = scope.conts /\ s.file = {} /\ s.batch = FALSE
    BY <1>4, <1>11, <1>13 DEF Submission
  <1>15. PICK r : r = [files |-> {}, batch |-> "none", asked |-> {}, matched |-> {}, invalid |-> {}]
    OBVIOUS
  <1>16. r \in Remote /\ r.files = {} /\ r.batch = "none"  BY <1>15 DEF Remote
  <1>17. subs \in Seq(Submission) /\ remote \in Seq(Remote) /\ Len(remote) = Len(subs) /\ Len(subs) \in Nat
    BY <1>1, Typed
  <1>18. /\ subs' \in Seq(Submission) /\ Len(subs') = n /\ subs'[n] = s
         /\ \A j \in 1 .. Len(subs) : subs'[j] = subs[j]
    <2>1. subs' = Append(subs, s)  BY <1>8, <1>13
    <2>. QED  BY <1>7, <1>14, <1>17, <2>1
  <1>19. /\ remote' \in Seq(Remote) /\ Len(remote') = n /\ remote'[n] = r
         /\ \A j \in 1 .. Len(subs) : remote'[j] = remote[j]
    <2>1. remote' = Append(remote, r)  BY <1>8, <1>15
    <2>. QED  BY <1>7, <1>16, <1>17, <2>1
  <1>20. /\ \A j \in SubId1 : subs'[j] = subs[j] /\ remote'[j] = remote[j] /\ j # n /\ j < n
         /\ n \notin SubId1 /\ SubId1' = SubId1 \union {n} /\ n \in SubId /\ n <= MaxSubs
    <2>1. SubId1' = 1 .. n /\ SubId1 = 1 .. Len(subs)  BY <1>18 DEF SubId1
    <2>2. MaxSubs \in Nat  BY ConstantsTyped
    <2>. QED  BY <1>7, <1>8, <1>17, <1>18, <1>19, <2>1, <2>2 DEF SubId
  <1>21. Active' = {n}
    <2>1. \A j \in SubId1' : j \in Active' <=> subs'[j].status \in {"preparing", "submitted"}
      BY DEF Active, SubId1
    <2>2. n \in Active'  BY <1>14, <1>18, <1>20, <2>1
    <2>3. ASSUME NEW j \in Active', j # n PROVE FALSE
      <3>1. j \in SubId1 /\ subs'[j].status \in {"preparing", "submitted"}
        BY <1>20, <2>3 DEF Active, SubId1
      <3>2. j \in Active  BY <1>20, <3>1 DEF Active, SubId1
      <3>. QED  BY <1>12, <3>2
    <2>. QED  BY <2>2, <2>3
  <1>22. PICK b : b = [a EXCEPT !.at = "file", !.sub = n, !.entries = M]
    OBVIOUS
  <1>23. /\ b \in Attempt /\ Like(b, a) /\ b.at = "file" /\ b.sub = n /\ b.entries = M
         /\ b.file = a.file /\ b.outcome = a.outcome
    BY <1>2, <1>11, <1>20, <1>22 DEF Attempt, Like
  <1> DEFINE B == {b}
  <1>24. work' = (work \ {a}) \union B /\ work' \subseteq Attempt
    <2>1. work' = (work \ {a}) \union B  BY <1>8, <1>22 DEF Becomes
    <2>. QED  BY <1>1, <1>23, <2>1, Typed
  <1>25. PICK P : P = Passed(scope, page)  OBVIOUS
  <1>26. P \subseteq Thread
    <2>1. CASE scope.threads # {}  BY <1>4, <1>25, <2>1 DEF Passed
    <2>2. CASE scope.threads = {}  BY <1>25, <2>2 DEF Passed
    <2>. QED  BY <2>1, <2>2
  <1>27. settled' = settled \union P /\ settled \subseteq settled' /\ settled' \subseteq Thread
    BY <1>1, <1>8, <1>25, <1>26, Typed
  <1>28. /\ scan' \in [status : {"queued", "running", "complete", "failed", "superseded"}, cursor : 0 .. Threads]
         /\ scan'.cursor = scan.cursor
    BY <1>1, <1>8 DEF TypeOK
  <1>29. TypeOK'
    <2>1. /\ subs' \in Seq(Submission) /\ Len(subs') <= MaxSubs /\ remote' \in Seq(Remote) /\ Len(remote') = Len(subs')
      BY <1>18, <1>19, <1>20
    <2>. QED  BY <1>1, <1>24, <1>27, <1>28, <2>1 DEF TypeOK, mailbox
  <1>30. UNCHANGED <<threads, exec, spent>>  BY DEF mailbox
  <1>31. Grown /\ Monotone
    <2>1. \A e \in Entry : Stale(e) => Stale(e)'  BY <1>30 DEF Stale
    <2>2. Len(subs) <= Len(subs')  BY <1>7, <1>17, <1>18
    <2>. QED  BY <1>20, <1>30, <2>1, <2>2 DEF Monotone, Grown
  <1>32. Attempts'
    <2>1. Proper(b.scope) /\ Proper(b.outcome.scope) /\ b.kind = "submit"
      BY <1>2, <1>23 DEF Like, Sound
    <2>2. Proper(b.scope)' /\ Proper(b.outcome.scope)'
      BY <2>1 DEF Proper, Fitting, Small
    <2>3. \A e \in b.entries : Stale(e)'  BY <1>11, <1>23, <1>30 DEF Stale
    <2>4. Small(ThreadsOf(b.entries))'
      <3>1. Small(ThreadsOf(b.entries))  BY <1>9, <1>11, <1>23
      <3>. QED  BY <3>1 DEF Small, ThreadsOf
    <2>5. Sound(b)'
      BY <1>11, <1>20, <1>23, <2>1, <2>2, <2>3, <2>4 DEF Sound, Sending
    <2>6. work' \subseteq work \union B /\ \A d \in B : Sound(d)'
      BY <1>24, <2>5
    <2>. HIDE DEF B
    <2>. QED  BY <1>1, <1>29, <1>31, <2>6, AttemptsGo
  <1>33. Submissions'
    <2>1. ASSUME NEW j \in SubId1 PROVE Planned(j)' /\ Handed(j)'
      <3>1. Planned(j) /\ Handed(j) /\ j \notin Active'
        BY <1>1, <1>20, <1>21 DEF Submissions
      <3>2. /\ subs[j].retry = 0 => subs[j].conts = <<>>
            /\ Small(ThreadsOf(subs[j].manifest))' /\ Fitting(subs[j].conts)'
            /\ \A e \in subs[j].manifest : Stale(e)'
        <4>1. Small(ThreadsOf(subs[j].manifest)) /\ Fitting(subs[j].conts)
              /\ \A e \in subs[j].manifest : Stale(e)
          BY <3>1 DEF Planned
        <4>2. \A e \in subs[j].manifest : Stale(e)'  BY <1>30, <4>1 DEF Stale
        <4>3. subs'[j] = subs[j]  BY <1>20
        <4>4. Small(ThreadsOf(subs[j].manifest))'
          BY <4>1, <4>3 DEF Small, ThreadsOf
        <4>5. Fitting(subs[j].conts)'  BY <4>1, <4>3 DEF Fitting, Small
        <4>. QED  BY <3>1, <4>2, <4>4, <4>5 DEF Planned
      <3>3. Planned(j)'  BY <1>20, <3>1, <3>2 DEF Planned
      <3>4. Handed(j)'  BY <1>20, <3>1 DEF Handed, Sent
      <3>. QED  BY <3>3, <3>4
    <2>2. Handed(n)'  BY <1>14, <1>16, <1>18, <1>19 DEF Handed, Sent
    <2>3. Planned(n)'
      <3>1. subs'[n].retry = 0 => subs'[n].conts = <<>>  BY <1>4, <1>14, <1>18
      <3>2. subs'[n].manifest = M /\ subs'[n].conts = scope.conts
        BY <1>14, <1>18
      <3>3. Small(ThreadsOf(subs'[n].manifest)) /\ Fitting(subs'[n].conts)
        BY <1>4, <1>9, <1>11, <3>2
      <3>4. Small(ThreadsOf(subs[n].manifest))' /\ Fitting(subs[n].conts)'
        BY <3>3 DEF Small, ThreadsOf, Fitting
      <3>5. \A e \in subs'[n].manifest : Stale(e)' /\ Unchanged(e)'
        BY <1>11, <1>30, <3>2 DEF Stale, Unchanged
      <3>. QED  BY <1>11, <1>18, <3>1, <3>2, <3>4, <3>5 DEF Planned
    <2>. QED  BY <1>20, <2>1, <2>2, <2>3 DEF Submissions
  <1>34. Driven'  BY <1>1, <1>29, <1>30, <1>31, DrivenStays
  <1>35. Led' /\ Sequential'
    <2>1. (\A d, e \in B : d = e) /\ \A d \in B : Like(d, a)  BY <1>23
    <2>2. Led'
      <3>1. work' = (work \ {a}) \union B /\ UNCHANGED exec  BY <1>24, <1>30
      <3>. HIDE DEF B
      <3>. QED  BY <1>1, <2>1, <3>1, LedGoes
    <2>3. ASSUME NEW d \in B, spent'["timeouts"] = 0 PROVE Alone(d)'
      <3>1. Alone(a)  BY <1>1, <1>30, <2>3 DEF Sequential
      <3>2. b.entries \subseteq subs'[b.sub].manifest /\ b.at # "prepare"
        BY <1>14, <1>18, <1>23
      <3>3. b.live /\ b.kind = exec'.at /\ b.scope = exec'.scope
        BY <1>23, <1>30, <3>1 DEF Alone, Like
      <3>. QED  BY <3>2, <3>3 DEF Alone
    <2>4. Sequential'
      <3>. HIDE DEF B
      <3>. QED  BY <1>1, <1>24, <1>31, <2>1, <2>3, SequentialGoes
    <2>. QED  BY <2>2, <2>4
  <1>36. Fresh'
    <2> SUFFICES ASSUME spent'["changes"] = 0, NEW x \in work', x.at \in {"file", "prepare"}, x.sub \in Active'
                 PROVE  \A e \in x.entries : Unchanged(e)'
      BY DEF Fresh
    <2>1. CASE x \in B  BY <1>11, <1>23, <1>30, <2>1 DEF Unchanged
    <2>2. CASE x \notin B
      <3>1. x \in work /\ x.sub = n  BY <1>21, <1>24, <2>2
      <3>2. x.sub \in SubId1  BY <3>1, AttemptIs DEF Sending
      <3>. QED  BY <1>20, <3>1, <3>2
    <2>. QED  BY <2>1, <2>2
  <1>37. OneBatch'
    <2> SUFFICES ASSUME spent["timeouts"] = 0 \/ spent["changes"] = 0, NEW j \in SubId1
                 PROVE  Over(j)'
      <3>1. \A j \in SubId1' : j < Len(subs') \/ (Open' /\ j \notin Active') => j \in SubId1
        <4>1. ~(n < Len(subs')) /\ n \in Active'  BY <1>7, <1>17, <1>18, <1>21
        <4>. QED  BY <1>20, <4>1
      <3>. QED  BY <1>30, <3>1 DEF OneBatch
    <2>1. Over(j)  BY <1>1, <1>12 DEF OneBatch
    <2>2. \A x \in work' : x.at \in Sending => x \in work \/ x.sub # j
      BY <1>20, <1>23, <1>24
    <2>. QED  BY <1>20, <2>1, <2>2 DEF Over
  <1>38. Placed'
    <2> SUFFICES ASSUME ~Astray', Open' PROVE
          /\ exec'.at \in {"none", "submit"} /\ ~(\E x \in work' : Closing(x)) =>
                \A u \in Left' : Covers(exec.scope, u)'
          /\ \A x \in work' : Going(x) => \A u \in Left' : Covers(x.outcome.scope, u)'
          /\ \A j \in Active' : Holds(j)'
      BY DEF Placed
    <2>1. ~Astray  BY <1>1, <1>29, <1>31, CalmBefore
    <2>2. work = {a} /\ a.scope = exec.scope  BY <1>12, <2>1, ClaimCovers
    <2>3. \A t \in Left : Covers(scope, t)  BY <1>3, <1>12, <2>1, ClaimCovers
    <2>4. Left' \subseteq Left /\ \A u \in Left' : u \in Thread /\ u \notin P
      BY <1>27 DEF Left
    <2>5. \A u \in Left' : Covers(exec.scope, u)'
      <3> SUFFICES ASSUME NEW u \in Left' PROVE Covers(exec.scope, u)'
        OBVIOUS
      <3>1. Covers(exec.scope, u)  BY <1>3, <2>2, <2>3, <2>4
      <3>. QED  BY <1>28, <1>30, <3>1 DEF Covers, In
    <2>6. \A x \in work' : ~Going(x)  BY <1>23, <1>24, <2>2 DEF Going
    <2>7. /\ subs'[n].manifest = M /\ subs'[n].conts = scope.conts /\ subs'[n].retry = scope.retry
          /\ ThreadsOf(subs'[n].manifest) = page
      BY <1>11, <1>14, <1>18
    <2>8. ASSUME NEW u \in Left'
          PROVE  /\ u \in scope.threads => u \in page
                 /\ scope.threads = {} =>
                      \A v \in page : v > scan.cursor /\ (u > scan.cursor /\ u <= v => u \in page)
      BY <1>1, <1>4, <1>5, <1>8, <1>25, <2>4, <2>8, PageHolds
    <2>9. \A u \in Left' : u > scan'.cursor \/ u \in ThreadsOf(subs'[n].manifest) \/ In(subs'[n].conts, u)
      BY <1>28, <2>3, <2>4, <2>7, <2>8 DEF Covers
    <2>10. ASSUME subs'[n].retry = 0
           PROVE  /\ \A v \in ThreadsOf(subs'[n].manifest) : v > scan'.cursor
                  /\ \A u \in Left', v \in ThreadsOf(subs'[n].manifest) :
                        u > scan'.cursor /\ u <= v => u \in ThreadsOf(subs'[n].manifest)
      <3>1. scope.threads = {}  BY <1>4, <2>7, <2>10
      <3>2. \A v \in page : v > scan.cursor  BY <1>9, <3>1 DEF Found
      <3>. QED  BY <1>28, <2>7, <2>8, <3>1, <3>2
    <2>11. Holds(n)'  BY <2>9, <2>10 DEF Holds, ThreadsOf, In
    <2>. QED  BY <1>21, <2>5, <2>6, <2>11
  <1>. QED  BY <1>29, <1>32, <1>33, <1>34, <1>35, <1>36, <1>37, <1>38 DEF IInv

\* Every outcome of a claim.
LEMMA ClaimKeeps ==
    ASSUME IInv, NEW a \in work, Claim(a)
    PROVE  IInv'
BY ClaimSupersededKeeps, ClaimResumedKeeps, ClaimEmptyKeeps, ClaimPageKeeps DEF Claim

\* The scan is failed, and with it what has not been sent.
LEMMA FailKeeps ==
    ASSUME IInv, NEW a \in work, Fail(a)
    PROVE  IInv'
  <1>1. /\ TypeOK /\ Attempts /\ Submissions /\ Driven /\ Led /\ Sequential /\ Fresh
        /\ OneBatch /\ Placed
    BY DEF IInv
  <1>2. /\ a.at = "fail" /\ Reports(a, "recorded", FirstScope, 0)
        /\ UNCHANGED <<mailbox, remote, offered, exec, settled, spent>>
    BY DEF Fail
  <1>3. a \in Attempt /\ Sound(a)  BY AttemptIs
  <1>4. "recorded" \in Outcomes \ {"submitted", "skipped", "finalized"} /\ "recorded" # "pending"
        /\ "recorded" \in Outcomes
    BY DEF Outcomes
  <1>5. CASE ~Open
    <2>1. UNCHANGED <<scan, subs>>  BY <1>5 DEF Fail, Open
    <2>2. UNCHANGED <<mailbox, subs, remote, offered, exec, settled, spent>> /\ scan' \in {scan, Superseded}
          /\ a.at # "report"
      BY <1>2, <2>1
    <2>. QED  BY <1>2, <1>4, <2>2, ReportCarriesOn
  <1>6. CASE Open
    <2>1. /\ scan' = [scan EXCEPT !.status = "failed"]
          /\ subs' = [i \in 1 .. Len(subs) |->
                IF subs[i].status = "preparing" THEN [subs[i] EXCEPT !.status = "failed"]
                ELSE subs[i]]
      BY <1>6 DEF Fail, Open
    <2>2. FirstScope \in Scope /\ Proper(FirstScope) /\ 0 \in SubId
      BY ScopeTyped, ConstantsTyped DEF SubId
    <2>3. PICK b \in Attempt : /\ work' = (work \ {a}) \union {b} /\ Like(b, a)
                               /\ b.at = "report" /\ b.sub = a.sub /\ b.entries = a.entries
                               /\ b.outcome.status = "recorded" /\ b.outcome.scope = FirstScope
                               /\ b.outcome.sub = 0
      BY <1>2, <1>3, <1>4, <2>2, ReportsIs
    <2> DEFINE B == {b}
    <2>4. work' = (work \ {a}) \union B /\ work' \subseteq Attempt
      BY <1>1, <2>3, Typed
    <2>5. ASSUME NEW i \in SubId1
          PROVE  /\ subs'[i] \in Submission /\ SamePlan(i)
                 /\ subs'[i].file = subs[i].file /\ subs'[i].batch = subs[i].batch
                 /\ subs'[i].status \in {"preparing", "submitted"} => subs[i].status \in {"preparing", "submitted"}
                 /\ subs'[i].status = "submitted" => subs[i].status = "submitted"
      <3>1. PICK s : s = subs[i]  OBVIOUS
      <3>2. s \in Submission  BY <1>1, <3>1, Typed
      <3>3. subs'[i] = IF s.status = "preparing" THEN [s EXCEPT !.status = "failed"] ELSE s
        BY <2>1, <3>1 DEF SubId1
      <3>4. CASE s.status = "preparing"
        <4>1. PICK q : q = [s EXCEPT !.status = "failed"]  OBVIOUS
        <4>2. /\ q \in Submission /\ q.status = "failed" /\ q.retry = s.retry /\ q.conts = s.conts
              /\ q.manifest = s.manifest /\ q.file = s.file /\ q.batch = s.batch
          BY <3>2, <4>1 DEF Submission
        <4>3. subs'[i] = q  BY <3>3, <3>4, <4>1
        <4>. QED  BY <3>1, <4>2, <4>3 DEF SamePlan
      <3>5. CASE s.status # "preparing"  BY <3>1, <3>2, <3>3, <3>5 DEF SamePlan
      <3>. QED  BY <3>4, <3>5
    <2>6. subs' \in Seq(Submission) /\ Len(subs') = Len(subs)
      <3>1. Len(subs) \in Nat /\ subs' = [i \in 1 .. Len(subs) |-> subs'[i]]
        BY <1>1, <2>1, Typed
      <3>2. \A i \in 1 .. Len(subs) : subs'[i] \in Submission
        BY <2>5 DEF SubId1
      <3>. QED  BY <3>1, <3>2
    <2>7. scan' \in [status : {"queued", "running", "complete", "failed", "superseded"}, cursor : 0 .. Threads]
          /\ ~Open'
      BY <1>1, <2>1 DEF TypeOK, Open
    <2>8. TypeOK'  BY <1>1, <1>2, <2>4, <2>6, <2>7 DEF TypeOK, mailbox
    <2>9. UNCHANGED <<threads, remote, exec, settled, spent>>
      BY <1>2 DEF mailbox
    <2>10. Grown /\ Monotone
      <3>1. \A e \in Entry : Stale(e) => Stale(e)'  BY <2>9 DEF Stale
      <3>. QED  BY <1>1, <2>6, <2>9, <3>1, Typed DEF Monotone, Grown
    <2>11. \A i \in Active' : i \in Active
      <3>1. \A i \in Active' : i \in SubId1 /\ subs'[i].status \in {"preparing", "submitted"}
        BY <2>6 DEF Active, SubId1
      <3>. QED  BY <2>5, <3>1 DEF Active, SubId1
    <2>12. Attempts'
      <3>1. b.kind = "finalize" => Sent(b.sub)  BY <1>3, <2>3 DEF Sound, Like
      <3>2. b.outcome.status # "submitted" /\ b.outcome.status # "pending" /\ Proper(b.outcome.scope)
        BY <2>2, <2>3
      <3>3. Sound(b)  BY <1>1, <2>3, <3>1, <3>2, SaysSound
      <3>4. Sound(b)'  BY <1>1, <2>3, <2>8, <2>10, <3>3, StaysSound
      <3>5. work' \subseteq work \union B /\ \A d \in B : Sound(d)'
        BY <2>4, <3>4
      <3>. HIDE DEF B
      <3>. QED  BY <1>1, <2>8, <2>10, <3>5, AttemptsGo
    <2>13. Submissions'
      <3>1. ASSUME NEW i \in SubId1 PROVE Planned(i)' /\ Handed(i)'
        <4>1. Planned(i) /\ Handed(i) /\ SamePlan(i)
          BY <1>1, <2>5 DEF Submissions
        <4>2. i \in Active' => i \in Active  BY <2>11
        <4>3. Planned(i)'
          BY <1>1, <2>6, <2>8, <2>9, <2>10, <4>1, <4>2, StaysPlanned
        <4>4. Handed(i)'  BY <2>5, <2>9, <4>1 DEF Handed, Sent
        <4>. QED  BY <4>3, <4>4
      <3>2. SubId1' = SubId1  BY <2>6 DEF SubId1
      <3>. QED  BY <3>1, <3>2 DEF Submissions
    <2>14. Driven'  BY <1>1, <2>8, <2>9, <2>10, DrivenStays
    <2>15. Led' /\ Sequential'
      <3>1. (\A d, e \in B : d = e) /\ (\A d \in B : Like(d, a)) /\ \A d \in B : d.at = "report"
        BY <2>3
      <3>2. work' = (work \ {a}) \union B /\ UNCHANGED exec  BY <2>4, <2>9
      <3> HIDE DEF B
      <3>3. Led'  BY <1>1, <3>1, <3>2, LedGoes
      <3>4. ASSUME NEW d \in B, spent'["timeouts"] = 0 PROVE Alone(d)'
        <4>1. Alone(a)  BY <1>1, <2>9, <3>4 DEF Sequential
        <4>2. Like(d, a) /\ d.at = "report"  BY <3>1, <3>4
        <4>. QED  BY <2>9, <4>1, <4>2 DEF Alone, Like
      <3>5. Sequential'  BY <1>1, <2>10, <3>1, <3>2, <3>4, SequentialGoes
      <3>. QED  BY <3>3, <3>5
    <2>16. Fresh'
      <3>1. \A d \in work' : d.at \in {"file", "prepare"} => d \in work  BY <2>3
      <3>. QED  BY <1>1, <2>9, <2>10, <2>11, <3>1, FreshStays
    <2>17. OneBatch'
      <3>1. \A j \in SubId1 : remote'[j].batch = remote[j].batch  BY <2>9
      <3>2. \A d \in work' : d.at \in Sending => d.sub \in Active \/ \E c \in work : c.at \in Sending /\ c.sub = d.sub
        BY <2>3 DEF Sending
      <3>. QED  BY <1>1, <2>6, <2>7, <2>8, <2>10, <3>1, <3>2, OneBatchStays
    <2>18. Placed'  BY <2>7 DEF Placed
    <2>. QED  BY <2>8, <2>12, <2>13, <2>14, <2>15, <2>16, <2>17, <2>18 DEF IInv
  <1>. QED  BY <1>5, <1>6

\* A step of an attempt that is not its report.
LEMMA StepKeeps ==
    ASSUME IInv, NEW a \in work, Step(a), ~Report(a)
    PROVE  IInv'
BY CheckKeeps, ClaimKeeps, FileKeeps, PrepareKeeps, UploadKeeps, RecordKeeps, BatchKeeps, RecordBatchKeeps,
   ReadKeeps, ApplyKeeps, FailKeeps DEF Step

-----------------------------------------------------------------------------
(* The Workflow.                                                           *)

\* No attempt is under way when the Execution is between two Activities.
LEMMA NobodyLive ==
    ASSUME IInv, \/ exec.at \notin {"submit", "finalize", "fail"}
                 \/ ~\E a \in work : a.live
    PROVE  /\ \A a \in work : ~a.live
           /\ spent["timeouts"] = 0 => work = {}
  <1>1. TypeOK /\ Sequential /\ Led  BY DEF IInv
  <1>2. ASSUME NEW a \in work, a.live PROVE FALSE
    <2>1. a.kind = exec.at  BY <1>1, <1>2 DEF Led
    <2>2. a.kind \in {"submit", "finalize", "fail"}  BY AttemptIs, AttemptTyped
    <2>. QED  BY <1>2, <2>1, <2>2
  <1>3. spent["timeouts"] = 0 => \A a \in work : a.live
    BY <1>1 DEF Sequential, Alone
  <1>. QED  BY <1>2, <1>3

\* The Execution goes on while nobody works for it.
LEMMA Directs ==
    ASSUME IInv, TypeOK', UNCHANGED <<mailbox, scan, subs, remote, work, settled>>,
           Grown, Monotone, Submissions', OneBatch', Fresh',
           \A a \in work : ~a.live, spent["timeouts"] = 0 => work = {}, Driven',
           exec'.at \in {"none", "submit"} => UNCHANGED spent /\
              (~Astray => exec.at \in {"none", "submit"} /\ exec'.scope = exec.scope)
    PROVE  IInv'
  <1>1. /\ TypeOK /\ Attempts /\ Submissions /\ Driven /\ Led /\ Sequential /\ Fresh
        /\ OneBatch /\ Placed
    BY DEF IInv
  <1>2. Attempts'
    <2> DEFINE B == {}
    <2>1. work' \subseteq work \union B /\ \A d \in B : Sound(d)'  OBVIOUS
    <2>. HIDE DEF B
    <2>. QED  BY <1>1, <2>1, AttemptsGo
  <1>3. Led'  BY DEF Led
  <1>4. Sequential'
    <2>1. spent'["timeouts"] = 0 => work' = {}  BY DEF Grown, Counters
    <2>. QED  BY <2>1 DEF Sequential
  <1>5. Placed'
    <2> SUFFICES ASSUME ~Astray', Open' PROVE
          /\ exec'.at \in {"none", "submit"} /\ ~(\E x \in work' : Closing(x)) =>
                \A u \in Left' : Covers(exec.scope, u)'
          /\ \A x \in work' : Going(x) => \A u \in Left' : Covers(x.outcome.scope, u)'
          /\ \A j \in Active' : Holds(j)'
      BY DEF Placed
    <2>1. ~Astray /\ Open
      <3>1. ~Astray  BY <1>1, CalmBefore
      <3>. QED  BY <3>1 DEF Open
    <2>2. work = {} /\ work' = {}  BY <1>1, <2>1, AstrayIs
    <2>3. ASSUME exec'.at \in {"none", "submit"}, NEW u \in Left' PROVE Covers(exec.scope, u)'
      <3>1. exec.at \in {"none", "submit"} /\ exec'.scope = exec.scope /\ u \in Left
        BY <2>1, <2>3 DEF Left
      <3>2. Covers(exec.scope, u)  BY <1>1, <2>1, <2>2, <3>1 DEF Placed
      <3>. QED  BY <3>1, <3>2 DEF Covers, In
    <2>4. ASSUME NEW j \in Active' PROVE Holds(j)'
      <3>1. j \in Active  BY <2>4 DEF Active
      <3>2. Holds(j)  BY <1>1, <2>1, <3>1 DEF Placed
      <3>. QED  BY <3>2 DEF Holds, Left, ThreadsOf, In
    <2>. QED  BY <2>2, <2>3, <2>4
  <1>. QED  BY <1>2, <1>3, <1>4, <1>5 DEF IInv

\* Attempts end, bounds are used, and nothing else happens.
LEMMA StillIs ==
    ASSUME IInv, TypeOK', UNCHANGED <<threads, subs, remote, scan>>, work' \subseteq work, Grown
    PROVE  Monotone /\ Submissions' /\ OneBatch' /\ Fresh' /\ Attempts'
  <1>1. /\ TypeOK /\ Attempts /\ Submissions /\ Fresh /\ OneBatch  BY DEF IInv
  <1>2. Monotone
    <2>1. \A e \in Entry : Stale(e) => Stale(e)'  BY DEF Stale
    <2>2. Len(subs) <= Len(subs')  BY <1>1, Typed
    <2>. QED  BY <2>1, <2>2 DEF Monotone
  <1>3. Submissions'  BY <1>1, SubmissionsStay
  <1>4. Active' = Active /\ (Open' <=> Open)  BY DEF Active, Open
  <1>5. OneBatch'
    <2>1. \A j \in SubId1 : remote'[j].batch = remote[j].batch  OBVIOUS
    <2>2. \A d \in work' : d.at \in Sending => d.sub \in Active \/ \E c \in work : c.at \in Sending /\ c.sub = d.sub
      OBVIOUS
    <2>3. Len(subs') = Len(subs)  OBVIOUS
    <2>. QED  BY <1>1, <1>4, <2>1, <2>2, <2>3, OneBatchStays
  <1>6. Fresh'  BY <1>1, <1>4, FreshStays
  <1>7. Attempts'
    <2> DEFINE B == {}
    <2>1. work' \subseteq work \union B /\ \A d \in B : Sound(d)'  OBVIOUS
    <2>. HIDE DEF B
    <2>. QED  BY <1>1, <1>2, <2>1, AttemptsGo
  <1>. QED  BY <1>2, <1>3, <1>5, <1>6, <1>7

\* Such a step keeps the invariant while no report of a closed batch is lost.
LEMMA IdleKeeps ==
    ASSUME IInv, TypeOK', UNCHANGED <<threads, scan, subs, remote, exec, settled>>, work' \subseteq work, Grown,
           \A c \in work : Closing(c) /\ ~Astray' /\ exec.at \in {"none", "submit"} => c \in work'
    PROVE  IInv'
  <1>1. /\ TypeOK /\ Driven /\ Led /\ Sequential /\ Placed  BY DEF IInv
  <1>2. Monotone /\ Submissions' /\ OneBatch' /\ Fresh' /\ Attempts'  BY StillIs
  <1>3. Driven'  BY <1>1, <1>2, DrivenStays
  <1>4. Led' /\ Sequential'  BY <1>1, LedStays, SequentialStays
  <1>5. Placed'
    <2>1. \A i \in Active' : i \in Active /\ SamePlan(i)
      BY DEF Active, SamePlan
    <2>2. (Open' => Open) /\ scan'.cursor = scan.cursor /\ settled \subseteq settled' /\ Len(subs') = Len(subs)
      BY DEF Open
    <2>3. \A c \in work : Closing(c) /\ ~Astray' /\ exec.at \in {"none", "submit"} =>
              \E b \in work' : Closing(b)
      OBVIOUS
    <2>4. \A b \in work' : Going(b) => b \in work  OBVIOUS
    <2>. QED  BY <1>1, <2>1, <2>2, <2>3, <2>4, PlacedStays
  <1>. QED  BY <1>2, <1>3, <1>4, <1>5 DEF IInv

\* What the Execution is.
LEMMA ExecIs ==
    ASSUME TypeOK
    PROVE  /\ exec.scope \in Scope /\ exec.sub \in SubId
           /\ exec.at \in {"none", "submit", "wait", "finalize", "fail", "closed", "died"}
  <1>1. exec \in Execution  BY Typed
  <1>. QED  BY <1>1 DEF Execution

\* A request is dispatched.
LEMMA DispatchKeeps ==
    ASSUME IInv, Dispatch
    PROVE  IInv'
  <1>1. TypeOK /\ Driven  BY DEF IInv
  <1>2. /\ UNCHANGED <<mailbox, scan, subs, remote, work, settled, spent>> /\ offered' = FALSE
        /\ exec' = IF exec.at \in {"none", "died"}
                   THEN [at |-> "submit", scope |-> FirstScope, sub |-> 0] ELSE exec
    BY DEF Dispatch
  <1>3. UNCHANGED threads /\ Grown /\ work' \subseteq work
    BY <1>2 DEF mailbox, Grown
  <1>4. CASE exec.at \in {"none", "died"}
    <2>1. exec' = [at |-> "submit", scope |-> FirstScope, sub |-> 0]
      BY <1>2, <1>4
    <2>2. /\ exec' \in Execution /\ exec'.at = "submit" /\ exec'.scope = FirstScope
      BY <2>1, ScopeTyped, ConstantsTyped DEF Execution, SubId
    <2>3. TypeOK'  BY <1>1, <1>2, <2>2 DEF TypeOK, mailbox
    <2>4. Monotone /\ Submissions' /\ OneBatch' /\ Fresh'
      BY <1>2, <1>3, <2>3, StillIs
    <2>5. (\A a \in work : ~a.live) /\ (spent["timeouts"] = 0 => work = {})
      BY <1>4, NobodyLive
    <2>6. Driven'
      <3>1. Proper(exec'.scope)  BY <2>2, ScopeTyped
      <3>2. Proper(exec.scope)'  BY <3>1 DEF Proper, Fitting, Small
      <3>. QED  BY <2>2, <3>2 DEF Driven
    <2>7. ~Astray => exec.at \in {"none", "submit"} /\ exec'.scope = exec.scope
      <3>1. ~Astray => exec.at # "died"
        <4>1. exec.at = "died" => spent["deaths"] # 0
          BY <1>1, Typed DEF Driven, Counters
        <4>. QED  BY <1>1, <4>1, AstrayIs
      <3>. QED  BY <1>1, <1>4, <2>2, <3>1 DEF Driven
    <2>8. UNCHANGED <<mailbox, scan, subs, remote, work, settled>> /\ UNCHANGED spent
      BY <1>2
    <2>. QED  BY <1>3, <2>3, <2>4, <2>5, <2>6, <2>7, <2>8, Directs
  <1>5. CASE exec.at \notin {"none", "died"}
    <2>1. UNCHANGED exec  BY <1>2, <1>5
    <2>2. TypeOK'  BY <1>1, <1>2, <2>1 DEF TypeOK, mailbox
    <2>3. \A c \in work : c \in work'  BY <1>2
    <2>. QED  BY <1>2, <1>3, <2>1, <2>2, <2>3, IdleKeeps
  <1>. QED  BY <1>4, <1>5

\* The wait ends.
LEMMA ReleaseKeeps ==
    ASSUME IInv, Release
    PROVE  IInv'
  <1>1. TypeOK /\ Driven  BY DEF IInv
  <1>2. /\ exec.at = "wait" /\ exec' = [exec EXCEPT !.at = "finalize"]
        /\ UNCHANGED <<mailbox, scan, subs, remote, offered, work, settled, spent>>
    BY DEF Release, Signalled
  <1>3. UNCHANGED threads /\ Grown /\ work' \subseteq work
    BY <1>2 DEF mailbox, Grown
  <1>4. exec' \in Execution /\ exec'.at = "finalize" /\ exec'.scope = exec.scope /\ exec'.sub = exec.sub
    BY <1>1, <1>2, Typed DEF Execution
  <1>5. TypeOK'  BY <1>1, <1>2, <1>4 DEF TypeOK, mailbox
  <1>6. Monotone /\ Submissions' /\ OneBatch' /\ Fresh'
    BY <1>2, <1>3, <1>5, StillIs
  <1>7. (\A a \in work : ~a.live) /\ (spent["timeouts"] = 0 => work = {})
    BY <1>2, NobodyLive
  <1>8. Driven'
    <2>1. Proper(exec.scope) /\ exec.sub \in SubId1 /\ Sent(exec.sub)
      BY <1>1, <1>2 DEF Driven
    <2>2. Proper(exec.scope)' /\ exec'.sub \in SubId1' /\ Sent(exec.sub)'
      BY <1>2, <1>4, <2>1 DEF Proper, Fitting, Small, SubId1, Sent
    <2>. QED  BY <1>4, <2>2 DEF Driven
  <1>9. exec'.at \notin {"none", "submit"} /\ UNCHANGED <<mailbox, scan, subs, remote, work, settled>>
    BY <1>2, <1>4
  <1>. QED  BY <1>3, <1>5, <1>6, <1>7, <1>8, <1>9, Directs

\* The Execution gives up on an Activity.
LEMMA GiveUpKeeps ==
    ASSUME IInv, GiveUp
    PROVE  IInv'
  <1>1. TypeOK /\ Driven  BY DEF IInv
  <1>2. /\ ~\E a \in work : a.live
        /\ UNCHANGED <<mailbox, scan, subs, remote, offered, work, settled>>
        /\ \/ exec' = [exec EXCEPT !.at = "died"] /\ Spend("deaths", MaxDeaths)
           \/ exec' = [exec EXCEPT !.at = "fail"] /\ Spend("faults", MaxFaults)
    BY DEF GiveUp
  <1>3. spent' \in [Counters -> Nat] /\ Grown /\ (exec'.at = "died" => spent'["deaths"] > 0)
    <2>1. CASE exec' = [exec EXCEPT !.at = "died"] /\ Spend("deaths", MaxDeaths)
      <3>1. "deaths" \in Counters  BY DEF Counters
      <3>. QED  BY <1>1, <2>1, <3>1, SpendIs
    <2>2. CASE exec' = [exec EXCEPT !.at = "fail"] /\ Spend("faults", MaxFaults)
      <3>1. "faults" \in Counters  BY DEF Counters
      <3>2. exec'.at = "fail"  BY <1>1, <2>2, Typed DEF Execution
      <3>. QED  BY <1>1, <2>2, <3>1, <3>2, SpendIs
    <2>. QED  BY <1>2, <2>1, <2>2
  <1>4. exec' \in Execution /\ exec'.at \in {"died", "fail"} /\ exec'.scope = exec.scope
    BY <1>1, <1>2, Typed DEF Execution
  <1>5. TypeOK'  BY <1>1, <1>2, <1>3, <1>4 DEF TypeOK, mailbox
  <1>6. UNCHANGED threads /\ work' \subseteq work  BY <1>2 DEF mailbox
  <1>7. Monotone /\ Submissions' /\ OneBatch' /\ Fresh'
    BY <1>2, <1>3, <1>5, <1>6, StillIs
  <1>8. (\A a \in work : ~a.live) /\ (spent["timeouts"] = 0 => work = {})
    BY <1>2, NobodyLive
  <1>9. Driven'
    <2>1. Proper(exec.scope)  BY <1>1 DEF Driven
    <2>2. Proper(exec.scope)'  BY <1>4, <2>1 DEF Proper, Fitting, Small
    <2>. QED  BY <1>3, <1>4, <2>2 DEF Driven
  <1>10. exec'.at \notin {"none", "submit"} /\ UNCHANGED <<mailbox, scan, subs, remote, work, settled>>
    BY <1>2, <1>4
  <1>. QED  BY <1>3, <1>5, <1>7, <1>8, <1>9, <1>10, Directs

\* An Activity starts.
LEMMA StartedIs ==
    ASSUME IInv, exec.at \in {"submit", "finalize", "fail"}, NEW b,
           b = [kind |-> exec.at, live |-> TRUE, at |-> FirstStep[exec.at], scope |-> exec.scope,
                sub |-> exec.sub, entries |-> {}, file |-> {}, outcome |-> Nothing]
    PROVE  /\ b \in Attempt /\ Sound(b) /\ b.live /\ b.kind = exec.at /\ b.scope = exec.scope
           /\ b.at \in {"check", "read", "fail"} /\ b.at \notin Sending
  <1>1. TypeOK /\ Driven  BY DEF IInv
  <1>2. exec.scope \in Scope /\ exec.sub \in SubId  BY <1>1, ExecIs
  <1>3. /\ FirstStep[exec.at] \in {"check", "read", "fail"}
        /\ FirstStep[exec.at] = "check" => exec.at = "submit"
        /\ FirstStep[exec.at] = "read" => exec.at = "finalize"
    BY DEF FirstStep
  <1>4. b \in Attempt  BY <1>2, <1>3, ScopeTyped DEF Attempt
  <1>5. /\ b.live /\ b.kind = exec.at /\ b.scope = exec.scope /\ b.sub = exec.sub
        /\ b.at = FirstStep[exec.at] /\ b.entries = {} /\ b.outcome.scope = FirstScope
    BY ScopeTyped
  <1>6. b.at \notin Sending /\ b.at \in {"check", "read", "fail"}
    BY <1>3, <1>5 DEF Sending
  <1>7. Proper(b.scope) /\ Proper(b.outcome.scope)
    BY <1>1, <1>5, ScopeTyped DEF Driven
  <1>8. Small(ThreadsOf(b.entries))
    <2>1. ThreadsOf(b.entries) = {}  BY <1>5 DEF ThreadsOf
    <2>. QED  BY <2>1, SmallEmpty
  <1>9. b.kind = "finalize" => b.sub \in SubId1 /\ Sent(b.sub)
    BY <1>1, <1>5 DEF Driven
  <1>10. Sound(b)  BY <1>3, <1>5, <1>6, <1>7, <1>8, <1>9 DEF Sound
  <1>. QED  BY <1>4, <1>5, <1>6, <1>10

\* Its start keeps the invariant.
LEMMA StartKeeps ==
    ASSUME IInv, Start
    PROVE  IInv'
  <1>1. /\ TypeOK /\ Attempts /\ Submissions /\ Driven /\ Led /\ Sequential /\ Fresh
        /\ OneBatch /\ Placed
    BY DEF IInv
  <1>2. PICK b : b = [kind |-> exec.at, live |-> TRUE, at |-> FirstStep[exec.at], scope |-> exec.scope,
                      sub |-> exec.sub, entries |-> {}, file |-> {}, outcome |-> Nothing]
    OBVIOUS
  <1> DEFINE B == {b}
  <1>3. /\ exec.at \in {"submit", "finalize", "fail"} /\ ~\E a \in work : a.live
        /\ work' = work \union B
        /\ UNCHANGED <<mailbox, scan, subs, remote, offered, exec, settled, spent>>
    BY <1>2 DEF Start
  <1>4. /\ b \in Attempt /\ Sound(b) /\ b.live /\ b.kind = exec.at /\ b.scope = exec.scope
        /\ b.at \in {"check", "read", "fail"} /\ b.at \notin Sending
    BY <1>2, <1>3, StartedIs
  <1>5. TypeOK'  BY <1>1, <1>3, <1>4 DEF TypeOK, mailbox
  <1>6. UNCHANGED <<threads, scan, subs, remote, exec, settled, spent>>
    BY <1>3 DEF mailbox
  <1>7. Grown /\ Monotone  BY <1>1, <1>6, NothingGrows
  <1>8. \A d \in B : Sound(d)'  BY <1>1, <1>4, <1>5, <1>7, StaysSound
  <1>9. /\ \A d \in B : /\ d.live /\ d.kind = exec.at /\ d.scope = exec.scope
                        /\ d.at \in {"check", "read", "fail"} /\ d.at \notin Sending
        /\ \A d, e \in B : d = e
    BY <1>4
  <1> HIDE DEF B
  <1>10. (\A a \in work : ~a.live) /\ (spent["timeouts"] = 0 => work = {})
    BY <1>3, NobodyLive
  <1>11. Attempts'  BY <1>1, <1>3, <1>5, <1>7, <1>8, AttemptsGo
  <1>12. Submissions' /\ Driven'
    BY <1>1, <1>5, <1>6, <1>7, SubmissionsStay, DrivenStays
  <1>13. Led'  BY <1>3, <1>6, <1>9, <1>10 DEF Led
  <1>14. Sequential'
    <2>1. ASSUME spent'["timeouts"] = 0, NEW d \in work', NEW e \in work' PROVE d = e /\ Alone(d)'
      <3>1. d \in B /\ e \in B  BY <1>3, <1>6, <1>10, <2>1
      <3>. QED  BY <1>6, <1>9, <3>1 DEF Alone
    <2>. QED  BY <2>1 DEF Sequential
  <1>15. Fresh'
    <2>1. \A d \in work' : d.at \in {"file", "prepare"} => d \in work
      BY <1>3, <1>9
    <2>2. \A i \in Active' : i \in Active  BY <1>6 DEF Active
    <2>. QED  BY <1>1, <1>6, <1>7, <2>1, <2>2, FreshStays
  <1>16. OneBatch'
    <2>1. \A d \in work' : d.at \in Sending => d \in work  BY <1>3, <1>9
    <2>2. \A i \in Active : i \in Active'  BY <1>6 DEF Active
    <2>3. (Open' => Open) /\ Len(subs') = Len(subs) /\ \A i \in SubId1 : remote'[i].batch = remote[i].batch
      BY <1>6 DEF Open
    <2>4. \A d \in work' : d.at \in Sending => d.sub \in Active \/ \E c \in work : c.at \in Sending /\ c.sub = d.sub
      BY <2>1
    <2>. QED  BY <1>1, <1>5, <1>7, <2>2, <2>3, <2>4, OneBatchStays
  <1>17. Placed'
    <2>1. \A i \in Active' : i \in Active /\ SamePlan(i)
      BY <1>6 DEF Active, SamePlan
    <2>2. (Open' => Open) /\ scan'.cursor = scan.cursor /\ settled \subseteq settled' /\ Len(subs') = Len(subs)
      BY <1>6 DEF Open
    <2>3. \A c \in work : Closing(c) => \E d \in work' : Closing(d)  BY <1>3
    <2>4. \A d \in work' : Going(d) => d \in work  BY <1>3, <1>9 DEF Going
    <2>. QED  BY <1>1, <1>5, <1>6, <1>7, <2>1, <2>2, <2>3, <2>4, PlacedStays
  <1>. QED  BY <1>5, <1>11, <1>12, <1>13, <1>14, <1>15, <1>16, <1>17 DEF IInv

\* What the Execution does with a result.
LEMMA GoesOnIs ==
    ASSUME IInv, NEW a \in work, a.at = "report", a.live, NEW e, e = GoesOn(a.outcome)
    PROVE  /\ e \in Execution /\ e.at \in {"submit", "wait", "closed"} /\ Proper(e.scope)
           /\ e.at = "wait" => e.sub \in SubId1 /\ Sent(e.sub)
           /\ e.at = "submit" => Going(a) /\ e.scope = a.outcome.scope
  <1>1. TypeOK /\ Driven /\ Led  BY DEF IInv
  <1>2. a \in Attempt /\ Sound(a)  BY AttemptIs
  <1>3. PICK x : x = exec  OBVIOUS
  <1>4. /\ x \in Execution /\ x.scope \in Scope /\ x.sub \in SubId /\ Proper(x.scope)
    BY <1>1, <1>3, Typed, ExecIs DEF Driven
  <1>5. PICK o : o = a.outcome  OBVIOUS
  <1>6. /\ o.scope \in Scope /\ o.sub \in SubId /\ Proper(o.scope)
    BY <1>2, <1>5, AttemptTyped DEF Sound
  <1>7. CASE o.status = "submitted"
    <2>1. e = [x EXCEPT !.at = "wait", !.sub = o.sub]
      BY <1>3, <1>5, <1>7 DEF GoesOn
    <2>2. e \in Execution /\ e.at = "wait" /\ e.sub = o.sub /\ e.scope = x.scope
      BY <1>4, <1>6, <2>1 DEF Execution
    <2>3. o.sub \in SubId1 /\ Sent(o.sub)  BY <1>2, <1>5, <1>7 DEF Sound
    <2>. QED  BY <1>4, <2>2, <2>3
  <1>8. CASE o.status = "pending"
    <2>1. e = [x EXCEPT !.at = "wait"]  BY <1>3, <1>5, <1>8 DEF GoesOn
    <2>2. e \in Execution /\ e.at = "wait" /\ e.sub = x.sub /\ e.scope = x.scope
      BY <1>4, <2>1 DEF Execution
    <2>3. x.at = "finalize"  BY <1>1, <1>2, <1>3, <1>5, <1>8 DEF Sound, Led
    <2>4. x.sub \in SubId1 /\ Sent(x.sub)  BY <1>1, <1>3, <2>3 DEF Driven
    <2>. QED  BY <1>4, <2>2, <2>4
  <1>9. CASE o.status \in {"skipped", "finalized"}
    <2>1. e = [at |-> "submit", scope |-> o.scope, sub |-> 0]
      BY <1>3, <1>5, <1>9 DEF GoesOn
    <2>2. 0 \in SubId  BY ConstantsTyped DEF SubId
    <2>3. e \in Execution /\ e.at = "submit" /\ e.scope = o.scope
      BY <1>6, <2>1, <2>2 DEF Execution
    <2>. QED  BY <1>5, <1>6, <1>9, <2>3 DEF Going
  <1>10. CASE o.status \notin {"submitted", "pending", "skipped", "finalized"}
    <2>1. e = [x EXCEPT !.at = "closed"]  BY <1>3, <1>5, <1>10 DEF GoesOn
    <2>2. e \in Execution /\ e.at = "closed" /\ e.scope = x.scope
      BY <1>4, <2>1 DEF Execution
    <2>. QED  BY <1>4, <2>2
  <1>. QED  BY <1>7, <1>8, <1>9, <1>10

\* The Execution hears of its attempt.
LEMMA ReportKeeps ==
    ASSUME IInv, NEW a \in work, Report(a)
    PROVE  IInv'
  <1>1. /\ TypeOK /\ Attempts /\ Submissions /\ Driven /\ Led /\ Sequential /\ Fresh
        /\ OneBatch /\ Placed
    BY DEF IInv
  <1>2. /\ a.at = "report" /\ work' = work \ {a}
        /\ exec' = IF a.live THEN GoesOn(a.outcome) ELSE exec
        /\ UNCHANGED <<mailbox, scan, subs, remote, offered, settled, spent>>
    BY DEF Report
  <1>3. UNCHANGED threads /\ Grown /\ work' \subseteq work
    BY <1>2 DEF mailbox, Grown
  <1>4. CASE ~a.live
    <2>1. UNCHANGED exec  BY <1>2, <1>4
    <2>2. TypeOK'  BY <1>1, <1>2, <2>1 DEF TypeOK, mailbox
    <2>3. Astray'
      <3>1. spent["timeouts"] # 0  BY <1>1, <1>4 DEF Sequential, Alone
      <3>2. Astray  BY <1>1, <3>1, AstrayIs
      <3>. QED  BY <1>2, <3>2 DEF Astray
    <2>. QED  BY <1>2, <1>3, <2>1, <2>2, <2>3, IdleKeeps
  <1>5. CASE a.live
    <2>1. PICK e : e = GoesOn(a.outcome)  OBVIOUS
    <2>2. /\ e \in Execution /\ e.at \in {"submit", "wait", "closed"} /\ Proper(e.scope)
          /\ e.at = "wait" => e.sub \in SubId1 /\ Sent(e.sub)
          /\ e.at = "submit" => Going(a) /\ e.scope = a.outcome.scope
      BY <1>2, <1>5, <2>1, GoesOnIs
    <2>3. exec' = e  BY <1>2, <1>5, <2>1
    <2>4. TypeOK'  BY <1>1, <1>2, <2>2, <2>3 DEF TypeOK, mailbox
    <2>5. Monotone /\ Submissions' /\ OneBatch' /\ Fresh' /\ Attempts'
      BY <1>2, <1>3, <2>4, StillIs
    <2>6. Driven'
      <3>1. exec'.at = "wait" => exec'.sub \in SubId1' /\ Sent(exec.sub)'
        BY <1>2, <2>2, <2>3 DEF SubId1, Sent
      <3>2. Proper(exec.scope)'  BY <2>2, <2>3 DEF Proper, Fitting, Small
      <3>. QED  BY <2>2, <2>3, <3>1, <3>2 DEF Driven
    <2>7. \A b \in work' : ~b.live  BY <1>1, <1>2, <1>5 DEF Led
    <2>8. Led'   BY <2>7 DEF Led
    <2>9. spent["timeouts"] = 0 => work' = {}  BY <1>1, <1>2 DEF Sequential
    <2>10. Sequential'  BY <1>2, <2>9 DEF Sequential
    <2>11. Placed'
      <3> SUFFICES ASSUME ~Astray', Open' PROVE
            /\ exec'.at \in {"none", "submit"} /\ ~(\E x \in work' : Closing(x)) =>
                  \A u \in Left' : Covers(exec.scope, u)'
            /\ \A x \in work' : Going(x) => \A u \in Left' : Covers(x.outcome.scope, u)'
            /\ \A j \in Active' : Holds(j)'
        BY DEF Placed
      <3>1. ~Astray /\ Open  BY <1>2 DEF Astray, Open
      <3>2. work' = {}  BY <1>1, <2>9, <3>1, AstrayIs
      <3>3. ASSUME exec'.at \in {"none", "submit"}, NEW u \in Left' PROVE Covers(exec.scope, u)'
        <4>1. Going(a) /\ exec'.scope = a.outcome.scope /\ u \in Left
          BY <1>2, <2>2, <2>3, <3>3 DEF Left
        <4>2. Covers(a.outcome.scope, u)  BY <1>1, <3>1, <4>1 DEF Placed
        <4>. QED  BY <1>2, <4>1, <4>2 DEF Covers, In
      <3>4. ASSUME NEW j \in Active' PROVE Holds(j)'
        <4>1. j \in Active  BY <1>2, <3>4 DEF Active
        <4>2. Holds(j)  BY <1>1, <3>1, <4>1 DEF Placed
        <4>. QED  BY <1>2, <4>2 DEF Holds, Left, ThreadsOf, In
      <3>. QED  BY <3>2, <3>3, <3>4
    <2>. QED  BY <2>4, <2>5, <2>6, <2>8, <2>10, <2>11 DEF IInv
  <1>. QED  BY <1>4, <1>5

-----------------------------------------------------------------------------
(* What goes wrong, and what others do.                                    *)

\* An attempt is lost with its worker.
LEMMA CrashKeeps ==
    ASSUME IInv, NEW a \in work, Crash(a)
    PROVE  IInv'
  <1>1. TypeOK /\ Attempts /\ Sequential  BY DEF IInv
  <1>2. /\ work' = work \ {a} /\ Spend(Loses(a), MaxFaults)
        /\ UNCHANGED <<mailbox, scan, subs, remote, offered, exec, settled>>
    BY DEF Crash
  <1>3. PICK c : c = Loses(a)  OBVIOUS
  <1>4. c \in Counters  BY <1>3 DEF Loses, Counters
  <1>5. spent' \in [Counters -> Nat] /\ spent'[c] > 0 /\ Grown
    BY <1>1, <1>2, <1>3, <1>4, SpendIs
  <1>6. TypeOK'  BY <1>1, <1>2, <1>5 DEF TypeOK, mailbox
  <1>7. UNCHANGED threads /\ work' \subseteq work  BY <1>2 DEF mailbox
  <1>8. ASSUME NEW d \in work, Closing(d), ~Astray', exec.at \in {"none", "submit"} PROVE d \in work'
    <2>1. CASE d = a
      <3>1. spent["timeouts"] = 0
        BY <1>1, <1>5, <1>6, <1>8, CalmBefore, AstrayIs
      <3>2. a.kind = exec.at  BY <1>1, <3>1 DEF Sequential, Alone
      <3>3. c = "skipped"  BY <1>3, <1>8, <2>1, <3>2 DEF Loses, Closing
      <3>4. spent'["skipped"] > 0 /\ \A k \in Counters : spent'[k] \in Nat
        BY <1>5, <3>3
      <3>5. Astray'  BY <3>4 DEF Astray, Counters
      <3>. QED  BY <1>8, <3>5
    <2>2. CASE d # a  BY <1>2, <2>2
    <2>. QED  BY <2>1, <2>2
  <1>. QED  BY <1>2, <1>5, <1>6, <1>7, <1>8, IdleKeeps

\* An attempt outlives its timeout.
LEMMA TimeoutKeeps ==
    ASSUME IInv, NEW a \in work, Timeout(a)
    PROVE  IInv'
  <1>1. /\ TypeOK /\ Attempts /\ Submissions /\ Driven /\ Led /\ Sequential /\ Fresh
        /\ OneBatch /\ Placed
    BY DEF IInv
  <1>2. a \in Attempt /\ Sound(a)  BY AttemptIs
  <1>3. PICK b : b = [a EXCEPT !.live = FALSE]  OBVIOUS
  <1>4. /\ b \in Attempt /\ b.live = FALSE /\ b.kind = a.kind /\ b.at = a.at /\ b.scope = a.scope
        /\ b.sub = a.sub /\ b.entries = a.entries /\ b.file = a.file /\ b.outcome = a.outcome
    BY <1>2, <1>3 DEF Attempt
  <1> DEFINE B == {b}
  <1>5. /\ a.live /\ work' = (work \ {a}) \union B /\ Spend("timeouts", MaxTimeouts)
        /\ UNCHANGED <<mailbox, scan, subs, remote, offered, exec, settled>>
    BY <1>3 DEF Timeout, Becomes
  <1>6. spent' \in [Counters -> Nat] /\ spent'["timeouts"] > 0 /\ Grown
    <2>1. "timeouts" \in Counters  BY DEF Counters
    <2>. QED  BY <1>1, <1>5, <2>1, SpendIs
  <1>7. TypeOK'  BY <1>1, <1>4, <1>5, <1>6 DEF TypeOK, mailbox
  <1>8. UNCHANGED <<threads, scan, subs, remote, exec, settled>>
    BY <1>5 DEF mailbox
  <1>9. Monotone
    <2>1. \A e \in Entry : Stale(e) => Stale(e)'  BY <1>8 DEF Stale
    <2>2. Len(subs) <= Len(subs')  BY <1>1, <1>8, Typed
    <2>. QED  BY <1>6, <1>8, <2>1, <2>2 DEF Monotone
  <1>10. Sound(b)  BY <1>2, <1>4 DEF Sound
  <1>11. \A d \in B : Sound(d)'  BY <1>1, <1>4, <1>7, <1>9, <1>10, StaysSound
  <1>12. \A d \in B : /\ ~d.live /\ d.at = a.at /\ d.sub = a.sub /\ d.entries = a.entries
    BY <1>4
  <1> HIDE DEF B
  <1>13. Attempts'
    <2>1. work' \subseteq work \union B  BY <1>5
    <2>. QED  BY <1>1, <1>7, <1>9, <1>11, <2>1, AttemptsGo
  <1>14. Submissions' /\ Driven'
    BY <1>1, <1>6, <1>7, <1>8, <1>9, SubmissionsStay, DrivenStays
  <1>15. Led'  BY <1>1, <1>5, <1>8, <1>12 DEF Led
  <1>16. Sequential'  BY <1>6 DEF Sequential
  <1>17. (\A i \in Active' : i \in Active) /\ (\A i \in Active : i \in Active') /\ (Open' => Open)
    BY <1>8 DEF Active, Open
  <1>18. Fresh'
    <2>1. \A d \in work' : d.at \in {"file", "prepare"} =>
             \E c \in work : c.at \in {"file", "prepare"} /\ c.sub = d.sub /\ c.entries = d.entries
      BY <1>5, <1>12
    <2>. QED  BY <1>1, <1>6, <1>8, <1>17, <2>1, FreshStays
  <1>19. OneBatch'
    <2>1. \A i \in SubId1 : remote'[i].batch = remote[i].batch  BY <1>8
    <2>2. \A d \in work' : d.at \in Sending => d.sub \in Active \/ \E c \in work : c.at \in Sending /\ c.sub = d.sub
      BY <1>5, <1>12
    <2>3. Len(subs') = Len(subs)  BY <1>8
    <2>. QED  BY <1>1, <1>6, <1>7, <1>17, <2>1, <2>2, <2>3, OneBatchStays
  <1>20. Placed'
    <2>1. \A k \in Counters : spent'[k] \in Nat  BY <1>6
    <2>2. Astray'  BY <1>6, <2>1 DEF Astray, Counters
    <2>. QED  BY <2>2 DEF Placed
  <1>. QED  BY <1>7, <1>13, <1>14, <1>15, <1>16, <1>18, <1>19, <1>20 DEF IInv

\* Steps that change neither threads nor anything of the scan.
LEMMA OthersKeep ==
    ASSUME IInv, Boot \/ EditLabel \/ Revoke \/ Reconnect \/ UNCHANGED vars
    PROVE  IInv'
  <1>1. TypeOK  BY DEF IInv
  <1>2. /\ UNCHANGED <<threads, scan, subs, remote, exec, work, settled>>
        /\ connected' \in BOOLEAN /\ definition' \in BOOLEAN /\ offered' \in BOOLEAN
    BY <1>1 DEF Boot, EditLabel, Revoke, Reconnect, vars, mailbox, TypeOK
  <1>3. spent' \in [Counters -> Nat] /\ Grown
    <2>1. \/ Spend("boots", MaxBoots) \/ Spend("changes", MaxChanges)
          \/ Spend("revocations", MaxRevocations) \/ UNCHANGED spent
      BY DEF Boot, EditLabel, Revoke, Reconnect, vars
    <2>2. {"boots", "changes", "revocations"} \subseteq Counters
      BY DEF Counters
    <2>3. CASE UNCHANGED spent  BY <1>1, <2>3, Typed DEF Grown
    <2>. QED  BY <1>1, <2>1, <2>2, <2>3, SpendIs
  <1>4. TypeOK'  BY <1>1, <1>2, <1>3 DEF TypeOK
  <1>5. work' \subseteq work /\ \A c \in work : c \in work'  BY <1>2
  <1>. QED  BY <1>2, <1>3, <1>4, <1>5, IdleKeeps

\* The provider finishes a batch.
LEMMA FinishIs ==
    ASSUME TypeOK, NEW i \in 1 .. Len(remote), Finish(i)
    PROVE  /\ remote' \in Seq(Remote) /\ Len(remote') = Len(remote)
           /\ remote[i].batch = "running" /\ remote'[i].batch \in States
           /\ \A j \in SubId1 : remote'[j].files = remote[j].files /\ (j # i => remote'[j] = remote[j])
  <1>1. i \in SubId1 /\ DOMAIN remote = SubId1 /\ remote \in Seq(Remote)
    BY Typed DEF SubId1
  <1>2. PICK state \in States, matched \in SUBSET remote[i].asked, invalid \in SUBSET remote[i].asked :
           remote' = [remote EXCEPT ![i].batch = state, ![i].matched = matched, ![i].invalid = invalid]
    BY DEF Finish
  <1>3. PICK r : r = remote[i]  OBVIOUS
  <1>4. r \in Remote  BY <1>1, <1>3, Typed
  <1>5. PICK q : q = [r EXCEPT !.batch = state, !.matched = matched, !.invalid = invalid]
    OBVIOUS
  <1>6. q \in Remote /\ q.batch = state /\ q.files = r.files
    BY <1>2, <1>3, <1>4, <1>5 DEF Remote, States
  <1>7. remote' = [remote EXCEPT ![i] = q]  BY <1>2, <1>3, <1>5
  <1>8. remote' \in Seq(Remote) /\ Len(remote') = Len(remote)
    BY <1>1, <1>6, <1>7
  <1>9. remote'[i] = q /\ \A j \in SubId1 : j # i => remote'[j] = remote[j]
    BY <1>1, <1>7
  <1>10. remote[i].batch = "running"  BY DEF Finish
  <1>. QED  BY <1>2, <1>3, <1>6, <1>8, <1>9, <1>10

\* What is asked of the provider stays accounted for.
LEMMA FinishKeeps ==
    ASSUME IInv, NEW i \in 1 .. Len(remote), Finish(i)
    PROVE  IInv'
  <1>1. /\ TypeOK /\ Attempts /\ Submissions /\ Driven /\ Led /\ Sequential /\ Fresh
        /\ OneBatch /\ Placed
    BY DEF IInv
  <1>2. UNCHANGED <<mailbox, scan, subs, offered, exec, work, settled, spent>>
    BY DEF Finish
  <1>3. /\ remote' \in Seq(Remote) /\ Len(remote') = Len(remote)
        /\ remote[i].batch = "running" /\ remote'[i].batch \in States
        /\ \A j \in SubId1 : remote'[j].files = remote[j].files /\ (j # i => remote'[j] = remote[j])
    BY <1>1, FinishIs
  <1>4. TypeOK'  BY <1>1, <1>2, <1>3 DEF TypeOK, mailbox
  <1>5. UNCHANGED <<threads, scan, subs, exec, work, settled, spent>> /\ Grown
    BY <1>2 DEF mailbox, Grown
  <1>6. "running" \notin States /\ "none" \notin States  BY DEF States
  <1>7. \A j \in SubId1 : /\ remote'[j].files = remote[j].files
                          /\ (remote'[j].batch # "none") <=> (remote[j].batch # "none")
                          /\ remote[j].batch \in States => remote'[j].batch \in States
                          /\ \/ remote'[j].batch = remote[j].batch
                             \/ remote[j].batch \notin States /\ remote[j].batch # "none"
    BY <1>3, <1>6
  <1>8. Monotone
    <2>1. \A e \in Entry : Stale(e) => Stale(e)'  BY <1>5 DEF Stale
    <2>2. Len(subs) <= Len(subs')  BY <1>1, <1>5, Typed
    <2>. QED  BY <1>5, <1>7, <2>1, <2>2 DEF Monotone
  <1>9. Attempts'
    <2> DEFINE B == {}
    <2>1. work' \subseteq work \union B /\ \A d \in B : Sound(d)'  BY <1>5
    <2>. HIDE DEF B
    <2>. QED  BY <1>1, <1>4, <1>8, <2>1, AttemptsGo
  <1>10. Submissions'
    <2>1. ASSUME NEW j \in SubId1 PROVE Planned(j)' /\ Handed(j)'
      <3>1. Planned(j) /\ Handed(j)  BY <1>1 DEF Submissions
      <3>2. Planned(j)'
        BY <1>1, <1>4, <1>5, <3>1, StaysPlanned DEF SamePlan, Active
      <3>3. Handed(j)'  BY <1>5, <1>7, <3>1 DEF Handed, Sent
      <3>. QED  BY <3>2, <3>3
    <2>2. SubId1' = SubId1  BY <1>5 DEF SubId1
    <2>. QED  BY <2>1, <2>2 DEF Submissions
  <1>11. Driven' /\ Led'  BY <1>1, <1>4, <1>5, <1>8, DrivenStays, LedStays
  <1>12. Sequential'
    <2>1. ASSUME spent'["timeouts"] = 0, NEW a \in work', NEW b \in work' PROVE a = b /\ Alone(a)'
      <3>1. a = b /\ Alone(a)  BY <1>1, <1>5, <2>1 DEF Sequential
      <3>2. a.at = "prepare" => a.sub \in SubId1
        BY <1>1, <1>5, <2>1 DEF Attempts, Sound, Sending
      <3>3. a.at = "prepare" => ~Sent(a.sub)'
        BY <1>7, <3>1, <3>2 DEF Alone, Sent
      <3>. QED  BY <1>5, <3>1, <3>3 DEF Alone, ThreadsOf
    <2>. QED  BY <2>1 DEF Sequential
  <1>13. (\A j \in Active' : j \in Active) /\ (\A j \in Active : j \in Active') /\ (Open' => Open)
    BY <1>5 DEF Active, Open
  <1>14. Fresh'  BY <1>1, <1>5, <1>13, FreshStays
  <1>15. OneBatch'
    <2>1. \A j \in SubId1 :
              \/ remote'[j].batch = remote[j].batch
              \/ remote[j].batch \notin States /\ (remote[j].batch = "none" =>
                     \E a \in work : a.at \in Sending /\ a.sub = j)
              \/ remote[j].batch \in States /\ remote'[j].batch \in States
      BY <1>7
    <2>2. \A d \in work' : d.at \in Sending => d.sub \in Active \/ \E c \in work : c.at \in Sending /\ c.sub = d.sub
      BY <1>5
    <2>3. Len(subs') = Len(subs)  BY <1>5
    <2>. QED  BY <1>1, <1>4, <1>5, <1>13, <2>1, <2>2, <2>3, OneBatchStays
  <1>16. Placed'
    <2>1. \A j \in Active' : j \in Active /\ SamePlan(j)
      BY <1>5 DEF Active, SamePlan
    <2>2. scan'.cursor = scan.cursor /\ settled \subseteq settled' /\ Len(subs') = Len(subs)
      BY <1>5
    <2>3. (\A c \in work : Closing(c) => \E d \in work' : Closing(d)) /\ \A d \in work' : Going(d) => d \in work
      BY <1>5
    <2>. QED  BY <1>1, <1>4, <1>5, <1>13, <2>1, <2>2, <2>3, PlacedStays
  <1>. QED  BY <1>4, <1>9, <1>10, <1>11, <1>12, <1>14, <1>15, <1>16 DEF IInv

\* The mailbox, the user or live analysis changes a thread; never as the scan does.
LEMMA ChangeIs ==
    ASSUME TypeOK, NEW t \in Thread, Change(t)
    PROVE  /\ threads' \in [Thread -> ThreadRecord]
           /\ \A e \in Entry : Stale(e) => Stale(e)'
           /\ \A u \in Thread : threads'[u].source = "scan" => threads[u].source = "scan"
  <1>1. threads \in [Thread -> ThreadRecord]  BY Typed
  <1>2. PICK r : r = threads[t]  OBVIOUS
  <1>3. r \in ThreadRecord  BY <1>1, <1>2
  <1>4. PICK q : /\ threads' = [threads EXCEPT ![t] = q]
                 /\ \/ q = [r EXCEPT !.content = r.content + 1]
                    \/ q = [r EXCEPT !.inbox = ~r.inbox]
                    \/ q = [r EXCEPT !.source = "user", !.late = TRUE, !.version = r.version + 1]
                    \/ q = [r EXCEPT !.source = "ai", !.version = r.version + 1]
    <2>1. CASE threads' = [threads EXCEPT ![t].content = @ + 1]
      BY <1>1, <1>2, <2>1
    <2>2. CASE threads' = [threads EXCEPT ![t].inbox = ~@]  BY <1>1, <1>2, <2>2
    <2>3. CASE threads' = [threads EXCEPT ![t].source = "user", ![t].late = TRUE, ![t].version = @ + 1]
      BY <1>1, <1>2, <2>3
    <2>4. CASE threads' = [threads EXCEPT ![t].source = "ai", ![t].version = @ + 1]
      BY <1>1, <1>2, <2>4
    <2>. QED  BY <2>1, <2>2, <2>3, <2>4 DEF Change
  <1>5. /\ q \in ThreadRecord /\ r.version \in Nat /\ q.version \in Nat
        /\ r.version <= q.version /\ (q.late => r.late \/ q.version = r.version + 1)
        /\ q.source = "scan" => r.source = "scan"
    <2>1. r.version \in Nat /\ r.content \in Nat  BY <1>3 DEF ThreadRecord
    <2>2. CASE q = [r EXCEPT !.content = r.content + 1]
      BY <1>3, <2>1, <2>2 DEF ThreadRecord
    <2>3. CASE q = [r EXCEPT !.inbox = ~r.inbox]
      <3>1. q \in ThreadRecord  BY <1>3, <2>1, <2>3 DEF ThreadRecord
      <3>2. q.version = r.version /\ q.late = r.late /\ q.source = r.source
        BY <1>3, <2>3 DEF ThreadRecord
      <3>. QED  BY <2>1, <3>1, <3>2
    <2>4. CASE q = [r EXCEPT !.source = "user", !.late = TRUE, !.version = r.version + 1]
      <3>1. q \in ThreadRecord
        <4>1. PICK v \in Nat : v = r.version + 1  BY <2>1
        <4>2. q = [r EXCEPT !.source = "user", !.late = TRUE, !.version = v]
          BY <2>4, <4>1
        <4>. QED  BY <1>3, <4>2 DEF ThreadRecord
      <3>2. q.version = r.version + 1 /\ q.source = "user"
        BY <1>3, <2>4 DEF ThreadRecord
      <3>. QED  BY <2>1, <3>1, <3>2
    <2>5. CASE q = [r EXCEPT !.source = "ai", !.version = r.version + 1]
      <3>1. q \in ThreadRecord
        <4>1. PICK v \in Nat : v = r.version + 1  BY <2>1
        <4>2. q = [r EXCEPT !.source = "ai", !.version = v]  BY <2>5, <4>1
        <4>. QED  BY <1>3, <4>2 DEF ThreadRecord
      <3>2. q.version = r.version + 1 /\ q.source = "ai"
        BY <1>3, <2>5 DEF ThreadRecord
      <3>. QED  BY <2>1, <3>1, <3>2
    <2>. QED  BY <1>4, <2>2, <2>3, <2>4, <2>5
  <1>6. threads' \in [Thread -> ThreadRecord]  BY <1>1, <1>4, <1>5
  <1>7. threads'[t] = q /\ \A u \in Thread : u # t => threads'[u] = threads[u]
    BY <1>1, <1>4
  <1>8. ASSUME NEW e \in Entry, Stale(e) PROVE Stale(e)'
    <2>1. e.thread \in Thread /\ e.version \in Nat  BY DEF Entry
    <2>2. CASE e.thread = t  BY <1>2, <1>5, <1>7, <1>8, <2>1, <2>2 DEF Stale
    <2>3. CASE e.thread # t  BY <1>7, <1>8, <2>1, <2>3 DEF Stale
    <2>. QED  BY <2>2, <2>3
  <1>9. \A u \in Thread : threads'[u].source = "scan" => threads[u].source = "scan"
    BY <1>2, <1>5, <1>7
  <1>. QED  BY <1>6, <1>8, <1>9

\* A change leaves what was asked behind the thread.
LEMMA ChangeKeeps ==
    ASSUME IInv, NEW t \in Thread, Change(t)
    PROVE  IInv'
  <1>1. /\ TypeOK /\ Attempts /\ Submissions /\ Driven /\ Led /\ Sequential /\ Fresh
        /\ OneBatch /\ Placed
    BY DEF IInv
  <1>2. /\ UNCHANGED <<connected, definition, scan, subs, remote, offered, exec, work, settled>>
        /\ Spend("changes", MaxChanges)
    BY DEF Change
  <1>3. spent' \in [Counters -> Nat] /\ spent'["changes"] # 0 /\ Grown
    <2>1. "changes" \in Counters  BY DEF Counters
    <2>. QED  BY <1>1, <1>2, <2>1, SpendIs
  <1>4. threads' \in [Thread -> ThreadRecord] /\ \A e \in Entry : Stale(e) => Stale(e)'
    BY <1>1, ChangeIs
  <1>5. TypeOK'  BY <1>1, <1>2, <1>3, <1>4 DEF TypeOK
  <1>6. UNCHANGED <<scan, subs, remote, exec, work, settled>>  BY <1>2
  <1>7. Monotone
    <2>1. Len(subs) <= Len(subs')  BY <1>1, <1>6, Typed
    <2>. QED  BY <1>3, <1>4, <1>6, <2>1 DEF Monotone
  <1>8. Attempts'
    <2> DEFINE B == {}
    <2>1. work' \subseteq work \union B /\ \A d \in B : Sound(d)'  BY <1>6
    <2>. HIDE DEF B
    <2>. QED  BY <1>1, <1>5, <1>7, <2>1, AttemptsGo
  <1>9. Submissions'
    <2>1. ASSUME NEW j \in SubId1 PROVE Planned(j)' /\ Handed(j)'
      <3>1. Planned(j) /\ Handed(j)  BY <1>1 DEF Submissions
      <3>2. \A e \in subs[j].manifest : e \in Entry
        BY <1>1, Typed DEF Submission
      <3>3. \A e \in subs'[j].manifest : Stale(e)'
        BY <1>4, <1>6, <3>1, <3>2 DEF Planned
      <3>4. (j \in Active' => j = Len(subs')) /\ (subs'[j].retry = 0 => subs'[j].conts = <<>>)
        BY <1>6, <3>1 DEF Planned, Active
      <3>5. Small(ThreadsOf(subs[j].manifest))' /\ Fitting(subs[j].conts)'
        BY <1>6, <3>1 DEF Planned, Small, ThreadsOf, Fitting
      <3>6. Planned(j)'  BY <1>3, <3>3, <3>4, <3>5 DEF Planned
      <3>7. Handed(j)'  BY <1>6, <3>1 DEF Handed, Sent
      <3>. QED  BY <3>6, <3>7
    <2>2. SubId1' = SubId1  BY <1>6 DEF SubId1
    <2>. QED  BY <2>1, <2>2 DEF Submissions
  <1>10. Driven' /\ Led' /\ Sequential'
    BY <1>1, <1>3, <1>5, <1>6, <1>7, DrivenStays, LedStays, SequentialStays
  <1>11. Fresh'  BY <1>3 DEF Fresh
  <1>12. (\A j \in Active' : j \in Active) /\ (\A j \in Active : j \in Active') /\ (Open' => Open)
    BY <1>6 DEF Active, Open
  <1>13. OneBatch'
    <2>1. \A j \in SubId1 : remote'[j].batch = remote[j].batch  BY <1>6
    <2>2. \A d \in work' : d.at \in Sending => d.sub \in Active \/ \E c \in work : c.at \in Sending /\ c.sub = d.sub
      BY <1>6
    <2>3. Len(subs') = Len(subs)  BY <1>6
    <2>. QED  BY <1>1, <1>3, <1>5, <1>12, <2>1, <2>2, <2>3, OneBatchStays
  <1>14. Placed'
    <2>1. \A j \in Active' : j \in Active /\ SamePlan(j)
      BY <1>6 DEF Active, SamePlan
    <2>2. scan'.cursor = scan.cursor /\ settled \subseteq settled' /\ Len(subs') = Len(subs)
      BY <1>6
    <2>3. (\A c \in work : Closing(c) => \E d \in work' : Closing(d)) /\ \A d \in work' : Going(d) => d \in work
      BY <1>6
    <2>. QED  BY <1>1, <1>3, <1>5, <1>6, <1>12, <2>1, <2>2, <2>3, PlacedStays
  <1>. QED  BY <1>5, <1>8, <1>9, <1>10, <1>11, <1>13, <1>14 DEF IInv

-----------------------------------------------------------------------------
(* The invariant.                                                          *)

\* The initial states satisfy it: every thread is behind the cursor.
LEMMA InitHolds ==
    ASSUME Init
    PROVE  IInv
  <1>1. /\ scan = [status |-> "queued", cursor |-> 0] /\ subs = <<>> /\ remote = <<>>
        /\ exec = [at |-> "none", scope |-> FirstScope, sub |-> 0] /\ work = {} /\ settled = {}
        /\ spent = [c \in Counters |-> 0]
        /\ connected \in BOOLEAN /\ definition \in BOOLEAN /\ offered \in BOOLEAN
    BY DEF Init
  <1>2. SubId1 = {} /\ Active = {} /\ Len(subs) = 0 /\ Len(remote) = 0
    BY <1>1 DEF SubId1, Active
  <1>3. threads \in [Thread -> ThreadRecord]
    <2>1. ASSUME NEW r \in [inbox : BOOLEAN, content : {0}, version : {0}, source : {"none"}, late : {FALSE}]
          PROVE  r \in ThreadRecord
      <3>1. r.content \in Nat /\ r.version \in Nat  OBVIOUS
      <3>2. r.source \in {"none", "ai", "user", "scan"} /\ r.inbox \in BOOLEAN /\ r.late \in BOOLEAN
        OBVIOUS
      <3>3. r = [inbox |-> r.inbox, content |-> r.content, version |-> r.version,
                 source |-> r.source, late |-> r.late]
        OBVIOUS
      <3>. QED  BY <3>1, <3>2, <3>3, Zenon DEF ThreadRecord
    <2>. QED  BY <2>1 DEF Init
  <1>4. TypeOK
    <2>1. exec \in Execution
      BY <1>1, ScopeTyped, ConstantsTyped DEF Execution, SubId
    <2>2. scan \in [status : {"queued", "running", "complete", "failed", "superseded"}, cursor : 0 .. Threads]
      BY <1>1, ConstantsTyped
    <2>3. subs \in Seq(Submission) /\ remote \in Seq(Remote) /\ Len(subs) <= MaxSubs
      BY <1>1, ConstantsTyped
    <2>4. spent \in [Counters -> Nat]  BY <1>1
    <2>. QED  BY <1>1, <1>2, <1>3, <2>1, <2>2, <2>3, <2>4 DEF TypeOK
  <1>5. Attempts /\ Submissions /\ Led /\ Sequential /\ Fresh
    BY <1>1, <1>2 DEF Attempts, Submissions, Led, Sequential, Fresh
  <1>6. Driven  BY <1>1, ScopeTyped DEF Driven
  <1>7. OneBatch  BY <1>2 DEF OneBatch
  <1>8. Placed
    <2>1. \A t \in Left : Covers(exec.scope, t)
      BY <1>1 DEF Left, Covers, Thread
    <2>. QED  BY <1>1, <1>2, <2>1 DEF Placed
  <1>. QED  BY <1>4, <1>5, <1>6, <1>7, <1>8 DEF IInv

\* Every step keeps it.
LEMMA NextKeeps ==
    ASSUME IInv, [Next]_vars
    PROVE  IInv'
  <1>1. CASE Drive
    <2>1. ASSUME NEW a \in work, Step(a) PROVE IInv'
      BY <2>1, StepKeeps, ReportKeeps
    <2>. QED  BY <1>1, <2>1, DispatchKeeps, StartKeeps, ReleaseKeeps DEF Drive
  <1>2. CASE Answer  BY <1>2, FinishKeeps DEF Answer
  <1>3. CASE \E a \in work : Crash(a) \/ Timeout(a)
    BY <1>3, CrashKeeps, TimeoutKeeps
  <1>4. CASE GiveUp  BY <1>4, GiveUpKeeps
  <1>5. CASE \E t \in Thread : Change(t)  BY <1>5, ChangeKeeps
  <1>6. CASE Boot \/ EditLabel \/ Revoke \/ Reconnect \/ UNCHANGED vars
    BY <1>6, OthersKeep
  <1>. QED  BY <1>1, <1>2, <1>3, <1>4, <1>5, <1>6 DEF Next

\* The inductive invariant of the scan: how its attempts, its submissions, the
\* batches at the provider, the scope of its Execution and its cursor account for
\* every thread (historical-thread-label-batches.ts, historical-label-scan.ts).
THEOREM Accounting == Spec => []IInv
  <1>1. Init => IInv  BY InitHolds
  <1>2. IInv /\ [Next]_vars => IInv'  BY NextKeeps
  <1>. QED  BY <1>1, <1>2, PTL DEF Spec

-----------------------------------------------------------------------------
(* What the runs check, for every value of the constants.                  *)

\* Every variable of the scan keeps its type, whatever crashes, overlaps or is
\* changed: a report names a submission there is, a continuation a retry there may be.
THEOREM WellTyped == Spec => []TypeOK
  <1>1. IInv => TypeOK  BY DEF IInv
  <1>. QED  BY <1>1, Accounting, PTL

\* A thread is in one batch at the provider at a time, unless attempts overlap
\* while their threads change (claimThreadLabelBatchSubmission, createThreadLabelBatch).
THEOREM OneBatchOut == Spec => []BilledOnce
  <1>1. ASSUME IInv PROVE BilledOnce
    <2>1. TypeOK /\ OneBatch  BY <1>1 DEF IInv
    <2>2. ASSUME spent["timeouts"] = 0 \/ spent["changes"] = 0, NEW i \in 1 .. Len(remote),
                 i < Len(subs), remote[i].batch = "running"
          PROVE  FALSE
      <3>1. i \in SubId1  BY <2>1, <2>2, Typed DEF SubId1
      <3>2. Over(i)  BY <2>1, <2>2, <3>1 DEF OneBatch
      <3>. QED  BY <2>2, <3>2 DEF Over, States
    <2>3. ASSUME spent["timeouts"] = 0 \/ spent["changes"] = 0,
                 NEW i \in 1 .. Len(remote), NEW j \in 1 .. Len(remote),
                 i # j, remote[i].batch = "running", remote[j].batch = "running"
          PROVE  FALSE
      <3>1. Len(remote) = Len(subs) /\ Len(subs) \in Nat  BY <2>1, Typed
      <3>2. i < Len(subs) \/ j < Len(subs)  BY <2>3, <3>1
      <3>. QED  BY <2>2, <2>3, <3>2
    <2>. QED  BY <2>1, <2>3 DEF BilledOnce
  <1>2. IInv => BilledOnce  BY <1>1
  <1>. QED  BY <1>2, Accounting, PTL

\* Results are applied to a thread as the user left it.
LEMMA AppliesSpares ==
    ASSUME TypeOK, Submissions, NEW i \in SubId1, NEW a, NEW state, NEW matched, NEW invalid,
           Applies(a, i, state, matched, invalid), NEW t \in Thread, threads[t].late
    PROVE  threads'[t] = threads[t]
  <1>1. CASE UNCHANGED threads  BY <1>1
  <1>2. CASE \E again, hit : \E may \in BOOLEAN, st \in {"complete", "failed"} :
                 Applied(a, i, again, hit, may, st)
    <2>1. PICK again, hit : \E may \in BOOLEAN, st \in {"complete", "failed"} :
                 Applied(a, i, again, hit, may, st)
      BY <1>2
    <2>2. PICK may \in BOOLEAN, st \in {"complete", "failed"} : Applied(a, i, again, hit, may, st)
      BY <2>1
    <2>. QED  BY <2>2, AppliedThreads
  <1>. QED  BY <1>1, <1>2, AppliesIs

\* A step leaves what the user chose after the request, or gives it another
\* source than the scan.
LEMMA NextSpares ==
    ASSUME IInv, Next, NEW t \in Thread, threads[t].late, threads[t].source # "scan"
    PROVE  threads'[t].source # "scan"
  <1>1. TypeOK /\ Submissions  BY DEF IInv
  <1>2. CASE UNCHANGED threads  BY <1>2
  <1>3. CASE \E u \in Thread : Change(u)  BY <1>1, <1>3, ChangeIs
  <1>4. ASSUME NEW a \in work, Apply(a) PROVE threads'[t].source # "scan"
    <2>1. PICK i : i = a.sub  OBVIOUS
    <2>2. i \in SubId1
      <3>1. a.at = "apply" /\ Sound(a)  BY <1>4, AttemptIs DEF Apply
      <3>. QED  BY <2>1, <3>1 DEF Sound
    <2>3. PICK state, matched, invalid : Applies(a, i, state, matched, invalid)
      BY <1>4, <2>1 DEF Apply
    <2>. QED  BY <1>1, <2>2, <2>3, AppliesSpares
  <1>5. ASSUME NEW a \in work, Prepare(a) PROVE threads'[t].source # "scan"
    <2>1. PICK i : i = a.sub  OBVIOUS
    <2>2. i \in SubId1
      <3>1. a.at = "prepare" /\ Sound(a)  BY <1>5, AttemptIs DEF Prepare
      <3>. QED  BY <2>1, <3>1 DEF Sound, Sending
    <2>3. CASE a.entries = {}
      <3>1. PICK state, matched, invalid : Applies(a, i, state, matched, invalid)
        BY <1>5, <2>1, <2>3 DEF Prepare, Skips
      <3>. QED  BY <1>1, <2>2, <3>1, AppliesSpares
    <2>4. CASE a.entries # {}  BY <1>5, <2>4 DEF Prepare
    <2>. QED  BY <2>3, <2>4
  <1>6. \/ UNCHANGED threads \/ (\E u \in Thread : Change(u))
        \/ (\E a \in work : Apply(a) \/ Prepare(a))
    <2>1. ASSUME NEW a \in work, Step(a) PROVE UNCHANGED threads \/ Apply(a) \/ Prepare(a)
      BY <2>1 DEF Step, Check, Claim, File, Upload, Record, Batch, RecordBatch, Read, Fail, Report, mailbox
    <2>2. CASE Drive
      <3>1. CASE Dispatch \/ Start \/ Release
        BY <3>1 DEF Dispatch, Start, Release, mailbox
      <3>. QED  BY <2>1, <2>2, <3>1 DEF Drive
    <2>3. CASE Answer  BY <2>3 DEF Answer, Finish, mailbox
    <2>4. CASE (\E a \in work : Crash(a) \/ Timeout(a)) \/ GiveUp \/ Boot
      BY <2>4 DEF Crash, Timeout, GiveUp, Boot, mailbox
    <2>5. CASE EditLabel \/ Revoke \/ Reconnect
      BY <2>5 DEF EditLabel, Revoke, Reconnect
    <2>. QED  BY <2>2, <2>3, <2>4, <2>5 DEF Next
  <1>. QED  BY <1>2, <1>3, <1>4, <1>5, <1>6

\* A label the user chose after making the request is never replaced by the scan,
\* whatever batch was out when it was chosen.
THEOREM LateChoiceStands == Spec => UserWins
  <1>1. ASSUME IInv, [Next]_vars, NEW t \in Thread, threads[t].late, threads[t].source = "user"
        PROVE  threads'[t].source # "scan"
    <2>1. CASE Next  BY <1>1, <2>1, NextSpares
    <2>2. CASE UNCHANGED vars  BY <1>1, <2>2 DEF vars, mailbox
    <2>. QED  BY <1>1, <2>1, <2>2
  <1>2. IInv /\ [Next]_vars =>
           [\A t \in Thread : threads[t].late /\ threads[t].source = "user"
                 => threads'[t].source # "scan"]_vars
    BY <1>1
  <1>. QED  BY <1>2, Accounting, PTL DEF Spec, UserWins

-----------------------------------------------------------------------------
(* The scan implements ScanPromise.                                        *)

Said == IF Open THEN "open" ELSE scan.status
Settling == settled' \in SUBSET Thread /\ settled \subseteq settled'
Promising == \/ Settling /\ UNCHANGED <<Said, Astray>>
             \/ /\ Said = "open" /\ Said' = "complete" /\ Settling
                /\ settled' = Thread \/ Astray
                /\ UNCHANGED Astray
             \/ /\ Said = "open" /\ Said' \in {"failed", "superseded"} /\ Settling
                /\ UNCHANGED Astray
             \/ Astray' = TRUE /\ UNCHANGED <<Said, settled>>
             \/ UNCHANGED <<Said, settled, Astray>>

\* A step that settles threads, and may end the request with less.
LEMMA MaySettle ==
    ASSUME UNCHANGED spent, Settling,
           \/ scan'.status = scan.status
           \/ Open /\ Open'
           \/ Open /\ scan'.status \in {"failed", "superseded"}
    PROVE  Promising
  <1>1. Astray' = Astray  BY DEF Astray
  <1>2. CASE scan'.status = scan.status \/ (Open /\ Open')
    <2>1. Said' = Said  BY <1>2 DEF Said, Open
    <2>. QED  BY <1>1, <2>1 DEF Promising
  <1>3. CASE Open /\ scan'.status \in {"failed", "superseded"}
    <2>1. Said = "open" /\ Said' \in {"failed", "superseded"}
      BY <1>3 DEF Said, Open
    <2>. QED  BY <1>1, <2>1 DEF Promising
  <1>. QED  BY <1>2, <1>3

\* A step of which the request hears at most that it has gone astray.
LEMMA MayGoAstray ==
    ASSUME TypeOK, TypeOK', UNCHANGED <<scan, settled>>, Grown
    PROVE  Promising
  <1>1. Said' = Said  BY DEF Said, Open
  <1>2. Astray => Astray'  BY CalmBefore
  <1>3. Astray \in BOOLEAN /\ Astray' \in BOOLEAN  BY DEF Astray
  <1>4. CASE Astray'  BY <1>1, <1>3, <1>4 DEF Promising
  <1>5. CASE ~Astray'  BY <1>1, <1>2, <1>3, <1>5 DEF Promising
  <1>. QED  BY <1>4, <1>5

\* Reading a scan that is superseded.
LEMMA SupersededSays ==
    ASSUME TypeOK, scan' = Superseded
    PROVE  scan'.status = scan.status \/ (Open /\ scan'.status \in {"failed", "superseded"})
  BY SupersededIs DEF Open

\* A batch that is closed ends the request with a failure, or leaves it open.
LEMMA AppliesPromises ==
    ASSUME IInv, IInv', NEW i, NEW a, NEW state, NEW matched, NEW invalid,
           Applies(a, i, state, matched, invalid), UNCHANGED spent
    PROVE  Promising
  <1>1. TypeOK /\ TypeOK'  BY DEF IInv
  <1>2. settled \subseteq Thread /\ settled' \subseteq Thread
    BY <1>1 DEF TypeOK
  <1>3. CASE scan' = Superseded /\ UNCHANGED settled
    BY <1>1, <1>2, <1>3, SupersededSays, MaySettle DEF Settling
  <1>4. CASE \E again, hit : \E may \in BOOLEAN, st \in {"complete", "failed"} :
                 Applied(a, i, again, hit, may, st)
    <2>1. PICK again, hit : \E may \in BOOLEAN, st \in {"complete", "failed"} :
                 Applied(a, i, again, hit, may, st)
      BY <1>4
    <2>2. PICK may \in BOOLEAN, st \in {"complete", "failed"} : Applied(a, i, again, hit, may, st)
      BY <2>1
    <2>3. PICK S : S = ThreadsOf(subs[i].manifest) \ again  OBVIOUS
    <2>4. settled' = settled \union S /\ Open
      BY <2>2, <2>3 DEF Applied, Current, Open
    <2>5. PICK x : x = IF again # {} /\ ~may THEN "failed" ELSE scan.status
      OBVIOUS
    <2>6. scan' = [scan EXCEPT !.cursor = LastOf(subs[i]), !.status = x]
      BY <2>2, <2>5 DEF Applied
    <2>7. scan'.status = x /\ x \in {scan.status, "failed"}
      <3>1. scan \in [status : {"queued", "running", "complete", "failed", "superseded"}, cursor : 0 .. Threads]
        BY <1>1 DEF TypeOK
      <3>. QED  BY <2>5, <2>6, <3>1
    <2>8. Settling  BY <1>2, <2>4 DEF Settling
    <2>. QED  BY <2>4, <2>7, <2>8, MaySettle
  <1>. QED  BY <1>3, <1>4, AppliesIs

\* A page that is empty completes the scan only when nothing is left.
LEMMA ClaimPromises ==
    ASSUME IInv, IInv', NEW a \in work, Claim(a)
    PROVE  Promising
  <1>1. TypeOK /\ TypeOK'  BY DEF IInv
  <1>2. settled \subseteq Thread /\ settled' \subseteq Thread
    BY <1>1 DEF TypeOK
  <1>3. a.at = "claim" /\ UNCHANGED spent  BY DEF Claim
  <1>4. scan \in [status : {"queued", "running", "complete", "failed", "superseded"}, cursor : 0 .. Threads]
    BY <1>1 DEF TypeOK
  <1>5. CASE ClaimSuperseded(a)
    <2>1. UNCHANGED settled /\ (scan' = Superseded \/ scan' = scan)
      BY <1>5 DEF ClaimSuperseded
    <2>. QED  BY <1>1, <1>2, <1>3, <2>1, SupersededSays, MaySettle DEF Settling
  <1>6. CASE ClaimResumed(a)
    <2>1. UNCHANGED <<scan, settled>>  BY <1>6 DEF ClaimResumed
    <2>. QED  BY <1>2, <1>3, <2>1, MaySettle DEF Settling
  <1>7. CASE ClaimPage(a)
    <2>1. Claimable /\ scan' = [scan EXCEPT !.status = "running"] /\ settled \subseteq settled'
      BY <1>7 DEF ClaimPage
    <2>2. scan'.status = "running" /\ Open /\ Open'
      BY <1>4, <2>1, ClaimableIs DEF Open
    <2>. QED  BY <1>2, <1>3, <2>1, <2>2, MaySettle DEF Settling
  <1>8. CASE ClaimEmpty(a)
    <2>1. PICK scope : scope = a.scope  OBVIOUS
    <2>2. PICK P : P = Passed(scope, {})  OBVIOUS
    <2>3. /\ Claimable /\ Page(scope) = {} /\ settled' = settled \union P
          /\ IF scope.threads # {} THEN UNCHANGED scan ELSE scan' = [scan EXCEPT !.status = "complete"]
      BY <1>8, <2>1, <2>2 DEF ClaimEmpty
    <2>4. Settling /\ Open  BY <1>2, <2>3, ClaimableIs DEF Settling
    <2>5. CASE scope.threads # {}  BY <1>3, <2>3, <2>4, <2>5, MaySettle
    <2>6. CASE scope.threads = {}
      <3>1. scan'.status = "complete"  BY <1>4, <2>3, <2>6
      <3>2. Said = "open" /\ Said' = "complete"  BY <2>4, <3>1 DEF Said, Open
      <3>3. ASSUME ~Astray PROVE settled' = Thread
        <4>1. \A t \in Left : Covers(scope, t)
          BY <1>3, <2>1, <2>4, <3>3, ClaimCovers
        <4>2. Proper(scope) /\ scope.threads \subseteq Thread
          <5>1. a \in Attempt /\ Sound(a)  BY AttemptIs
          <5>2. a.scope \in Scope  BY <5>1, AttemptTyped
          <5>. QED  BY <2>1, <5>1, <5>2 DEF Sound, Scope
        <4>3. scope.conts = <<>>  BY <2>6, <4>2 DEF Proper
        <4>4. \A t \in Left : t > scan.cursor
          BY <2>6, <4>1, <4>3 DEF Covers, In
        <4>5. \A t \in Thread : t > scan.cursor => t \in P
          BY <1>1, <2>2, <2>3, <2>6, <4>2, PassedAll
        <4>6. Left \subseteq P /\ Left = Thread \ settled
          BY <4>4, <4>5 DEF Left
        <4>. QED  BY <1>2, <2>3, <4>6
      <3>4. Astray' = Astray  BY <1>3 DEF Astray
      <3>. QED  BY <2>4, <3>2, <3>3, <3>4 DEF Promising
    <2>. QED  BY <2>5, <2>6
  <1>. QED  BY <1>5, <1>6, <1>7, <1>8 DEF Claim

\* A step of an attempt.
LEMMA StepPromises ==
    ASSUME IInv, IInv', NEW a \in work, Step(a)
    PROVE  Promising
  <1>1. TypeOK /\ TypeOK'  BY DEF IInv
  <1>2. settled \subseteq Thread /\ settled' \subseteq Thread
    BY <1>1 DEF TypeOK
  <1>3. CASE Check(a) \/ File(a) \/ Upload(a) \/ Record(a) \/ Batch(a) \/ RecordBatch(a) \/ Read(a) \/ Report(a)
    <2>1. UNCHANGED <<scan, settled, spent>>
      BY <1>3 DEF Check, File, Upload, Record, Batch, RecordBatch, Read, Report
    <2>. QED  BY <1>2, <2>1, MaySettle DEF Settling
  <1>4. CASE Claim(a)  BY <1>4, ClaimPromises
  <1>5. CASE Prepare(a)
    <2>1. UNCHANGED spent  BY <1>5 DEF Prepare
    <2>2. CASE a.entries = {}
      <3>1. PICK i, state, matched, invalid : Applies(a, i, state, matched, invalid)
        BY <1>5, <2>2 DEF Prepare, Skips
      <3>. QED  BY <2>1, <3>1, AppliesPromises
    <2>3. CASE a.entries # {}
      <3>1. UNCHANGED scan /\ settled \subseteq settled'
        BY <1>5, <2>3 DEF Prepare
      <3>. QED  BY <1>2, <2>1, <3>1, MaySettle DEF Settling
    <2>. QED  BY <2>2, <2>3
  <1>6. CASE Apply(a)
    <2>1. PICK i, state, matched, invalid : Applies(a, i, state, matched, invalid)
      BY <1>6 DEF Apply
    <2>2. UNCHANGED spent  BY <1>6 DEF Apply
    <2>. QED  BY <2>1, <2>2, AppliesPromises
  <1>7. CASE Fail(a)
    <2>1. UNCHANGED <<settled, spent>>  BY <1>7 DEF Fail
    <2>2. scan' = scan \/ (Open /\ scan' = [scan EXCEPT !.status = "failed"])
      BY <1>7 DEF Fail, Open
    <2>3. scan \in [status : {"queued", "running", "complete", "failed", "superseded"}, cursor : 0 .. Threads]
      BY <1>1 DEF TypeOK
    <2>4. scan'.status = scan.status \/ (Open /\ scan'.status \in {"failed", "superseded"})
      BY <2>2, <2>3
    <2>. QED  BY <1>2, <2>1, <2>4, MaySettle DEF Settling
  <1>. QED  BY <1>3, <1>4, <1>5, <1>6, <1>7 DEF Step

\* Every step is a step of the promise, or the request hears nothing of it.
LEMMA NextPromises ==
    ASSUME IInv, IInv', [Next]_vars
    PROVE  Promising
  <1>1. TypeOK /\ TypeOK'  BY DEF IInv
  <1>2. CASE \E a \in work : Step(a)  BY <1>2, StepPromises
  <1>3. CASE ~\E a \in work : Step(a)
    <2>1. UNCHANGED <<scan, settled>>
      <3>1. CASE Dispatch \/ Start \/ Release
        BY <3>1 DEF Dispatch, Start, Release
      <3>2. CASE Answer  BY <3>2 DEF Answer, Finish
      <3>3. CASE (\E a \in work : Crash(a) \/ Timeout(a)) \/ GiveUp \/ Boot
        BY <3>3 DEF Crash, Timeout, GiveUp, Boot
      <3>4. CASE \E t \in Thread : Change(t)  BY <3>4 DEF Change
      <3>5. CASE EditLabel \/ Revoke \/ Reconnect
        BY <3>5 DEF EditLabel, Revoke, Reconnect
      <3>6. CASE UNCHANGED vars  BY <3>6 DEF vars
      <3>. QED  BY <1>3, <3>1, <3>2, <3>3, <3>4, <3>5, <3>6 DEF Next, Drive
    <2>2. Grown
      <3>1. UNCHANGED spent \/ \E c \in Counters : \E bound : Spend(c, bound)
        <4>1. \A a : Loses(a) \in Counters  BY DEF Loses, Counters
        <4>2. {"timeouts", "deaths", "faults", "boots", "changes", "revocations"} \subseteq Counters
          BY DEF Counters
        <4>3. CASE Dispatch \/ Start \/ Release \/ Answer \/ Reconnect \/ UNCHANGED vars
          BY <4>3 DEF Dispatch, Start, Release, Answer, Finish, Reconnect, vars
        <4>4. CASE \E a \in work : Crash(a)  BY <4>1, <4>4 DEF Crash
        <4>5. CASE \E a \in work : Timeout(a)  BY <4>2, <4>5 DEF Timeout
        <4>6. CASE GiveUp  BY <4>2, <4>6 DEF GiveUp
        <4>7. CASE Boot  BY <4>2, <4>7 DEF Boot
        <4>8. CASE (\E t \in Thread : Change(t)) \/ EditLabel
          BY <4>2, <4>8 DEF Change, EditLabel
        <4>9. CASE Revoke  BY <4>2, <4>9 DEF Revoke
        <4>. QED  BY <1>3, <4>3, <4>4, <4>5, <4>6, <4>7, <4>8, <4>9 DEF Next, Drive
      <3>2. CASE UNCHANGED spent  BY <3>2 DEF Grown
      <3>3. CASE \E c \in Counters : \E bound : Spend(c, bound)
        <4>1. PICK c \in Counters : \E bound : Spend(c, bound)  BY <3>3
        <4>2. PICK bound : Spend(c, bound)  BY <4>1
        <4>. QED  BY <1>1, <4>2, SpendIs
      <3>. QED  BY <3>1, <3>2, <3>3
    <2>. QED  BY <1>1, <2>1, <2>2, MayGoAstray
  <1>. QED  BY <1>2, <1>3

\* The scan keeps what a request to label past mail promises: it is reported
\* complete only when every thread has been dealt with, unless its Execution has
\* failed, its attempts have overlapped or a batch closed as empty was never
\* reported (ScanPromise); one that has ended stays as it is.
THEOREM ScanKeepsPromise == Spec => KeepsPromise
  <1>1. Init => Promise!Init
    <2>1. Init => Said = "open" /\ settled = {}  BY DEF Init, Said, Open
    <2>2. Init => Astray = FALSE  BY DEF Init, Astray, Counters
    <2>. QED  BY <2>1, <2>2 DEF Promise!Init, Said
  <1>2. IInv /\ IInv' /\ [Next]_vars => [Promise!Next]_(Promise!vars)
    <2>1. IInv /\ IInv' /\ [Next]_vars => Promising  BY NextPromises
    <2>2. Promising => [Promise!Next]_(Promise!vars)
      BY DEF Promising, Settling, Said, Promise!Next, Promise!vars, Promise!Settle, Promise!Complete, Promise!Stop, Promise!GoAstray
    <2>. QED  BY <2>1, <2>2
  <1>. QED  BY <1>1, <1>2, Accounting, PTL DEF Spec, KeepsPromise, Promise!Spec
=============================================================================
