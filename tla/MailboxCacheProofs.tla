------------------------- MODULE MailboxCacheProofs -------------------------
(***************************************************************************)
(* Theorems about MailboxCache, for every finite set of threads, every set *)
(* of views, every size of a page and every bound.                         *)
(***************************************************************************)
EXTENDS MailboxCache, FiniteSetTheorems, TLAPS

-----------------------------------------------------------------------------
(* The tab.                                                                *)

Pages == UNION {[views -> Page] : views \in SUBSET Views}

Tab ==
  [view: Views, open: Threads \cup {None}, pages: Pages,
   rows: Lines, counts: [Views -> Nat], details: Lines,
   shown: Reader \cup {None}, recovering: Views \cup {None},
   first: FirstRead \cup {None}, more: MoreRead \cup {None}, detail: ThreadRead \cup {None},
   prefetch: ThreadRead \cup {None}, star: Click \cup {None}, job: Job \cup {None},
   loading: SUBSET Views, predicted: Prediction \cup {None},
   recover: BOOLEAN, pending: SUBSET Threads, healthy: BOOLEAN, streamReady: BOOLEAN,
   errored: BOOLEAN, status: {"waiting", "ready"}, steady: BOOLEAN]

\* What the store holds of a page's threads.
Kept(w) == \A v \in DOMAIN w.pages : ToSet(w.pages[v].ids) \subseteq DOMAIN w.rows

\* The tab takes the page that is shown for what is stored: the last recovery has
\* read it and has not failed, and nothing of the reader's has been put over it.
Believes(w) ==
  /\ w.steady
  /\ IF w.job # None /\ w.job.kind = "recover"
     THEN w.job.list = Finished /\ ~w.job.failed
     ELSE w.healthy

\* The reconciler: a recovery reads the view that is shown, alone; what has been asked
\* for is being done; and a tab that says it is ready and is not is being recovered.
Reconciles(w) ==
  /\ w.job # None => w.job.view = w.view
  /\ w.job # None /\ w.job.kind = "recover" => w.recovering = w.view
  /\ w.recovering # None =>
       w.job # None /\ w.job.kind = "recover" /\ w.first = None /\ w.more = None
  /\ w.recover \/ w.pending # {} => w.job # None
  /\ w.status = "ready" /\ ~w.healthy => w.job # None /\ (w.recover \/ w.job.kind = "recover")

\* The reader: what is open is shown, and is loading as long as its read is out; a job
\* waits for the read that it has asked for.
Opens(w) ==
  /\ w.open # None => w.shown # None /\ w.shown.thread = w.open
  /\ w.detail # None => w.open # None /\ w.detail.thread = w.open /\ w.shown.load = "loading"
  /\ w.open # None /\ w.shown.load = "loading" => w.detail # None
  /\ w.detail # None /\ w.shown.source = "mailbox" => w.job # None /\ w.job.awaits

\* The list: an answer has a result, a page below is read in vain while a recovery
\* reads, and a page that is trusted is not read again.
Lists(w) ==
  /\ w.first # None /\ w.first.answered => w.first.result # None
  /\ w.more # None /\ w.more.answered => w.more.result # None
  /\ w.more # None => ~w.steady /\ w.more.view \in DOMAIN w.pages
  /\ Believes(w) => Fresh(w) /\ w.first = None

\* The effect of the list that is shown has run.
FirstRuns(w) ==
  /\ w.open = None /\ ~Fresh(w) => w.first # None \/ w.recovering = w.view
  /\ w.first # None => w.first.view = w.view

Sane(w) == w \in Tab /\ Kept(w) /\ Reconciles(w) /\ Opens(w) /\ Lists(w)

-----------------------------------------------------------------------------
(* What is still to reach the tab.                                         *)

Touches(e, t) == e = StreamReady \/ e.recover \/ t \in e.ids

Coming(t, s, n) ==
  \/ s.state # "ready"
  \/ \E i \in DOMAIN n : Touches(n[i], t)
  \/ \E i \in DOMAIN s.queue : Touches(s.queue[i], t)

\* The threads a change of which is to reach the tab by the stream s and the
\* notifications n, and whether anything is.
Due(s, n) == {t \in Threads : Coming(t, s, n)}
Some(s, n) == s.state # "ready" \/ n # <<>> \/ s.queue # <<>>

\* A job that is asked for and not begun reads t.
Planning(w, t) == w.recover \/ t \in w.pending

-----------------------------------------------------------------------------
(* The tab w agrees with the mailbox db, but for what is due.              *)

\* An opened thread is the stored one unless a change of it is due or planned; so is
\* what a read of it has found.
FoundIs(result, t, db) == result = IF db[t].gone THEN None ELSE DetailOf(db[t])

FoundAgrees(read, w, due, db) ==
  read # None /\ read.answered /\ read.thread = w.open =>
    FoundIs(read.result, w.open, db) \/ w.open \in due \/ Planning(w, w.open)

OpenAgrees(w, due, db) ==
  /\ FoundAgrees(w.detail, w, due, db) /\ FoundAgrees(w.prefetch, w, due, db)
  /\ w.open # None /\ w.shown.load = "available" =>
       /\ w.open \in DOMAIN w.details
       /\ FoundIs(w.details[w.open], w.open, db) \/ w.open \in due \/ Planning(w, w.open)

\* The counts are the stored ones unless something is coming or a job reads them.
CountsOf(db) == [v \in Views |-> Cardinality({t \in Threads : v \in db[t].views})]

CountsAgree(w, some, db) ==
  \/ w.counts = CountsOf(db) \/ some
  \/ w.job # None /\ (w.job.counts = Asked \/ w.job.failed \/ w.recover \/ w.pending # {})
  \/ w.job = None /\ w.status = "waiting"

\* A row of the page that is shown: the stored one, but for a star that is being
\* written.
StarPends(w, t) == w.star # None /\ w.star.thread = t /\ w.star.state \in {"sent", "answered"}

RowAgrees(w, t, db) ==
  /\ w.rows[t].rev = db[t].rev /\ w.rows[t].at = db[t].at
  /\ w.rows[t].star = SummaryOf(db[t]).star \/ StarPends(w, t)
  /\ w.view \in db[t].views

Patching(w, t) ==
  w.job # None /\ w.job.kind = "patch" /\ t \in w.job.ids /\ w.job.list # Finished

PageAgrees(w, due, db) ==
  Believes(w) =>
    \A t \in ToSet(w.pages[w.view].ids) :
      \/ RowAgrees(w, t, db) \/ t \in due \/ Planning(w, t) \/ Patching(w, t)
      \/ w.job # None /\ w.job.failed

\* What the read of a job has found, of every thread it was to read.
LineIs(line, t, view, db) ==
  /\ line.rev = db[t].rev /\ line.at = db[t].at /\ line.star = SummaryOf(db[t]).star
  /\ view \in db[t].views

ListAgrees(w, due, db) ==
  w.job # None /\ w.job.list \notin {Asked, Finished} =>
    LET read == w.job.list.result
    IN /\ read # None
       /\ w.job.kind = "patch" => w.job.ids \subseteq DOMAIN read.rows \cup read.missing
       /\ \A t \in DOMAIN read.rows :
            LineIs(read.rows[t], t, w.view, db) \/ t \in due \/ Planning(w, t)

Agrees(w, due, some, db) ==
  /\ OpenAgrees(w, due, db) /\ CountsAgree(w, some, db)
  /\ PageAgrees(w, due, db) /\ ListAgrees(w, due, db)

-----------------------------------------------------------------------------
(* The inductive invariant.                                                *)

\* What the API serves: no stream is told of changes without the subscription.
Mailbox == [Threads -> Row]

StreamSound ==
  /\ notices \in Seq(Event)
  /\ stream \in [state: {"connecting", "opening", "ready", "ended", "refused", "closed"},
                 queue: Seq(Event)]
  /\ listens \in BOOLEAN
  /\ ~listens => stream.state \notin {"opening", "ready"}

Bounded ==
  /\ stored \in Mailbox /\ changes \in 0..MaxChanges
  /\ faults \in 0..MaxFaults /\ acts \in 0..MaxActs

IInv ==
  /\ Bounded /\ StreamSound
  /\ Sane(tab) /\ FirstRuns(tab)
  /\ Agrees(tab, Due(stream, notices), Some(stream, notices), stored)

-----------------------------------------------------------------------------
(* The types of a tab that is another's with some of its fields changed.   *)

Shaped(r, w) == DOMAIN r = DOMAIN w /\ r = [f \in DOMAIN r |-> r[f]]

TabTyped(r) ==
  /\ r.view \in Views /\ r.open \in Threads \cup {None} /\ r.pages \in Pages
  /\ r.rows \in Lines /\ r.counts \in [Views -> Nat] /\ r.details \in Lines
  /\ r.shown \in Reader \cup {None} /\ r.recovering \in Views \cup {None}
  /\ r.first \in FirstRead \cup {None} /\ r.more \in MoreRead \cup {None}
  /\ r.detail \in ThreadRead \cup {None} /\ r.prefetch \in ThreadRead \cup {None}
  /\ r.star \in Click \cup {None} /\ r.job \in Job \cup {None} /\ r.recover \in BOOLEAN
  /\ r.pending \in SUBSET Threads /\ r.healthy \in BOOLEAN /\ r.streamReady \in BOOLEAN
  /\ r.loading \in SUBSET Views /\ r.predicted \in Prediction \cup {None}
  /\ r.errored \in BOOLEAN /\ r.status \in {"waiting", "ready"} /\ r.steady \in BOOLEAN

LEMMA TabIs ==
    ASSUME NEW w \in Tab, NEW r, Shaped(r, w), TabTyped(r)
    PROVE  r \in Tab
  <1>1. DOMAIN r = {"view", "open", "pages", "rows", "counts", "details", "shown", "recovering",
                    "first", "more", "detail", "prefetch", "star", "job", "recover", "pending",
                    "healthy", "streamReady", "errored", "status", "steady", "loading", "predicted"}
    BY DEF Shaped, Tab
  <1>. QED  BY <1>1 DEF Shaped, TabTyped, Tab
-----------------------------------------------------------------------------
(* The order of a page.                                                    *)

\* Rows that are newer than that of t.
Above(ids, rows, t) == {u \in ids : Newer(Position(u, rows[u]), Position(t, rows[t]))}
Rank(ids, rows) == [t \in ids |-> 1 + Cardinality(Above(ids, rows, t))]

LEMMA Orders ==
    ASSUME NEW ids \in SUBSET Threads, NEW rows, \A t \in ids : rows[t].at \in Nat,
           NEW t \in ids, NEW u \in ids
    PROVE  /\ t # u => \/ Newer(Position(t, rows[t]), Position(u, rows[u]))
                       \/ Newer(Position(u, rows[u]), Position(t, rows[t]))
           /\ ~Newer(Position(t, rows[t]), Position(t, rows[t]))
           /\ \A v \in ids :
                /\ Newer(Position(v, rows[v]), Position(t, rows[t]))
                /\ Newer(Position(t, rows[t]), Position(u, rows[u]))
                => Newer(Position(v, rows[v]), Position(u, rows[u]))
  <1>1. t \in Nat /\ u \in Nat /\ rows[t].at \in Nat /\ rows[u].at \in Nat
    BY ThreadsAssumption
  <1>2. \A v \in ids : v \in Nat /\ rows[v].at \in Nat  BY ThreadsAssumption
  <1>. QED  BY <1>1, <1>2 DEF Newer, Position

\* A newer row has a lower rank.
LEMMA Ranks ==
    ASSUME NEW ids \in SUBSET Threads, NEW rows, \A t \in ids : rows[t].at \in Nat
    PROVE  /\ IsFiniteSet(ids) /\ Cardinality(ids) \in Nat
           /\ Rank(ids, rows) \in Injection(ids, 1..Cardinality(ids))
           /\ \A t, u \in ids : Rank(ids, rows)[t] < Rank(ids, rows)[u] =>
                Newer(Position(t, rows[t]), Position(u, rows[u]))
  <1>. DEFINE n == Cardinality(ids)
              r == Rank(ids, rows)
              A(t) == Above(ids, rows, t)
  <1>1. IsFiniteSet(ids) /\ n \in Nat
    BY ThreadsAssumption, FS_Subset, FS_CardinalityType
  <1>2. ASSUME NEW t \in ids
        PROVE  IsFiniteSet(A(t)) /\ Cardinality(A(t)) \in Nat /\ Cardinality(A(t)) < n
    <2>1. A(t) \in SUBSET ids /\ t \notin A(t)  BY Orders DEF Above
    <2>2. IsFiniteSet(A(t)) /\ Cardinality(A(t)) <= n /\ (n = Cardinality(A(t)) => ids = A(t))
      BY <1>1, <2>1, FS_Subset
    <2>3. Cardinality(A(t)) \in Nat  BY <2>2, FS_CardinalityType
    <2>4. ids # A(t)  BY <2>1
    <2>. QED  BY <1>1, <2>2, <2>3, <2>4
  <1>3. ASSUME NEW t \in ids, NEW u \in ids, Newer(Position(t, rows[t]), Position(u, rows[u]))
        PROVE  Cardinality(A(t)) < Cardinality(A(u))
    <2>1. A(t) \in SUBSET A(u)  BY <1>3, Orders DEF Above
    <2>2. t \in A(u) /\ t \notin A(t)  BY <1>3, Orders DEF Above
    <2>3. Cardinality(A(t)) <= Cardinality(A(u)) /\ (Cardinality(A(u)) = Cardinality(A(t)) => A(u) = A(t))
      BY <1>2, <2>1, FS_Subset
    <2>4. A(u) # A(t)  BY <2>2
    <2>. QED  BY <1>2, <2>3, <2>4
  <1>4. \A t \in ids : r[t] = 1 + Cardinality(A(t))  BY DEF Rank
  <1>5. r \in [ids -> 1..n]
    <2>1. \A t \in ids : 1 + Cardinality(A(t)) \in 1..n  BY <1>1, <1>2
    <2>. QED  BY <2>1 DEF Rank
  <1>6. ASSUME NEW t \in ids, NEW u \in ids, t # u PROVE r[t] # r[u]
    <2>1. \/ Newer(Position(t, rows[t]), Position(u, rows[u]))
          \/ Newer(Position(u, rows[u]), Position(t, rows[t]))
      BY <1>6, Orders
    <2>2. Cardinality(A(t)) # Cardinality(A(u))  BY <2>1, <1>2, <1>3
    <2>. QED  BY <1>2, <1>4, <2>2
  <1>7. r \in Injection(ids, 1..n)
    <2>1. \A t, u \in DOMAIN r : r[t] = r[u] => t = u  BY <1>5, <1>6
    <2>. QED  BY <1>5, <2>1 DEF Injection, IsInjective
  <1>8. ASSUME NEW t \in ids, NEW u \in ids, r[t] < r[u]
        PROVE  Newer(Position(t, rows[t]), Position(u, rows[u]))
    <2>1. Cardinality(A(t)) < Cardinality(A(u))  BY <1>2, <1>4, <1>8
    <2>2. t # u /\ ~Newer(Position(u, rows[u]), Position(t, rows[t]))
      BY <2>1, <1>2, <1>3
    <2>. QED  BY <2>2, Orders
  <1>. QED  BY <1>1, <1>7, <1>8

\* Every one of the ids is in the order once, and nothing else.
LEMMA SortedIs ==
    ASSUME NEW ids \in SUBSET Threads, NEW rows, \A t \in ids : rows[t].at \in Nat
    PROVE  /\ Sorted(ids, rows) \in Seq(Threads)
           /\ ToSet(Sorted(ids, rows)) = ids
  <1>. DEFINE n == Cardinality(ids)
              r == Rank(ids, rows)
              P(s) == \A i, j \in DOMAIN s :
                        i < j => Newer(Position(s[i], rows[s[i]]), Position(s[j], rows[s[j]]))
              q == [i \in 1..n |-> CHOOSE t \in ids : r[t] = i]
  <1>1. IsFiniteSet(ids) /\ n \in Nat /\ r \in Injection(ids, 1..n)  BY Ranks
  <1>2. IsFiniteSet(1..n) /\ Cardinality(1..n) = n  BY <1>1, FS_Interval
  <1>3. r \in Surjection(ids, 1..n)  BY <1>1, <1>2, FS_Injection
  <1>4. \A i \in 1..n : \E t \in ids : r[t] = i  BY <1>3 DEF Surjection
  <1>5. \A i \in 1..n : q[i] \in ids /\ r[q[i]] = i  BY <1>4
  <1>6. q \in SetToSeqs(ids)
    <2>1. q \in [1..n -> ids]  BY <1>5
    <2>2. \A i, j \in 1..n : i # j => q[i] # q[j]  BY <1>5
    <2>. QED  BY <2>1, <2>2 DEF SetToSeqs
  <1>7. P(q)
    <2>1. DOMAIN q = 1..n  OBVIOUS
    <2>2. \A i, j \in 1..n : i < j => Newer(Position(q[i], rows[q[i]]), Position(q[j], rows[q[j]]))
      BY <1>5, Ranks
    <2>. QED  BY <2>1, <2>2
  <1>. DEFINE s == Sorted(ids, rows)
  <1>8. s \in SetToSeqs(ids)
    <2>1. s = CHOOSE x \in SetToSeqs(ids) : P(x)  BY DEF Sorted
    <2>. HIDE DEF s, P, q
    <2>. QED  BY <1>6, <1>7, <2>1
  <1>9. s \in [1..n -> ids] /\ \A i, j \in 1..n : i # j => s[i] # s[j]
    BY <1>8 DEF SetToSeqs
  <1>10. s \in Injection(1..n, ids)
    <2>. HIDE DEF s
    <2>. QED  BY <1>9 DEF Injection, IsInjective
  <1>11. s \in Surjection(1..n, ids)
    <2>. HIDE DEF s
    <2>. QED  BY <1>1, <1>2, <1>10, FS_Injection
  <1>12. ToSet(s) = ids
    <2>. HIDE DEF s
    <2>1. DOMAIN s = 1..n  BY <1>9
    <2>2. \A t \in ids : \E i \in 1..n : s[i] = t  BY <1>11 DEF Surjection
    <2>. QED  BY <1>9, <2>1, <2>2 DEF ToSet
  <1>13. s \in Seq(Threads)
    <2>. HIDE DEF s
    <2>1. s \in Seq(ids)  BY <1>1, <1>9
    <2>. QED  BY <2>1
  <1>. QED  BY <1>12, <1>13

-----------------------------------------------------------------------------
(* Partial functions.                                                      *)

Partial(S, T) == UNION {[d -> T] : d \in SUBSET S}

LEMMA AllPartial ==
    /\ Lines = Partial(Threads, Line) /\ Pages = Partial(Views, Page)
BY DEF Lines, Pages, Partial

LEMMA PartialIs ==
    ASSUME NEW S, NEW T, NEW f
    PROVE  f \in Partial(S, T) <=> DOMAIN f \subseteq S /\ f \in [DOMAIN f -> T]
  <1>1. ASSUME NEW d \in SUBSET S, f \in [d -> T]
        PROVE  DOMAIN f \subseteq S /\ f \in [DOMAIN f -> T]
    <2>1. DOMAIN f = d  BY <1>1
    <2>. QED  BY <1>1, <2>1
  <1>2. ASSUME DOMAIN f \subseteq S, f \in [DOMAIN f -> T]
        PROVE  \E d \in SUBSET S : f \in [d -> T]
    BY <1>2
  <1>. QED  BY <1>1, <1>2 DEF Partial

LEMMA OverlayIs ==
    ASSUME NEW f, NEW g
    PROVE  /\ DOMAIN Overlay(f, g) = DOMAIN f \cup DOMAIN g
           /\ \A t \in DOMAIN g : Overlay(f, g)[t] = g[t]
           /\ \A t \in DOMAIN f : t \notin DOMAIN g => Overlay(f, g)[t] = f[t]
BY DEF Overlay

LEMMA OverlayTyped ==
    ASSUME NEW S, NEW T, NEW f \in Partial(S, T), NEW g \in Partial(S, T)
    PROVE  Overlay(f, g) \in Partial(S, T)
  <1>1. DOMAIN f \subseteq S /\ f \in [DOMAIN f -> T] /\ DOMAIN g \subseteq S /\ g \in [DOMAIN g -> T]
    BY PartialIs
  <1>2. Overlay(f, g) \in [DOMAIN f \cup DOMAIN g -> T]  BY <1>1 DEF Overlay
  <1>. QED  BY <1>1, <1>2, OverlayIs, PartialIs

LEMMA OnlyIs ==
    ASSUME NEW f, NEW ids
    PROVE  /\ DOMAIN Only(f, ids) = DOMAIN f \cap ids
           /\ \A t \in DOMAIN f \cap ids : Only(f, ids)[t] = f[t]
BY DEF Only

LEMMA OnlyTyped ==
    ASSUME NEW S, NEW T, NEW f \in Partial(S, T), NEW ids
    PROVE  Only(f, ids) \in Partial(S, T)
  <1>1. DOMAIN f \subseteq S /\ f \in [DOMAIN f -> T]  BY PartialIs
  <1>2. Only(f, ids) \in [DOMAIN f \cap ids -> T]  BY <1>1 DEF Only
  <1>. QED  BY <1>1, <1>2, OnlyIs, PartialIs

\* The rows, the pages and the versions of a tab.
LEMMA LinesAre ==
    ASSUME NEW f \in Lines
    PROVE  DOMAIN f \in SUBSET Threads /\ \A t \in DOMAIN f : f[t] \in Line /\ f[t].at \in Nat
  <1>1. DOMAIN f \subseteq Threads /\ f \in [DOMAIN f -> Line]
    BY PartialIs, AllPartial
  <1>2. \A t \in DOMAIN f : f[t] \in Line  BY <1>1
  <1>3. \A x \in Line : x.at \in Nat  BY BoundsAssumption DEF Line
  <1>. QED  BY <1>1, <1>2, <1>3

LEMMA PagesAre ==
    ASSUME NEW f \in Pages
    PROVE  /\ DOMAIN f \in SUBSET Views
           /\ \A v \in DOMAIN f : /\ f[v] \in Page /\ ToSet(f[v].ids) \in SUBSET Threads
                                  /\ f[v].stale \in BOOLEAN
  <1>1. DOMAIN f \subseteq Views /\ f \in [DOMAIN f -> Page]
    BY PartialIs, AllPartial
  <1>2. \A v \in DOMAIN f : f[v] \in Page  BY <1>1
  <1>3. \A p \in Page : p.ids \in Seq(Threads) /\ p.stale \in BOOLEAN
    BY DEF Page
  <1>4. \A s \in Seq(Threads) : ToSet(s) \in SUBSET Threads  BY DEF ToSet
  <1>. QED  BY <1>1, <1>2, <1>3, <1>4

\* One page is written.
LEMMA PageWritten ==
    ASSUME NEW f \in Pages, NEW v \in Views, NEW p \in Page, NEW g \in [{v} -> {p}]
    PROVE  /\ Overlay(f, g) \in Pages /\ DOMAIN Overlay(f, g) = DOMAIN f \cup {v}
           /\ Overlay(f, g)[v] = p
           /\ \A x \in DOMAIN f \ {v} : Overlay(f, g)[x] = f[x]
  <1>1. DOMAIN g = {v} /\ g \in [{v} -> Page] /\ g[v] = p  OBVIOUS
  <1>2. g \in Partial(Views, Page)  BY <1>1, PartialIs
  <1>3. f \in Partial(Views, Page)  BY AllPartial
  <1>4. Overlay(f, g) \in Partial(Views, Page)  BY <1>2, <1>3, OverlayTyped
  <1>5. Overlay(f, g) \in Pages  BY <1>4, AllPartial
  <1>6. /\ DOMAIN Overlay(f, g) = DOMAIN f \cup DOMAIN g
        /\ \A x \in DOMAIN g : Overlay(f, g)[x] = g[x]
        /\ \A x \in DOMAIN f : x \notin DOMAIN g => Overlay(f, g)[x] = f[x]
    BY OverlayIs
  <1>. QED  BY <1>1, <1>5, <1>6

LEMMA LinesOverlaid ==
    ASSUME NEW f \in Lines, NEW g \in Lines
    PROVE  /\ Overlay(f, g) \in Lines /\ DOMAIN Overlay(f, g) = DOMAIN f \cup DOMAIN g
           /\ \A t \in DOMAIN g : Overlay(f, g)[t] = g[t]
           /\ \A t \in DOMAIN f : t \notin DOMAIN g => Overlay(f, g)[t] = f[t]
  <1>1. Overlay(f, g) \in Lines  BY OverlayTyped, AllPartial
  <1>. QED  BY <1>1, OverlayIs, Zenon

LEMMA LinesOnly ==
    ASSUME NEW f \in Lines, NEW ids
    PROVE  Only(f, ids) \in Lines
BY OnlyTyped, AllPartial

\* A version that is written to the cache: g maps t alone, to rev.
Version(g, t, rev) == g \in [{t} -> {rev}] /\ rev \in Line

LEMMA VersionWritten ==
    ASSUME NEW f \in Lines, NEW t \in Threads, NEW rev, NEW g, Version(g, t, rev)
    PROVE  Overlay(f, g) \in Lines
  <1>1. DOMAIN g = {t} /\ g \in [{t} -> Line]  BY DEF Version
  <1>2. g \in Partial(Threads, Line)  BY <1>1, PartialIs
  <1>3. f \in Partial(Threads, Line)  BY AllPartial
  <1>4. Overlay(f, g) \in Partial(Threads, Line)
    BY <1>2, <1>3, OverlayTyped
  <1>. QED  BY <1>4, AllPartial

-----------------------------------------------------------------------------
(* Pages.                                                                  *)

LEMMA ReadIs ==
    ASSUME NEW read \in ListRead
    PROVE  read.rows \in Lines /\ read.missing \in SUBSET Threads /\ read.older \in Cursor
BY DEF ListRead

LEMMA HydratedIs ==
    ASSUME NEW read \in ListRead, NEW rows \in Lines, DOMAIN read.rows \subseteq DOMAIN rows
    PROVE  /\ HydratedPage(read, rows) \in Page
           /\ ToSet(HydratedPage(read, rows).ids) = DOMAIN read.rows
           /\ ~HydratedPage(read, rows).stale
  <1>1. DOMAIN read.rows \in SUBSET Threads /\ \A t \in DOMAIN read.rows : rows[t].at \in Nat
    BY ReadIs, LinesAre
  <1>2. /\ Sorted(DOMAIN read.rows, rows) \in Seq(Threads)
        /\ ToSet(Sorted(DOMAIN read.rows, rows)) = DOMAIN read.rows
    BY <1>1, SortedIs
  <1>. QED  BY <1>2, ReadIs DEF HydratedPage, Page

LEMMA PatchedIs ==
    ASSUME NEW page \in Page, NEW read \in ListRead, NEW rows \in Lines,
           DOMAIN read.rows \subseteq DOMAIN rows, ToSet(page.ids) \subseteq DOMAIN rows
    PROVE  /\ PatchedPage(page, read, rows) \in Page
           /\ ToSet(PatchedPage(page, read, rows).ids)
                \subseteq (ToSet(page.ids) \ read.missing) \cup DOMAIN read.rows
           /\ PatchedPage(page, read, rows).stale = page.stale
  <1>. DEFINE kept == ToSet(page.ids) \ read.missing
              ids == kept \cup {t \in DOMAIN read.rows \ kept : Covers(page, rows, t)}
  <1>1. DOMAIN rows \in SUBSET Threads /\ \A t \in DOMAIN rows : rows[t].at \in Nat
    BY LinesAre
  <1>2. ids \in SUBSET Threads /\ \A t \in ids : rows[t].at \in Nat  BY <1>1
  <1>3. Sorted(ids, rows) \in Seq(Threads) /\ ToSet(Sorted(ids, rows)) = ids
    BY <1>2, SortedIs
  <1>4. PatchedPage(page, read, rows) = [page EXCEPT !.ids = Sorted(ids, rows)]
    BY DEF PatchedPage
  <1>5. ids \subseteq kept \cup DOMAIN read.rows  OBVIOUS
  <1>. HIDE DEF ids
  <1>. QED  BY <1>3, <1>4, <1>5 DEF Page

LEMMA TouchedIs ==
    ASSUME NEW page \in Page, NEW read \in ListRead, NEW rows \in Lines,
           ToSet(page.ids) \subseteq DOMAIN rows
    PROVE  /\ TouchedPage(page, read, rows) \in Page
           /\ ToSet(TouchedPage(page, read, rows).ids) = ToSet(page.ids)
  <1>1. ToSet(page.ids) \in SUBSET Threads /\ \A t \in ToSet(page.ids) : rows[t].at \in Nat
    BY LinesAre
  <1>2. /\ Sorted(ToSet(page.ids), rows) \in Seq(Threads)
        /\ ToSet(Sorted(ToSet(page.ids), rows)) = ToSet(page.ids)
    BY <1>1, SortedIs
  <1>. QED  BY <1>2 DEF TouchedPage, Page

-----------------------------------------------------------------------------
(* Values of the tab.                                                      *)

LEMMA Nothing ==
    /\ None \notin Views /\ None \notin Threads /\ None \notin Line /\ None \notin Prediction
    /\ None \notin ListRead /\ None \notin ThreadRead /\ None \notin FirstRead
    /\ None \notin MoreRead /\ None \notin Job /\ None \notin Reader /\ None \notin Click
  <1>1. None \notin Nat  BY NoneAssumption
  <1>2. None \notin Threads  BY <1>1, ThreadsAssumption
  <1>. QED  BY <1>2, NoneAssumption

LEMMA ReadsAre ==
    /\ \A t \in Threads : AskedThread(t) \in ThreadRead /\ ~AskedThread(t).answered
                          /\ AskedThread(t).thread = t
    /\ \A v \in Views : AskedFirst(v) \in FirstRead /\ ~AskedFirst(v).answered
                        /\ AskedFirst(v).view = v
    /\ \A t \in Threads, s \in {"mailbox", "reader"} :
         [thread |-> t, source |-> s, load |-> "loading"] \in Reader
BY DEF AskedThread, ThreadRead, AskedFirst, FirstRead, Reader

LEMMA AskedIs ==
    /\ Asked \in [answered: BOOLEAN, result: ListRead \cup {None}]
    /\ Finished \in [answered: BOOLEAN, result: ListRead \cup {None}]
    /\ Asked # Finished
BY DEF Asked, Finished

-----------------------------------------------------------------------------
(* The read of a thread.                                                   *)

LEMMA ReadDetailIs ==
    ASSUME NEW w \in Tab, NEW t \in Threads, NEW source \in {"mailbox", "reader"}
    PROVE  /\ ReadDetail(w, t, source) \in Tab
           /\ ReadDetail(w, t, source) =
                [w EXCEPT !.shown = [thread |-> t, source |-> source, load |-> "loading"],
                          !.detail = AskedThread(t), !.prefetch = None]
  <1>1. \A x \in Reader, y \in ThreadRead :
          [w EXCEPT !.shown = x, !.detail = y, !.prefetch = None] \in Tab
    BY ZenonT(60) DEF Tab
  <1>. QED  BY <1>1, ReadsAre DEF ReadDetail

-----------------------------------------------------------------------------
(* A recovery.                                                             *)

Cleared(w) ==
  [w EXCEPT !.pages = [v \in DOMAIN @ |-> [@[v] EXCEPT !.stale = TRUE]], !.loading = {},
            !.details = Only(@, {w.open}),
            !.shown = None, !.recovering = w.view,
            !.first = None, !.more = None, !.detail = None, !.prefetch = None,
            !.recover = FALSE, !.pending = {},
            !.job = [kind |-> "recover", view |-> w.view, ids |-> {}, list |-> Asked,
                     counts |-> Asked, awaits |-> w.open # None, failed |-> FALSE]]

LEMMA StaleIs ==
    ASSUME NEW f \in Pages
    PROVE  /\ [v \in DOMAIN f |-> [f[v] EXCEPT !.stale = TRUE]] \in Pages
           /\ \A v \in DOMAIN f : [f[v] EXCEPT !.stale = TRUE].ids = f[v].ids
  <1>. DEFINE g == [v \in DOMAIN f |-> [f[v] EXCEPT !.stale = TRUE]]
  <1>1. DOMAIN f \in SUBSET Views /\ \A v \in DOMAIN f : f[v] \in Page
    BY PagesAre
  <1>2. \A p \in Page : [p EXCEPT !.stale = TRUE] \in Page /\ [p EXCEPT !.stale = TRUE].ids = p.ids
    BY DEF Page
  <1>3. g \in [DOMAIN f -> Page] /\ DOMAIN g = DOMAIN f  BY <1>1, <1>2
  <1>. HIDE DEF g
  <1>4. g \in Partial(Views, Page)  BY <1>1, <1>3, PartialIs
  <1>5. g \in Pages  BY <1>4, AllPartial
  <1>. QED  BY <1>1, <1>2, <1>5 DEF g

LEMMA JobIs ==
    ASSUME NEW kind \in {"recover", "patch"}, NEW view \in Views, NEW ids \in SUBSET Threads,
           NEW awaits \in BOOLEAN
    PROVE  [kind |-> kind, view |-> view, ids |-> ids, list |-> Asked, counts |-> Asked,
            awaits |-> awaits, failed |-> FALSE] \in Job
BY AskedIs DEF Job

LEMMA ClearedIs ==
    ASSUME NEW w \in Tab, Kept(w)
    PROVE  /\ Cleared(w) \in Tab /\ Kept(Cleared(w))
           /\ Cleared(w).job \in Job
  <1>. DEFINE f == [v \in DOMAIN w.pages |-> [w.pages[v] EXCEPT !.stale = TRUE]]
              d == Only(w.details, {w.open})
              j == [kind |-> "recover", view |-> w.view, ids |-> {}, list |-> Asked,
                    counts |-> Asked, awaits |-> w.open # None, failed |-> FALSE]
  <1>1. w.pages \in Pages /\ w.details \in Lines /\ w.view \in Views
    BY DEF Tab
  <1>2. f \in Pages /\ DOMAIN f = DOMAIN w.pages /\ \A v \in DOMAIN w.pages : f[v].ids = w.pages[v].ids
    BY <1>1, StaleIs
  <1>3. d \in Lines /\ j \in Job  BY <1>1, LinesOnly, JobIs
  <1>4. Cleared(w) = [w EXCEPT !.pages = f, !.loading = {}, !.details = d, !.shown = None, !.recovering = w.view,
                               !.first = None, !.more = None, !.detail = None, !.prefetch = None,
                               !.recover = FALSE, !.pending = {}, !.job = j]
    BY DEF Cleared, Tab
  <1>. HIDE DEF f, d, j
  <1>5. Cleared(w) \in Tab
    <2>1. Shaped(Cleared(w), w)  BY <1>1, <1>2, <1>3, <1>4 DEF Shaped
    <2>2. TabTyped(Cleared(w))  BY <1>1, <1>2, <1>3, <1>4 DEF Tab, TabTyped
    <2>. QED  BY <1>1, <1>2, <1>3, <1>4, <2>1, <2>2, TabIs
  <1>6. Kept(Cleared(w))  BY <1>2, <1>4 DEF Kept, Tab
  <1>7. Cleared(w).job = j  BY <1>4 DEF Tab
  <1>. QED  BY <1>3, <1>5, <1>6, <1>7

LEMMA RecoveryIs ==
    ASSUME NEW w \in Tab, Kept(w)
    PROVE  /\ StartRecovery(w) \in Tab /\ Kept(StartRecovery(w))
           /\ w.open = None => StartRecovery(w) = Cleared(w)
           /\ w.open # None =>
                /\ w.open \in Threads
                /\ StartRecovery(w) =
                     [Cleared(w) EXCEPT
                        !.shown = [thread |-> w.open, source |-> "mailbox", load |-> "loading"],
                        !.detail = AskedThread(w.open), !.prefetch = None]
  <1>. DEFINE c == Cleared(w)
  <1>1. c \in Tab /\ Kept(c)  BY ClearedIs
  <1>2. StartRecovery(w) = IF w.open = None THEN c ELSE ReadDetail(c, w.open, "mailbox")
    BY DEF StartRecovery, Cleared
  <1>3. w.open \in Threads \cup {None}  BY DEF Tab
  <1>. HIDE DEF c
  <1>4. CASE w.open = None  BY <1>1, <1>2, <1>4 DEF c
  <1>5. CASE w.open # None
    <2>. DEFINE r == [c EXCEPT !.shown = [thread |-> w.open, source |-> "mailbox", load |-> "loading"],
                               !.detail = AskedThread(w.open), !.prefetch = None]
    <2>1. w.open \in Threads  BY <1>3, <1>5
    <2>2. ReadDetail(c, w.open, "mailbox") = r /\ r \in Tab
      BY <1>1, <2>1, ReadDetailIs, Zenon
    <2>3. r.pages = c.pages /\ r.rows = c.rows  BY <1>1 DEF Tab
    <2>4. Kept(r)  BY <1>1, <2>3 DEF Kept
    <2>. QED  BY <1>2, <1>5, <2>1, <2>2, <2>4 DEF c
  <1>. QED  BY <1>4, <1>5

\* A recovery that begins leaves nothing to be told.
LEMMA RecoveryKeeps ==
    ASSUME NEW w \in Tab, Kept(w), NEW due, NEW some, NEW db
    PROVE  /\ Sane(StartRecovery(w)) /\ Agrees(StartRecovery(w), due, some, db)
           /\ StartRecovery(w).view = w.view
           /\ StartRecovery(w).first = None /\ StartRecovery(w).recovering = w.view
  <1>. DEFINE r == StartRecovery(w)
              j == [kind |-> "recover", view |-> w.view, ids |-> {}, list |-> Asked,
                    counts |-> Asked, awaits |-> w.open # None, failed |-> FALSE]
  <1>1. r \in Tab /\ Kept(r)  BY RecoveryIs
  <1>2. w.view \in Views /\ w.open \in Threads \cup {None}  BY DEF Tab
  <1>3. j \in Job /\ j # None  BY <1>2, Nothing, JobIs
  <1>. DEFINE c == Cleared(w)
  <1>4. /\ c.view = w.view /\ c.open = w.open /\ c.recovering = w.view /\ c.first = None
         /\ c.more = None /\ c.prefetch = None /\ ~c.recover /\ c.pending = {} /\ c.job = j
         /\ c.shown = None /\ c.detail = None
    BY DEF Cleared, Tab
  <1>5. c \in Tab  BY ClearedIs
  <1>6. j.kind = "recover" /\ j.view = w.view /\ j.list = Asked /\ j.counts = Asked
        /\ (w.open # None => j.awaits)
    OBVIOUS
  <1>. DEFINE a == AskedThread(w.open)
              s == [thread |-> w.open, source |-> "mailbox", load |-> "loading"]
  <1>7. w.open # None => a # None /\ a.thread = w.open /\ ~a.answered /\ s # None
    BY <1>2, ReadsAre, Nothing
  <1>8. s.thread = w.open /\ s.source = "mailbox" /\ s.load = "loading"  OBVIOUS
  <1>9. w.open # None => r = [c EXCEPT !.shown = s, !.detail = a, !.prefetch = None]
    BY RecoveryIs
  <1>10. w.open = None => r = c  BY RecoveryIs
  <1>. HIDE DEF r, j, c, a, s
  <1>11. /\ r.view = w.view /\ r.open = w.open /\ r.recovering = w.view /\ r.first = None
         /\ r.more = None /\ r.prefetch = None /\ ~r.recover /\ r.pending = {} /\ r.job = j
    BY <1>9, <1>4, <1>5, <1>10, ZenonT(60) DEF Tab
  <1>12. (w.open = None /\ r.shown = None /\ r.detail = None)
         \/ (w.open # None /\ r.shown = s /\ r.detail = a)
    BY <1>9, <1>4, <1>5, <1>10 DEF Tab
  <1>13. ~Believes(r)  BY <1>3, <1>6, <1>11, AskedIs DEF Believes
  <1>14. Reconciles(r)  BY <1>2, <1>3, <1>6, <1>11, Nothing DEF Reconciles
  <1>15. Opens(r)  BY <1>3, <1>6, <1>7, <1>8, <1>11, <1>12 DEF Opens
  <1>16. Lists(r)  BY <1>13, <1>11 DEF Lists
  <1>17. OpenAgrees(r, due, db)
    BY <1>7, <1>8, <1>11, <1>12 DEF OpenAgrees, FoundAgrees
  <1>18. CountsAgree(r, some, db) /\ PageAgrees(r, due, db) /\ ListAgrees(r, due, db)
    BY <1>3, <1>6, <1>13, <1>11 DEF CountsAgree, PageAgrees, ListAgrees
  <1>. QED  BY <1>1, <1>14, <1>15, <1>16, <1>17, <1>18, <1>11 DEF Sane, Agrees, r

-----------------------------------------------------------------------------
(* What is done when a job is over.                                        *)

\* A tab whose reconciler has nothing under way, whatever job it still holds.
Rests(w) ==
  /\ w.recovering = None
  /\ w.status = "ready" => w.healthy
  /\ w.open # None => w.shown # None /\ w.shown.thread = w.open
  /\ w.detail # None => /\ w.open # None /\ w.detail.thread = w.open
                        /\ w.shown.load = "loading" /\ w.shown.source # "mailbox"
  /\ w.open # None /\ w.shown.load = "loading" => w.detail # None
  /\ w.first # None /\ w.first.answered => w.first.result # None
  /\ w.more # None /\ w.more.answered => w.more.result # None
  /\ w.more # None => ~w.steady /\ w.more.view \in DOMAIN w.pages
  /\ w.steady /\ w.healthy => Fresh(w) /\ w.first = None

RestAgrees(w, due, some, db) ==
  /\ OpenAgrees(w, due, db)
  /\ w.counts = CountsOf(db) \/ some \/ w.pending # {} \/ w.status = "waiting"
  /\ w.steady /\ w.healthy =>
       \A t \in ToSet(w.pages[w.view].ids) :
         RowAgrees(w, t, db) \/ t \in due \/ Planning(w, t)

LEMMA IdleKeeps ==
    ASSUME NEW w \in Tab, Kept(w), NEW due, NEW some, NEW db,
           ~w.recover, w.pending = {}, Rests(w), RestAgrees(w, due, some, db)
    PROVE  /\ Sane([w EXCEPT !.job = None]) /\ Agrees([w EXCEPT !.job = None], due, some, db)
           /\ [w EXCEPT !.job = None].view = w.view
           /\ [w EXCEPT !.job = None].first = w.first
           /\ [w EXCEPT !.job = None].recovering = None
  <1>. DEFINE r == [w EXCEPT !.job = None]
  <1>1. r \in Tab  BY DEF Tab
  <1>2. /\ r.view = w.view /\ r.open = w.open /\ r.recovering = w.recovering /\ r.first = w.first
        /\ r.more = w.more /\ r.prefetch = w.prefetch /\ r.recover = w.recover
        /\ r.pending = w.pending /\ r.shown = w.shown /\ r.detail = w.detail /\ r.rows = w.rows
        /\ r.pages = w.pages /\ r.details = w.details /\ r.counts = w.counts /\ r.star = w.star
        /\ r.healthy = w.healthy /\ r.status = w.status /\ r.steady = w.steady
        /\ r.job = None
    BY DEF Tab
  <1>3. w.status \in {"waiting", "ready"}  BY DEF Tab
  <1>. HIDE DEF r
  <1>4. Kept(r)  BY <1>2 DEF Kept
  <1>5. Fresh(r) <=> Fresh(w)  BY <1>2 DEF Fresh
  <1>6. Believes(r) <=> w.steady /\ w.healthy  BY <1>2 DEF Believes
  <1>7. Reconciles(r)  BY <1>2, <1>3 DEF Rests, Reconciles
  <1>8. Opens(r)  BY <1>2 DEF Rests, Opens
  <1>9. Lists(r)  BY <1>2, <1>5, <1>6 DEF Rests, Lists
  <1>10. \A t : Planning(r, t) <=> Planning(w, t)  BY <1>2 DEF Planning
  <1>11. OpenAgrees(r, due, db)
    BY <1>2, <1>10 DEF RestAgrees, OpenAgrees, FoundAgrees
  <1>12. CountsAgree(r, some, db)  BY <1>2, <1>3 DEF RestAgrees, CountsAgree
  <1>13. \A t : RowAgrees(r, t, db) <=> RowAgrees(w, t, db)
    BY <1>2 DEF RowAgrees, StarPends
  <1>14. PageAgrees(r, due, db)
    BY <1>2, <1>6, <1>10, <1>13 DEF RestAgrees, PageAgrees
  <1>15. ListAgrees(r, due, db)  BY <1>2 DEF ListAgrees
  <1>. QED
    BY <1>1, <1>2, <1>4, <1>7, <1>8, <1>9, <1>11, <1>12, <1>14, <1>15 DEF Sane, Agrees, Rests, r

\* A patch that begins: the threads that were pending are read.
PatchBegun(w) ==
  [w EXCEPT !.details = Only(@, Threads \ (w.pending \ {w.open})), !.pending = {},
            !.job = [kind |-> "patch", view |-> w.view, ids |-> w.pending, list |-> Asked,
                     counts |-> Asked, awaits |-> w.open \in w.pending, failed |-> FALSE]]

LEMMA PatchIs ==
    ASSUME NEW w \in Tab
    PROVE  /\ PatchBegun(w) \in Tab
           /\ w.open \in w.pending =>
                /\ w.open \in Threads
                /\ StartPatch(w) =
                     [PatchBegun(w) EXCEPT
                        !.shown = [thread |-> w.open, source |-> "mailbox", load |-> "loading"],
                        !.detail = AskedThread(w.open), !.prefetch = None]
                /\ StartPatch(w) \in Tab
           /\ w.open \notin w.pending => StartPatch(w) = PatchBegun(w)
  <1>. DEFINE c == PatchBegun(w)
              d == Only(w.details, Threads \ (w.pending \ {w.open}))
              j == [kind |-> "patch", view |-> w.view, ids |-> w.pending, list |-> Asked,
                    counts |-> Asked, awaits |-> w.open \in w.pending, failed |-> FALSE]
  <1>1. w.details \in Lines /\ w.view \in Views /\ w.pending \in SUBSET Threads
    BY DEF Tab
  <1>2. d \in Lines /\ j \in Job
    <2>1. d \in Lines  BY <1>1, LinesOnly
    <2>2. (w.open \in w.pending) \in BOOLEAN  OBVIOUS
    <2>3. j \in Job  BY <1>1, <2>2, JobIs
    <2>. QED  BY <2>1, <2>3
  <1>3. c = [w EXCEPT !.details = d, !.pending = {}, !.job = j]
    BY DEF PatchBegun, Tab
  <1>4. c \in Tab
    <2>. HIDE DEF c, d, j
    <2>1. /\ c.view = w.view /\ c.open = w.open /\ c.recovering = w.recovering
          /\ c.first = w.first /\ c.more = w.more /\ c.prefetch = w.prefetch
          /\ c.recover = w.recover /\ c.pending = {} /\ c.shown = w.shown
          /\ c.detail = w.detail /\ c.rows = w.rows /\ c.pages = w.pages /\ c.details = d
          /\ c.counts = w.counts /\ c.star = w.star /\ c.healthy = w.healthy
          /\ c.streamReady = w.streamReady /\ c.errored = w.errored
          /\ c.status = w.status /\ c.steady = w.steady /\ c.job = j
          /\ c.loading = w.loading /\ c.predicted = w.predicted
      BY <1>3 DEF Tab
    <2>2. TabTyped(w)  BY DEF Tab, TabTyped
    <2>3. TabTyped(c)  BY <1>1, <1>2, <2>1, <2>2 DEF TabTyped
    <2>4. Shaped(c, w)  BY <1>3 DEF Shaped, Tab
    <2>. QED  BY <2>3, <2>4, TabIs
  <1>5. StartPatch(w) = IF w.open \in w.pending THEN ReadDetail(c, w.open, "mailbox") ELSE c
    BY DEF StartPatch, PatchBegun
  <1>6. c.open = w.open
    <2>. HIDE DEF c, d, j
    <2>. QED  BY <1>3 DEF Tab
  <1>. HIDE DEF c, d, j
  <1>7. ASSUME w.open \in w.pending
        PROVE  /\ w.open \in Threads
               /\ StartPatch(w) =
                    [c EXCEPT
                       !.shown = [thread |-> w.open, source |-> "mailbox", load |-> "loading"],
                       !.detail = AskedThread(w.open), !.prefetch = None]
               /\ StartPatch(w) \in Tab
    <2>1. w.open \in Threads  BY <1>1, <1>7
    <2>2. ReadDetail(c, w.open, "mailbox") \in Tab  BY <1>4, <2>1, ReadDetailIs
    <2>3. ReadDetail(c, w.open, "mailbox") =
            [c EXCEPT
               !.shown = [thread |-> w.open, source |-> "mailbox", load |-> "loading"],
               !.detail = AskedThread(w.open), !.prefetch = None]
      BY <1>4, <2>1, ReadDetailIs
    <2>. QED  BY <1>5, <1>7, <2>1, <2>2, <2>3
  <1>. QED  BY <1>4, <1>5, <1>7 DEF c

LEMMA PatchKeeps ==
    ASSUME NEW w \in Tab, Kept(w), NEW due, NEW some, NEW db,
           ~w.recover, Rests(w), RestAgrees(w, due, some, db)
    PROVE  /\ Sane(StartPatch(w)) /\ Agrees(StartPatch(w), due, some, db)
           /\ StartPatch(w).view = w.view /\ StartPatch(w).first = w.first
           /\ StartPatch(w).recovering = None
  <1>. DEFINE r == StartPatch(w)
              c == PatchBegun(w)
              d == Only(w.details, Threads \ (w.pending \ {w.open}))
              j == [kind |-> "patch", view |-> w.view, ids |-> w.pending, list |-> Asked,
                    counts |-> Asked, awaits |-> w.open \in w.pending, failed |-> FALSE]
              a == AskedThread(w.open)
              s == [thread |-> w.open, source |-> "mailbox", load |-> "loading"]
  <1>1. /\ w.view \in Views /\ w.open \in Threads \cup {None} /\ w.pending \in SUBSET Threads
        /\ w.status \in {"waiting", "ready"} /\ w.details \in Lines
    BY DEF Tab
  <1>2. j \in Job /\ j # None
    <2>1. (w.open \in w.pending) \in BOOLEAN  OBVIOUS
    <2>2. j \in Job  BY <1>1, <2>1, JobIs
    <2>. QED  BY <2>2, Nothing
  <1>3. /\ j.kind = "patch" /\ j.view = w.view /\ j.list = Asked /\ j.counts = Asked
        /\ j.ids = w.pending /\ (j.awaits <=> w.open \in w.pending) /\ ~j.failed
    OBVIOUS
  <1>4. w.open \in w.pending =>
          /\ w.open # None /\ a # None /\ a.thread = w.open /\ ~a.answered /\ s # None
    BY <1>1, ReadsAre, Nothing
  <1>5. s.thread = w.open /\ s.source = "mailbox" /\ s.load = "loading"  OBVIOUS
  <1>6. c \in Tab  BY PatchIs
  <1>7. c = [w EXCEPT !.details = d, !.pending = {}, !.job = j]
    BY DEF PatchBegun, Tab
  <1>8. w.open \in w.pending => r = [c EXCEPT !.shown = s, !.detail = a, !.prefetch = None]
    BY PatchIs
  <1>9. w.open \notin w.pending => r = c  BY PatchIs
  <1>10. \A t : t \in DOMAIN w.details /\ (t = w.open \/ t \notin w.pending) =>
           t \in DOMAIN d /\ d[t] = w.details[t]
    <2>1. DOMAIN w.details \subseteq Threads  BY <1>1, PartialIs, AllPartial
    <2>2. /\ DOMAIN d = DOMAIN w.details \cap (Threads \ (w.pending \ {w.open}))
          /\ \A t \in DOMAIN w.details \cap (Threads \ (w.pending \ {w.open})) : d[t] = w.details[t]
      BY OnlyIs
    <2>. HIDE DEF d
    <2>. QED  BY <2>1, <2>2
  <1>11. r \in Tab  BY PatchIs
  <1>. HIDE DEF r, c, d, j, a, s
  <1>12. /\ c.view = w.view /\ c.open = w.open /\ c.recovering = w.recovering
         /\ c.first = w.first /\ c.more = w.more /\ c.prefetch = w.prefetch
         /\ c.recover = w.recover /\ c.pending = {} /\ c.shown = w.shown
         /\ c.detail = w.detail /\ c.rows = w.rows /\ c.pages = w.pages /\ c.details = d
         /\ c.counts = w.counts /\ c.star = w.star /\ c.healthy = w.healthy
         /\ c.status = w.status /\ c.steady = w.steady /\ c.job = j
    BY <1>7 DEF Tab
  <1>13. /\ r.view = c.view /\ r.open = c.open /\ r.recovering = c.recovering
         /\ r.first = c.first /\ r.more = c.more /\ r.recover = c.recover
         /\ r.pending = c.pending /\ r.rows = c.rows /\ r.pages = c.pages
         /\ r.details = c.details /\ r.counts = c.counts /\ r.star = c.star
         /\ r.healthy = c.healthy /\ r.status = c.status /\ r.steady = c.steady
         /\ r.job = c.job
    <2>1. CASE w.open \in w.pending
      <3>1. r = [c EXCEPT !.shown = s, !.detail = a, !.prefetch = None]
        BY <1>8, <2>1
      <3>. QED  BY <1>6, <3>1 DEF Tab
    <2>2. CASE w.open \notin w.pending  BY <1>9, <2>2
    <2>. QED  BY <2>1, <2>2
  <1>14. \/ w.open \in w.pending /\ r.shown = s /\ r.detail = a /\ r.prefetch = None
         \/ /\ w.open \notin w.pending /\ r.shown = w.shown /\ r.detail = w.detail
            /\ r.prefetch = w.prefetch
    <2>1. CASE w.open \in w.pending
      <3>1. r = [c EXCEPT !.shown = s, !.detail = a, !.prefetch = None]
        BY <1>8, <2>1
      <3>2. r.shown = s /\ r.detail = a /\ r.prefetch = None
        BY <1>6, <3>1 DEF Tab
      <3>. QED  BY <2>1, <3>2
    <2>2. CASE w.open \notin w.pending  BY <1>9, <1>12, <2>2
    <2>. QED  BY <2>1, <2>2
  <1>15. /\ r.view = w.view /\ r.open = w.open /\ r.recovering = w.recovering
         /\ r.first = w.first /\ r.more = w.more /\ r.recover = w.recover /\ r.pending = {}
         /\ r.rows = w.rows /\ r.pages = w.pages /\ r.details = d /\ r.counts = w.counts
         /\ r.star = w.star /\ r.healthy = w.healthy /\ r.status = w.status
         /\ r.steady = w.steady /\ r.job = j
    BY <1>12, <1>13
  <1>16. Kept(r)  BY <1>15 DEF Kept
  <1>17. Fresh(r) <=> Fresh(w)  BY <1>15 DEF Fresh
  <1>18. Believes(r) <=> w.steady /\ w.healthy  BY <1>3, <1>15 DEF Believes
  <1>19. Reconciles(r)  BY <1>2, <1>3, <1>15 DEF Rests, Reconciles
  <1>20. Opens(r)  BY <1>2, <1>3, <1>4, <1>5, <1>15, <1>14 DEF Rests, Opens
  <1>21. Lists(r)  BY <1>15, <1>17, <1>18 DEF Rests, Lists
  <1>22. OpenAgrees(r, due, db)
    BY <1>4, <1>5, <1>10, <1>15, <1>14 DEF RestAgrees, OpenAgrees, FoundAgrees, Planning
  <1>23. CountsAgree(r, some, db) /\ ListAgrees(r, due, db)
    BY <1>2, <1>3, <1>15 DEF CountsAgree, ListAgrees
  <1>24. \A t : RowAgrees(r, t, db) <=> RowAgrees(w, t, db)
    BY <1>15 DEF RowAgrees, StarPends
  <1>25. \A t : Planning(w, t) => Patching(r, t)
    BY <1>2, <1>3, <1>15, AskedIs DEF Planning, Patching
  <1>26. PageAgrees(r, due, db)
    BY <1>15, <1>18, <1>24, <1>25 DEF RestAgrees, PageAgrees
  <1>. QED
    BY <1>11, <1>15, <1>16, <1>19, <1>20, <1>21, <1>22, <1>23, <1>26 DEF Sane, Agrees, Rests, r

LEMMA ContinuedKeeps ==
    ASSUME NEW w \in Tab, Kept(w), NEW due, NEW some, NEW db,
           w.recover \/ (Rests(w) /\ RestAgrees(w, due, some, db))
    PROVE  /\ Sane(Continued(w)) /\ Agrees(Continued(w), due, some, db)
           /\ Continued(w).view = w.view
           /\ \/ Continued(w).first = None /\ Continued(w).recovering = w.view
              \/ Continued(w).first = w.first
  <1>1. CASE w.recover  BY <1>1, RecoveryKeeps DEF Continued
  <1>2. CASE ~w.recover /\ w.pending # {}  BY <1>2, PatchKeeps DEF Continued
  <1>3. CASE ~w.recover /\ w.pending = {}  BY <1>3, IdleKeeps DEF Continued
  <1>. QED  BY <1>1, <1>2, <1>3

-----------------------------------------------------------------------------
(* The end of a job.                                                       *)

Recovery(w) == w.job.kind = "recover"
Healthy(w) == IF w.job.failed THEN FALSE ELSE w.healthy \/ Recovery(w)

Over(w) ==
  [w EXCEPT !.recovering = IF Recovery(w) THEN None ELSE @, !.healthy = Healthy(w),
            !.recover = @ \/ (w.job.failed /\ ~Recovery(w)),
            !.status = IF w.job.failed THEN "waiting"
                       ELSE IF w.streamReady /\ Healthy(w) THEN "ready" ELSE @]

LEMMA OverIs ==
    ASSUME NEW w \in Tab, w.job # None
    PROVE  /\ Over(w) \in Tab /\ EndJob(w) = Continued(Over(w))
           /\ w.job.failed \in BOOLEAN
           /\ (Over(w).recover <=> w.recover \/ (w.job.failed /\ ~Recovery(w)))
           /\ (Over(w).healthy <=> ~w.job.failed /\ (w.healthy \/ Recovery(w)))
           /\ Recovery(w) => Over(w).recovering = None
           /\ ~Recovery(w) => Over(w).recovering = w.recovering
           /\ w.job.failed => Over(w).status = "waiting"
           /\ Over(w).status = "ready" => Over(w).healthy \/ w.status = "ready"
           /\ Over(w).status \in {"waiting", "ready"}
           /\ Over(w).view = w.view /\ Over(w).open = w.open /\ Over(w).first = w.first
           /\ Over(w).more = w.more /\ Over(w).prefetch = w.prefetch
           /\ Over(w).pending = w.pending /\ Over(w).shown = w.shown
           /\ Over(w).detail = w.detail /\ Over(w).rows = w.rows /\ Over(w).pages = w.pages
           /\ Over(w).details = w.details /\ Over(w).counts = w.counts
           /\ Over(w).star = w.star /\ Over(w).steady = w.steady
  <1>. DEFINE h == Healthy(w)
              g == w.recover \/ (w.job.failed /\ ~Recovery(w))
              v == IF Recovery(w) THEN None ELSE w.recovering
              s == IF w.job.failed THEN "waiting"
                   ELSE IF w.streamReady /\ h THEN "ready" ELSE w.status
  <1>1. /\ w.recovering \in Views \cup {None} /\ w.recover \in BOOLEAN /\ w.healthy \in BOOLEAN
        /\ w.status \in {"waiting", "ready"} /\ w.streamReady \in BOOLEAN
    BY DEF Tab
  <1>2. w.job.failed \in BOOLEAN  BY DEF Tab, Job
  <1>3. h \in BOOLEAN /\ (h <=> ~w.job.failed /\ (w.healthy \/ Recovery(w)))
    BY <1>1, <1>2 DEF Healthy, Recovery
  <1>4. g \in BOOLEAN  BY <1>1, <1>2 DEF Recovery
  <1>5. v \in Views \cup {None} /\ (Recovery(w) => v = None) /\ (~Recovery(w) => v = w.recovering)
    BY <1>1
  <1>6. /\ s \in {"waiting", "ready"} /\ (w.job.failed => s = "waiting")
        /\ (s = "ready" => h \/ w.status = "ready")
    BY <1>1, <1>2, <1>3
  <1>7. Over(w) = [w EXCEPT !.recovering = v, !.healthy = h, !.recover = g, !.status = s]
    BY DEF Over, Tab
  <1>8. EndJob(w) = Continued(Over(w))  BY DEF EndJob, Over, Healthy, Recovery
  <1>9. g <=> w.recover \/ (w.job.failed /\ ~Recovery(w))  OBVIOUS
  <1>. HIDE DEF h, g, v, s
  <1>10. /\ Over(w).recovering = v /\ Over(w).healthy = h /\ Over(w).recover = g
         /\ Over(w).status = s
         /\ Over(w).view = w.view /\ Over(w).open = w.open /\ Over(w).first = w.first
         /\ Over(w).more = w.more /\ Over(w).prefetch = w.prefetch
         /\ Over(w).pending = w.pending /\ Over(w).shown = w.shown
         /\ Over(w).detail = w.detail /\ Over(w).rows = w.rows /\ Over(w).pages = w.pages
         /\ Over(w).details = w.details /\ Over(w).counts = w.counts
         /\ Over(w).star = w.star /\ Over(w).steady = w.steady /\ Over(w).job = w.job
         /\ Over(w).streamReady = w.streamReady /\ Over(w).errored = w.errored
         /\ Over(w).loading = w.loading /\ Over(w).predicted = w.predicted
    BY <1>7 DEF Tab
  <1>11. Over(w) \in Tab
    <2>1. TabTyped(w)  BY DEF Tab, TabTyped
    <2>2. TabTyped(Over(w))  BY <1>3, <1>4, <1>5, <1>6, <1>10, <2>1 DEF TabTyped
    <2>3. Shaped(Over(w), w)  BY <1>7 DEF Shaped, Tab
    <2>. QED  BY <2>2, <2>3, TabIs
  <1>. QED  BY <1>2, <1>3, <1>5, <1>6, <1>8, <1>9, <1>10, <1>11

LEMMA SettledKeeps ==
    ASSUME NEW w, Sane(w), NEW due, NEW some, NEW db, Agrees(w, due, some, db)
    PROVE  /\ Sane(Settled(w)) /\ Agrees(Settled(w), due, some, db)
           /\ Settled(w).view = w.view
           /\ \/ Settled(w).first = None /\ Settled(w).recovering = w.view
              \/ Settled(w).first = w.first
  <1>1. CASE ~(w.job # None /\ w.job.list = Finished /\ w.job.counts = Finished /\ ~w.job.awaits)
    BY <1>1 DEF Settled
  <1>2. CASE w.job # None /\ w.job.list = Finished /\ w.job.counts = Finished /\ ~w.job.awaits
    <2>. DEFINE e == Over(w)
    <2>1. w \in Tab /\ Kept(w) /\ Reconciles(w) /\ Opens(w) /\ Lists(w)
      BY DEF Sane
    <2>2. e \in Tab /\ Settled(w) = Continued(e)
      BY <1>2, <2>1, OverIs DEF Settled
    <2>3. /\ w.job.failed \in BOOLEAN
          /\ (e.recover <=> w.recover \/ (w.job.failed /\ ~Recovery(w)))
          /\ (e.healthy <=> ~w.job.failed /\ (w.healthy \/ Recovery(w)))
          /\ Recovery(w) => e.recovering = None
          /\ ~Recovery(w) => e.recovering = w.recovering
          /\ w.job.failed => e.status = "waiting"
          /\ e.status = "ready" => e.healthy \/ w.status = "ready"
          /\ e.status \in {"waiting", "ready"}
      BY <1>2, <2>1, OverIs
    <2>4. /\ e.view = w.view /\ e.open = w.open /\ e.first = w.first /\ e.more = w.more
          /\ e.prefetch = w.prefetch /\ e.pending = w.pending /\ e.shown = w.shown
          /\ e.detail = w.detail /\ e.rows = w.rows /\ e.pages = w.pages
          /\ e.details = w.details /\ e.counts = w.counts /\ e.star = w.star
          /\ e.steady = w.steady
      BY <1>2, <2>1, OverIs
    <2>. HIDE DEF e
    <2>5. Kept(e)  BY <2>1, <2>4 DEF Kept
    <2>6. Fresh(e) <=> Fresh(w)  BY <2>4 DEF Fresh
    <2>7. Recovery(w) <=> w.job.kind = "recover"  BY DEF Recovery
    <2>8. e.steady /\ e.healthy => Believes(w)
      BY <1>2, <2>3, <2>4, <2>7 DEF Believes
    <2>9. ~e.recover => Rests(e)
      BY <1>2, <2>1, <2>3, <2>4, <2>6, <2>7, <2>8 DEF Rests, Reconciles, Opens, Lists
    <2>10. ~e.recover => \A t : Planning(e, t) <=> Planning(w, t)
      BY <2>3, <2>4 DEF Planning
    <2>11. OpenAgrees(w, due, db) /\ CountsAgree(w, some, db) /\ PageAgrees(w, due, db)
      BY DEF Agrees
    <2>12. ~e.recover => OpenAgrees(e, due, db)
      BY <2>4, <2>10, <2>11 DEF OpenAgrees, FoundAgrees
    <2>13. ~e.recover => e.counts = CountsOf(db) \/ some \/ e.pending # {} \/ e.status = "waiting"
      BY <1>2, <2>3, <2>4, <2>11, AskedIs DEF CountsAgree
    <2>14. \A t : RowAgrees(e, t, db) <=> RowAgrees(w, t, db)
      BY <2>4 DEF RowAgrees, StarPends
    <2>15. \A t : ~Patching(w, t)  BY <1>2 DEF Patching
    <2>16. ~e.recover /\ e.steady /\ e.healthy =>
             \A t \in ToSet(e.pages[e.view].ids) :
               RowAgrees(e, t, db) \/ t \in due \/ Planning(e, t)
      BY <1>2, <2>3, <2>4, <2>8, <2>10, <2>11, <2>14, <2>15 DEF PageAgrees
    <2>17. ~e.recover => RestAgrees(e, due, some, db)
      BY <2>12, <2>13, <2>16 DEF RestAgrees
    <2>. QED  BY <2>2, <2>4, <2>5, <2>9, <2>17, ContinuedKeeps
  <1>. QED  BY <1>1, <1>2

-----------------------------------------------------------------------------
(* What events ask for.                                                    *)

AskedRecovery(w) == [w EXCEPT !.recover = TRUE, !.healthy = FALSE]

LEMMA AskedRecoveryIs ==
    ASSUME NEW w \in Tab, Kept(w)
    PROVE  /\ AskedRecovery(w) \in Tab /\ Kept(AskedRecovery(w)) /\ AskedRecovery(w).recover
           /\ AskedRecovery(w).view = w.view /\ AskedRecovery(w).first = w.first
           /\ Continued(AskedRecovery(w)) = StartRecovery(AskedRecovery(w))
  <1>1. AskedRecovery(w) \in Tab
    <2>1. Shaped(AskedRecovery(w), w)  BY DEF AskedRecovery, Shaped
    <2>2. TabTyped(AskedRecovery(w))  BY DEF AskedRecovery, Tab, TabTyped
    <2>. QED  BY <2>1, <2>2, TabIs
  <1>2. /\ AskedRecovery(w).recover /\ AskedRecovery(w).view = w.view
        /\ AskedRecovery(w).first = w.first /\ AskedRecovery(w).pages = w.pages
        /\ AskedRecovery(w).rows = w.rows
    BY DEF AskedRecovery, Tab
  <1>3. Kept(AskedRecovery(w))  BY <1>2 DEF Kept
  <1>4. Continued(AskedRecovery(w)) = StartRecovery(AskedRecovery(w))
    BY <1>2 DEF Continued
  <1>. QED  BY <1>1, <1>2, <1>3, <1>4

\* A handler that interrupts leaves nothing to be told.
LEMMA InterruptKeeps ==
    ASSUME NEW w \in Tab, Kept(w), NEW due, NEW some, NEW db,
           NEW b \in BOOLEAN, b \/ w.job = None
    PROVE  /\ Sane(RequestRecovery(w, b)) /\ Agrees(RequestRecovery(w, b), due, some, db)
           /\ RequestRecovery(w, b).view = w.view
           /\ RequestRecovery(w, b).first = None /\ RequestRecovery(w, b).recovering = w.view
  <1>1. RequestRecovery(w, b) = StartRecovery(AskedRecovery(w))
    BY AskedRecoveryIs DEF RequestRecovery, AskedRecovery
  <1>. QED  BY <1>1, AskedRecoveryIs, RecoveryKeeps

\* A recovery that has been asked for of a job that goes on is to read everything.
LEMMA RequestedKeeps ==
    ASSUME NEW w, Sane(w), NEW was, NEW old, NEW db, Agrees(w, was, old, db), NEW due, NEW some,
           w.job # None
    PROVE  /\ Sane(AskedRecovery(w)) /\ Agrees(AskedRecovery(w), due, some, db)
  <1>. DEFINE r == AskedRecovery(w)
  <1>1. w \in Tab /\ Kept(w) /\ Reconciles(w) /\ Opens(w) /\ Lists(w)
    BY DEF Sane
  <1>2. r \in Tab /\ Kept(r)  BY <1>1, AskedRecoveryIs
  <1>3. /\ r.view = w.view /\ r.open = w.open /\ r.recovering = w.recovering /\ r.first = w.first
        /\ r.more = w.more /\ r.prefetch = w.prefetch /\ r.recover
        /\ r.pending = w.pending /\ r.shown = w.shown /\ r.detail = w.detail /\ r.rows = w.rows
        /\ r.pages = w.pages /\ r.details = w.details /\ r.counts = w.counts /\ r.star = w.star
        /\ ~r.healthy /\ r.status = w.status /\ r.steady = w.steady
        /\ r.job = w.job
    BY <1>1 DEF AskedRecovery, Tab
  <1>. HIDE DEF r
  <1>4. Fresh(r) <=> Fresh(w)  BY <1>3 DEF Fresh
  <1>5. Believes(r) => Believes(w)  BY <1>3 DEF Believes
  <1>6. Reconciles(r)  BY <1>1, <1>3 DEF Reconciles
  <1>7. Opens(r)  BY <1>1, <1>3 DEF Opens
  <1>8. Lists(r)  BY <1>1, <1>3, <1>4, <1>5 DEF Lists
  <1>9. \A t : Planning(r, t)  BY <1>3 DEF Planning
  <1>10. OpenAgrees(w, was, db) /\ ListAgrees(w, was, db)  BY DEF Agrees
  <1>11. OpenAgrees(r, due, db)
    BY <1>3, <1>9, <1>10 DEF OpenAgrees, FoundAgrees
  <1>12. CountsAgree(r, some, db)  BY <1>3 DEF CountsAgree
  <1>13. PageAgrees(r, due, db)  BY <1>9 DEF PageAgrees
  <1>14. ListAgrees(r, due, db)  BY <1>3, <1>9, <1>10 DEF ListAgrees
  <1>. QED  BY <1>2, <1>6, <1>7, <1>8, <1>11, <1>12, <1>13, <1>14 DEF Sane, Agrees, r

\* An event takes what it touches from what is due and plans it.
Named(w, e) ==
  [w EXCEPT !.pending = @ \cup e.ids, !.recover = @ \/ (~w.healthy /\ w.job = None)]

LEMMA NamedIs ==
    ASSUME NEW w \in Tab, NEW e \in Event
    PROVE  /\ Named(w, e) \in Tab
           /\ Named(w, e).pending = w.pending \cup e.ids
           /\ (Named(w, e).recover <=> w.recover \/ (~w.healthy /\ w.job = None))
           /\ Named(w, e).view = w.view /\ Named(w, e).open = w.open
           /\ Named(w, e).recovering = w.recovering /\ Named(w, e).first = w.first
           /\ Named(w, e).more = w.more /\ Named(w, e).prefetch = w.prefetch
           /\ Named(w, e).shown = w.shown /\ Named(w, e).detail = w.detail
           /\ Named(w, e).rows = w.rows /\ Named(w, e).pages = w.pages
           /\ Named(w, e).details = w.details /\ Named(w, e).counts = w.counts
           /\ Named(w, e).star = w.star /\ Named(w, e).healthy = w.healthy
           /\ Named(w, e).status = w.status /\ Named(w, e).steady = w.steady
           /\ Named(w, e).job = w.job
  <1>. DEFINE p == w.pending \cup e.ids
              g == w.recover \/ (~w.healthy /\ w.job = None)
  <1>1. p \in SUBSET Threads /\ g \in BOOLEAN  BY DEF Tab, Event
  <1>2. Named(w, e) = [w EXCEPT !.pending = p, !.recover = g]  BY DEF Named, Tab
  <1>3. (g <=> w.recover \/ (~w.healthy /\ w.job = None)) /\ p = w.pending \cup e.ids
    OBVIOUS
  <1>. HIDE DEF p, g
  <1>4. Named(w, e) \in Tab
    <2>1. Shaped(Named(w, e), w)  BY <1>1, <1>2 DEF Shaped
    <2>2. TabTyped(Named(w, e))  BY <1>1, <1>2 DEF Tab, TabTyped
    <2>. QED  BY <1>1, <1>2, <2>1, <2>2, TabIs
  <1>5. /\ Named(w, e).pending = p /\ Named(w, e).recover = g
        /\ Named(w, e).view = w.view /\ Named(w, e).open = w.open
        /\ Named(w, e).recovering = w.recovering /\ Named(w, e).first = w.first
        /\ Named(w, e).more = w.more /\ Named(w, e).prefetch = w.prefetch
        /\ Named(w, e).shown = w.shown /\ Named(w, e).detail = w.detail
        /\ Named(w, e).rows = w.rows /\ Named(w, e).pages = w.pages
        /\ Named(w, e).details = w.details /\ Named(w, e).counts = w.counts
        /\ Named(w, e).star = w.star /\ Named(w, e).healthy = w.healthy
        /\ Named(w, e).status = w.status /\ Named(w, e).steady = w.steady
        /\ Named(w, e).job = w.job
    BY <1>2 DEF Tab
  <1>. QED  BY <1>3, <1>4, <1>5

LEMMA PlannedKeeps ==
    ASSUME NEW w, Sane(w), NEW was, NEW old, NEW db, Agrees(w, was, old, db),
           NEW e \in Event, e # StreamReady, NEW due, NEW some,
           \A t \in was : t \in due \/ Touches(e, t)
    PROVE  /\ Sane(Planned(w, e)) /\ Agrees(Planned(w, e), due, some, db)
           /\ Planned(w, e).view = w.view
           /\ \/ Planned(w, e).first = None /\ Planned(w, e).recovering = w.view
              \/ Planned(w, e).first = w.first
  <1>1. w \in Tab /\ Kept(w) /\ Reconciles(w) /\ Opens(w) /\ Lists(w)
    BY DEF Sane
  <1>2. CASE e.recover
    <2>1. Planned(w, e) = RequestRecovery(w, FALSE)  BY <1>2 DEF Planned
    <2>2. CASE w.job = None  BY <1>1, <2>1, <2>2, InterruptKeeps
    <2>3. CASE w.job # None
      <3>1. Planned(w, e) = AskedRecovery(w)
        BY <2>1, <2>3 DEF RequestRecovery, AskedRecovery
      <3>. QED  BY <1>1, <2>3, <3>1, RequestedKeeps, AskedRecoveryIs
    <2>. QED  BY <2>2, <2>3
  <1>3. CASE ~e.recover
    <2>. DEFINE r == Named(w, e)
    <2>1. Planned(w, e) = IF w.job = None THEN Continued(r) ELSE r
      BY <1>3 DEF Planned, Named
    <2>2. r \in Tab /\ r.pending = w.pending \cup e.ids  BY <1>1, NamedIs
    <2>3. r.recover <=> w.recover \/ (~w.healthy /\ w.job = None)
      BY <1>1, NamedIs
    <2>4. /\ r.view = w.view /\ r.open = w.open
          /\ r.recovering = w.recovering /\ r.first = w.first
          /\ r.more = w.more /\ r.prefetch = w.prefetch
          /\ r.shown = w.shown /\ r.detail = w.detail
          /\ r.rows = w.rows /\ r.pages = w.pages
          /\ r.details = w.details /\ r.counts = w.counts
          /\ r.star = w.star /\ r.healthy = w.healthy
          /\ r.status = w.status /\ r.steady = w.steady
          /\ r.job = w.job
      BY <1>1, NamedIs
    <2>5. e.ids # {}  BY <1>3 DEF Event, StreamReady
    <2>. HIDE DEF r
    <2>6. Kept(r) /\ (Fresh(r) <=> Fresh(w)) /\ (Believes(r) <=> Believes(w))
      BY <1>1, <2>4 DEF Kept, Fresh, Believes
    <2>7. \A t : /\ Planning(w, t) => Planning(r, t)
                 /\ t \in was => t \in due \/ Planning(r, t)
      BY <1>3, <2>2, <2>3 DEF Planning, Touches
    <2>8. \A t : (RowAgrees(r, t, db) <=> RowAgrees(w, t, db)) /\ (Patching(r, t) <=> Patching(w, t))
      BY <2>4 DEF RowAgrees, StarPends, Patching
    <2>9. OpenAgrees(w, was, db) /\ PageAgrees(w, was, db) /\ ListAgrees(w, was, db)
      BY DEF Agrees
    <2>10. OpenAgrees(r, due, db)
      BY <2>4, <2>7, <2>9 DEF OpenAgrees, FoundAgrees
    <2>11. PageAgrees(r, due, db)
      BY <2>4, <2>6, <2>7, <2>8, <2>9 DEF PageAgrees
    <2>12. CASE w.job # None
      <3>1. Reconciles(r)  BY <1>1, <2>3, <2>4, <2>12 DEF Reconciles
      <3>2. Opens(r)  BY <1>1, <2>4 DEF Opens
      <3>3. Lists(r)  BY <1>1, <2>4, <2>6 DEF Lists
      <3>4. CountsAgree(r, some, db)  BY <2>2, <2>4, <2>5, <2>12 DEF CountsAgree
      <3>5. ListAgrees(r, due, db)  BY <2>4, <2>7, <2>9 DEF ListAgrees
      <3>. QED
        BY <2>1, <2>2, <2>4, <2>6, <2>10, <2>11, <2>12, <3>1, <3>2, <3>3, <3>4, <3>5 DEF Sane, Agrees
    <2>13. CASE w.job = None
      <3>1. ~r.recover => Rests(r)
        BY <1>1, <2>3, <2>4, <2>6, <2>13 DEF Reconciles, Opens, Lists, Believes, Rests
      <3>2. \A t : ~Patching(r, t)  BY <2>4, <2>13 DEF Patching
      <3>3. r.steady /\ r.healthy => Believes(r)  BY <2>4, <2>13 DEF Believes
      <3>4. ~r.recover => RestAgrees(r, due, some, db)
        BY <2>2, <2>4, <2>5, <2>10, <2>11, <2>13, <3>2, <3>3 DEF RestAgrees, PageAgrees
      <3>. QED  BY <2>1, <2>2, <2>4, <2>6, <2>13, <3>1, <3>4, ContinuedKeeps
    <2>. QED  BY <2>12, <2>13
  <1>. QED  BY <1>2, <1>3

-----------------------------------------------------------------------------
(* The effect of the list.                                                 *)

\* The page that is shown, if there is one.
Shown(x) == {x.pages[v] : v \in {x.view} \cap DOMAIN x.pages}

LEMMA ShownIs ==
    ASSUME NEW x, NEW y, x.view = y.view, Shown(x) = Shown(y)
    PROVE  Fresh(x) <=> Fresh(y)
BY DEF Shown, Fresh

LEMMA ListedKeeps ==
    ASSUME NEW b, FirstRuns(b), Reconciles(b), b \in Tab,
           NEW w, Sane(w), NEW due, NEW some, NEW db, Agrees(w, due, some, db),
           \/ w.first = None /\ (w.recovering = w.view \/ Fresh(w))
           \/ w.first = b.first
           \/ w.first = None /\ (w.open # None \/ w.open # b.open \/ w.view # b.view)
    PROVE  /\ Sane(Listed(b, w)) /\ FirstRuns(Listed(b, w))
           /\ Agrees(Listed(b, w), due, some, db)
  <1>. DEFINE r == Listed(b, w)
              f == IF w.open # None \/ Fresh(w) \/ w.recovering = w.view THEN None ELSE AskedFirst(w.view)
              same == /\ b.view = w.view /\ Shown(b) = Shown(w)
                      /\ (b.recovering = b.view) <=> (w.recovering = w.view)
                      /\ (b.open = None) <=> (w.open = None)
  <1>1. w \in Tab /\ Kept(w) /\ Reconciles(w) /\ Opens(w) /\ Lists(w)
    BY DEF Sane
  <1>2. r = IF same THEN w ELSE [w EXCEPT !.first = f]  BY DEF Listed, Shown
  <1>3. CASE same
    <2>1. Fresh(b) <=> Fresh(w)  BY <1>3, ShownIs
    <2>2. FirstRuns(w)  BY <1>3, <2>1 DEF FirstRuns
    <2>. QED  BY <1>2, <1>3, <2>2
  <1>4. CASE ~same
    <2>1. r = [w EXCEPT !.first = f]  BY <1>2, <1>4
    <2>2. w.view \in Views  BY <1>1 DEF Tab
    <2>3. AskedFirst(w.view) \in FirstRead /\ ~AskedFirst(w.view).answered
          /\ AskedFirst(w.view).view = w.view /\ AskedFirst(w.view) # None
      BY <2>2, ReadsAre, Nothing
    <2>4. /\ f \in FirstRead \cup {None} /\ (f # None => ~f.answered /\ f.view = w.view)
          /\ (w.open # None \/ Fresh(w) \/ w.recovering = w.view => f = None)
          /\ (f = None => w.open # None \/ Fresh(w) \/ w.recovering = w.view)
      BY <2>3
    <2>. HIDE DEF r, f, same
    <2>5. r \in Tab  BY <1>1, <2>1, <2>4 DEF Tab
    <2>6. /\ r.view = w.view /\ r.open = w.open /\ r.recovering = w.recovering /\ r.first = f
          /\ r.more = w.more /\ r.prefetch = w.prefetch /\ r.recover = w.recover
          /\ r.pending = w.pending /\ r.shown = w.shown /\ r.detail = w.detail
          /\ r.rows = w.rows /\ r.pages = w.pages /\ r.details = w.details
          /\ r.counts = w.counts /\ r.star = w.star /\ r.healthy = w.healthy
          /\ r.status = w.status /\ r.steady = w.steady /\ r.job = w.job
      BY <1>1, <2>1 DEF Tab
    <2>7. Kept(r) /\ (Fresh(r) <=> Fresh(w)) /\ (Believes(r) <=> Believes(w))
      BY <1>1, <2>6 DEF Kept, Fresh, Believes
    <2>8. Reconciles(r)  BY <1>1, <2>4, <2>6 DEF Reconciles
    <2>9. Opens(r)  BY <1>1, <2>6 DEF Opens
    <2>10. Lists(r)  BY <1>1, <2>4, <2>6, <2>7 DEF Lists
    <2>11. FirstRuns(r)  BY <2>4, <2>6, <2>7 DEF FirstRuns
    <2>12. \A t : Planning(r, t) <=> Planning(w, t)  BY <2>6 DEF Planning
    <2>13. \A t : (RowAgrees(r, t, db) <=> RowAgrees(w, t, db)) /\ (Patching(r, t) <=> Patching(w, t))
      BY <2>6 DEF RowAgrees, StarPends, Patching
    <2>14. /\ OpenAgrees(w, due, db) /\ CountsAgree(w, some, db)
           /\ PageAgrees(w, due, db) /\ ListAgrees(w, due, db)
      BY DEF Agrees
    <2>15. OpenAgrees(r, due, db)
      BY <2>6, <2>12, <2>14 DEF OpenAgrees, FoundAgrees
    <2>16. CountsAgree(r, some, db)  BY <2>6, <2>14 DEF CountsAgree
    <2>17. PageAgrees(r, due, db)
      BY <2>6, <2>7, <2>12, <2>13, <2>14 DEF PageAgrees
    <2>18. ListAgrees(r, due, db)  BY <2>6, <2>12, <2>14 DEF ListAgrees
    <2>. QED
      BY <2>5, <2>7, <2>8, <2>9, <2>10, <2>11, <2>15, <2>16, <2>17, <2>18 DEF Sane, Agrees, r
  <1>. QED  BY <1>3, <1>4

-----------------------------------------------------------------------------
(* The stream and the mailbox behind it.                                   *)

\* A tab that is left alone agrees with a mailbox that has changed where more is due.
LEMMA LaterAgrees ==
    ASSUME NEW w, NEW was, NEW old, NEW db, Agrees(w, was, old, db),
           NEW due, NEW some, NEW next, was \subseteq due, old => some,
           \A t : t \in due \/ next[t] = db[t], next = db \/ some
    PROVE  Agrees(w, due, some, next)
  <1>1. /\ OpenAgrees(w, was, db) /\ CountsAgree(w, old, db)
        /\ PageAgrees(w, was, db) /\ ListAgrees(w, was, db)
    BY DEF Agrees
  <1>2. \A result, t : FoundIs(result, t, db) => FoundIs(result, t, next) \/ t \in due
    BY DEF FoundIs
  <1>3. OpenAgrees(w, due, next)  BY <1>1, <1>2 DEF OpenAgrees, FoundAgrees
  <1>4. CountsAgree(w, some, next)  BY <1>1 DEF CountsAgree
  <1>5. \A t : RowAgrees(w, t, db) => RowAgrees(w, t, next) \/ t \in due
    BY DEF RowAgrees
  <1>6. PageAgrees(w, due, next)  BY <1>1, <1>5 DEF PageAgrees
  <1>7. \A line, t : LineIs(line, t, w.view, db) => LineIs(line, t, w.view, next) \/ t \in due
    BY DEF LineIs
  <1>8. ListAgrees(w, due, next)  BY <1>1, <1>7 DEF ListAgrees
  <1>. QED  BY <1>3, <1>4, <1>6, <1>8 DEF Agrees

LEMMA QueuesAre ==
    ASSUME NEW n \in Seq(Event), NEW e \in Event
    PROVE  /\ Append(n, e) \in Seq(Event) /\ Append(n, e) # <<>>
           /\ \A i \in DOMAIN n : i \in DOMAIN Append(n, e) /\ Append(n, e)[i] = n[i]
           /\ \E i \in DOMAIN Append(n, e) : Append(n, e)[i] = e
           /\ n # <<>> =>
                /\ Tail(n) \in Seq(Event) /\ Head(n) \in Event
                /\ \A i \in DOMAIN n : \/ n[i] = Head(n)
                                       \/ \E j \in DOMAIN Tail(n) : Tail(n)[j] = n[i]
  <1>1. Append(n, e) \in Seq(Event) /\ Append(n, e) # <<>>  OBVIOUS
  <1>2. DOMAIN n = 1..Len(n) /\ Len(n) \in Nat /\ DOMAIN Append(n, e) = 1..(Len(n) + 1)
    OBVIOUS
  <1>3. \A i \in DOMAIN n : i \in DOMAIN Append(n, e) /\ Append(n, e)[i] = n[i]
    BY <1>2
  <1>4. Len(n) + 1 \in DOMAIN Append(n, e) /\ Append(n, e)[Len(n) + 1] = e
    BY <1>2
  <1>5. ASSUME n # <<>>
        PROVE  /\ Tail(n) \in Seq(Event) /\ Head(n) \in Event
               /\ \A i \in DOMAIN n : \/ n[i] = Head(n)
                                      \/ \E j \in DOMAIN Tail(n) : Tail(n)[j] = n[i]
    <2>1. Tail(n) \in Seq(Event) /\ Head(n) \in Event /\ Head(n) = n[1]  BY <1>5
    <2>2. DOMAIN Tail(n) = 1..(Len(n) - 1) /\ \A j \in 1..(Len(n) - 1) : Tail(n)[j] = n[j + 1]
      BY <1>5
    <2>3. \A i \in 1..Len(n) : i # 1 => i - 1 \in 1..(Len(n) - 1) /\ Tail(n)[i - 1] = n[i]
      BY <1>2, <2>2
    <2>. QED  BY <1>2, <2>1, <2>2, <2>3
  <1>. QED  BY <1>1, <1>3, <1>4, <1>5

StreamIn == [state: {"connecting", "opening", "ready", "ended", "refused", "closed"},
             queue: Seq(Event)]

\* A stream that is not ready is to be told of everything.
LEMMA AllDue ==
    ASSUME NEW s, s.state # "ready", NEW n
    PROVE  Due(s, n) = Threads /\ Some(s, n)
BY DEF Due, Some, Coming

\* A notification that is sent is due, and so is all that was.
LEMMA Notifies ==
    ASSUME IInv, NEW e \in Event, NEW n, n = Notified(e)
    PROVE  /\ n \in Seq(Event)
           /\ Due(stream, notices) \subseteq Due(stream, n)
           /\ \A t \in Threads : Touches(e, t) => t \in Due(stream, n)
           /\ Some(stream, n)
  <1>1. /\ notices \in Seq(Event) /\ stream \in StreamIn /\ listens \in BOOLEAN
        /\ ~listens => stream.state \notin {"opening", "ready"}
    BY DEF IInv, StreamSound, StreamIn
  <1>2. CASE listens
    <2>1. n = Append(notices, e)  BY <1>2 DEF Notified
    <2>2. /\ n \in Seq(Event) /\ n # <<>>
          /\ \A i \in DOMAIN notices : i \in DOMAIN n /\ n[i] = notices[i]
          /\ \E i \in DOMAIN n : n[i] = e
      BY <1>1, <2>1, QueuesAre
    <2>3. \A t : Coming(t, stream, notices) => Coming(t, stream, n)
      BY <2>2 DEF Coming
    <2>4. \A t : Touches(e, t) => Coming(t, stream, n)  BY <2>2 DEF Coming
    <2>. QED  BY <2>2, <2>3, <2>4 DEF Due, Some
  <1>3. CASE ~listens
    <2>1. n = notices  BY <1>3 DEF Notified
    <2>. QED  BY <1>1, <1>3, <2>1, AllDue DEF Due
  <1>. QED  BY <1>1, <1>2, <1>3

\* A notification that is delivered is in the stream, or the stream has ended.
LEMMA Delivers ==
    ASSUME IInv, notices # <<>>, NEW s, s = Delivered(stream, Head(notices))
    PROVE  /\ s \in StreamIn /\ Tail(notices) \in Seq(Event)
           /\ Due(stream, notices) \subseteq Due(s, Tail(notices))
           /\ Some(s, Tail(notices))
           /\ stream.state \notin {"opening", "ready"} => s.state = stream.state
  <1>1. notices \in Seq(Event) /\ stream \in StreamIn
    BY DEF IInv, StreamSound, StreamIn
  <1>. DEFINE e == Head(notices)
              n == Tail(notices)
  <1>2. /\ n \in Seq(Event) /\ e \in Event
        /\ \A i \in DOMAIN notices : notices[i] = e \/ \E j \in DOMAIN n : n[j] = notices[i]
    BY <1>1, QueuesAre
  <1>3. CASE stream.state = "ready"
    <2>1. s = [stream EXCEPT !.queue = Append(stream.queue, e)]
      BY <1>3 DEF Delivered
    <2>2. stream.queue \in Seq(Event)  BY <1>1 DEF StreamIn
    <2>3. /\ Append(stream.queue, e) \in Seq(Event) /\ Append(stream.queue, e) # <<>>
          /\ \A i \in DOMAIN stream.queue : /\ i \in DOMAIN Append(stream.queue, e)
                                            /\ Append(stream.queue, e)[i] = stream.queue[i]
          /\ \E i \in DOMAIN Append(stream.queue, e) : Append(stream.queue, e)[i] = e
      BY <1>2, <2>2, QueuesAre
    <2>. HIDE DEF e, n
    <2>4. s \in StreamIn /\ s.state = "ready" /\ s.queue = Append(stream.queue, e)
      BY <1>1, <1>3, <2>1, <2>3 DEF StreamIn
    <2>5. \A t : Coming(t, stream, notices) => Coming(t, s, n)
      BY <1>2, <1>3, <2>3, <2>4 DEF Coming
    <2>. QED  BY <1>2, <1>3, <2>3, <2>4, <2>5 DEF Due, Some, n
  <1>4. CASE stream.state # "ready"
    <2>1. s = Ended(stream)  BY <1>4 DEF Delivered
    <2>2. s \in StreamIn /\ s.state # "ready"
          /\ (stream.state \notin {"opening", "ready"} => s.state = stream.state)
      BY <1>1, <1>4, <2>1 DEF Ended, StreamIn
    <2>. QED  BY <1>2, <2>2, AllDue DEF Due
  <1>. QED  BY <1>3, <1>4

LEMMA Ends ==
    ASSUME NEW s \in StreamIn
    PROVE  Ended(s) \in StreamIn /\ Ended(s).state \notin {"opening", "ready"}
BY DEF Ended, StreamIn

-----------------------------------------------------------------------------
(* The steps of the mailbox and of its API.                                *)

LEMMA CommitKeeps ==
    ASSUME IInv, NEW t \in Threads, NEW row \in Row, NEW e \in Event, Touches(e, t),
           Commit(t, row, e), UNCHANGED <<listens, stream>>
    PROVE  /\ stored' \in Mailbox /\ changes' \in 0..MaxChanges /\ StreamSound'
           /\ t \in Due(stream, notices')
           /\ \A w : Agrees(w, Due(stream, notices), Some(stream, notices), stored) =>
                Agrees(w, Due(stream, notices'), Some(stream, notices'), stored')
  <1>1. stored \in Mailbox /\ changes \in 0..MaxChanges /\ StreamSound
    BY DEF IInv, Bounded
  <1>2. /\ changes < MaxChanges /\ changes' = changes + 1 /\ notices' = Notified(e)
        /\ stored' = [stored EXCEPT ![t] = [row EXCEPT !.rev = changes + 1]]
    BY DEF Commit
  <1>3. changes' \in 0..MaxChanges  BY <1>1, <1>2, BoundsAssumption
  <1>4. [row EXCEPT !.rev = changes + 1] \in Row  BY <1>2, <1>3 DEF Row
  <1>5. stored' \in Mailbox /\ \A u : u = t \/ stored'[u] = stored[u]
    BY <1>1, <1>2, <1>4 DEF Mailbox
  <1>6. /\ notices' \in Seq(Event) /\ Due(stream, notices) \subseteq Due(stream, notices')
        /\ t \in Due(stream, notices') /\ Some(stream, notices')
    BY <1>2, Notifies
  <1>7. StreamSound'  BY <1>1, <1>6 DEF StreamSound
  <1>8. ASSUME NEW w, Agrees(w, Due(stream, notices), Some(stream, notices), stored)
        PROVE  Agrees(w, Due(stream, notices'), Some(stream, notices'), stored')
    BY <1>5, <1>6, <1>8, LaterAgrees
  <1>. QED  BY <1>3, <1>5, <1>6, <1>7, <1>8

LEMMA ChangeKeeps ==
    ASSUME IInv, NEW t \in Threads, Change(t)
    PROVE  IInv'
  <1>1. /\ Bounded /\ Sane(tab) /\ FirstRuns(tab)
        /\ Agrees(tab, Due(stream, notices), Some(stream, notices), stored)
    BY DEF IInv
  <1>2. UNCHANGED <<listens, stream, tab, faults, acts>>  BY DEF Change
  <1>3. stored[t] \in Row  BY <1>1 DEF Bounded, Mailbox
  <1>4. \E row \in Row, e \in Event : Commit(t, row, e) /\ Touches(e, t)
    <2>. DEFINE row == stored[t]
                arrived == [row EXCEPT !.at = changes + 1]
                starred == [row EXCEPT !.starred =
                              IF row.at \in @ THEN @ \ {row.at} ELSE @ \cup {row.at}]
                deleted == [row EXCEPT !.views = {}, !.gone = TRUE]
                relabeled == {[row EXCEPT !.views = vs] : vs \in SUBSET Views \ {row.views}}
                one == [recover |-> FALSE, ids |-> {t}]
                all == [recover |-> TRUE, ids |-> {}]
    <2>1. \/ \E next \in {arrived, starred, deleted} \cup relabeled : Commit(t, next, one)
          \/ Commit(t, arrived, all)
      BY DEF Change
    <2>2. changes + 1 \in 0..MaxChanges
      <3>1. changes < MaxChanges  BY <2>1 DEF Commit
      <3>. QED  BY <1>1, <3>1, BoundsAssumption DEF Bounded
    <2>3. arrived \in Row /\ starred \in Row /\ deleted \in Row /\ \A x \in relabeled : x \in Row
      <3>1. row.at \in Message  BY <1>3 DEF Row, Message
      <3>2. starred \in Row  BY <1>3, <3>1 DEF Row
      <3>. QED  BY <1>3, <2>2, <3>2 DEF Row
    <2>4. one \in Event /\ all \in Event /\ Touches(one, t) /\ Touches(all, t)
      BY DEF Event, Touches
    <2>. HIDE DEF row, arrived, starred, deleted, relabeled, one, all
    <2>. QED  BY <2>1, <2>3, <2>4
  <1>5. PICK row \in Row, e \in Event : Commit(t, row, e) /\ Touches(e, t)
    BY <1>4
  <1>6. /\ stored' \in Mailbox /\ changes' \in 0..MaxChanges /\ StreamSound'
        /\ Agrees(tab, Due(stream, notices'), Some(stream, notices'), stored')
    BY <1>1, <1>2, <1>5, CommitKeeps
  <1>. QED  BY <1>1, <1>2, <1>6 DEF IInv, Bounded

\* The steps of the API change the stream alone, and nothing due is lost.
LEMMA ServedKeeps ==
    ASSUME IInv, UNCHANGED <<stored, changes, tab, acts>>, faults' \in 0..MaxFaults,
           StreamSound', Due(stream, notices) \subseteq Due(stream', notices'),
           Some(stream, notices) => Some(stream', notices')
    PROVE  IInv'
  <1>1. /\ Bounded /\ Sane(tab) /\ FirstRuns(tab)
        /\ Agrees(tab, Due(stream, notices), Some(stream, notices), stored)
    BY DEF IInv
  <1>2. Agrees(tab, Due(stream', notices'), Some(stream', notices'), stored)
    BY <1>1, LaterAgrees
  <1>. QED  BY <1>1, <1>2 DEF IInv, Bounded

LEMMA FaultIs ==
    ASSUME IInv, Fault
    PROVE  faults' \in 0..MaxFaults
BY BoundsAssumption DEF IInv, Bounded, Fault

LEMMA ActIs ==
    ASSUME IInv, Act
    PROVE  acts' \in 0..MaxActs
BY BoundsAssumption DEF IInv, Bounded, Act

LEMMA ApiKeeps ==
    ASSUME IInv,
           Deliver \/ LookupFails \/ LoseSubscription \/ Subscribe \/ OpenStream \/ SayReady
             \/ BreakStream
    PROVE  IInv'
  <1>1. /\ notices \in Seq(Event) /\ stream \in StreamIn /\ listens \in BOOLEAN
        /\ (~listens => stream.state \notin {"opening", "ready"}) /\ faults \in 0..MaxFaults
    BY DEF IInv, StreamSound, StreamIn, Bounded
  <1>2. ASSUME stream' \in StreamIn, stream'.state # "ready", notices' \in Seq(Event),
               listens' \in BOOLEAN, ~listens' => stream'.state # "opening",
               UNCHANGED <<stored, changes, tab, acts>>, faults' \in 0..MaxFaults
        PROVE  IInv'
    <2>1. StreamSound'  BY <1>2 DEF StreamSound, StreamIn
    <2>2. Due(stream', notices') = Threads /\ Some(stream', notices')
      BY <1>2, AllDue
    <2>. QED  BY <1>2, <2>1, <2>2, ServedKeeps DEF Due
  <1>3. CASE Deliver
    <2>1. /\ notices # <<>> /\ notices' = Tail(notices)
          /\ stream' = Delivered(stream, Head(notices))
          /\ UNCHANGED <<stored, changes, listens, tab, faults, acts>>
      BY <1>3 DEF Deliver
    <2>2. /\ stream' \in StreamIn /\ notices' \in Seq(Event)
          /\ Due(stream, notices) \subseteq Due(stream', notices') /\ Some(stream', notices')
          /\ stream.state \notin {"opening", "ready"} => stream'.state = stream.state
      BY <2>1, Delivers
    <2>3. StreamSound'  BY <1>1, <2>1, <2>2 DEF StreamSound, StreamIn
    <2>. QED  BY <1>1, <2>1, <2>2, <2>3, ServedKeeps
  <1>4. CASE LookupFails
    <2>1. /\ notices # <<>> /\ Fault /\ notices' = Tail(notices) /\ stream' = Ended(stream)
          /\ UNCHANGED <<stored, changes, listens, tab, acts>>
      BY <1>4 DEF LookupFails
    <2>2. notices' \in Seq(Event)  BY <1>1, <2>1
    <2>. QED  BY <1>1, <1>2, <2>1, <2>2, Ends, FaultIs
  <1>5. CASE LoseSubscription
    <2>1. /\ Fault /\ listens' = FALSE /\ stream' = Ended(stream)
          /\ UNCHANGED <<stored, changes, notices, tab, acts>>
      BY <1>5 DEF LoseSubscription
    <2>. QED  BY <1>1, <1>2, <2>1, Ends, FaultIs
  <1>6. CASE Subscribe
    <2>1. /\ listens' = TRUE /\ stream' = Ended(stream)
          /\ UNCHANGED <<stored, changes, notices, tab, faults, acts>>
      BY <1>6 DEF Subscribe
    <2>. QED  BY <1>1, <1>2, <2>1, Ends
  <1>7. CASE OpenStream
    <2>1. /\ stream' = [stream EXCEPT !.state = IF listens THEN "opening" ELSE "refused"]
          /\ UNCHANGED <<stored, changes, notices, listens, tab, faults, acts>>
      BY <1>7 DEF OpenStream
    <2>2. /\ stream' \in StreamIn /\ stream'.state # "ready"
          /\ ~listens => stream'.state # "opening"
      BY <1>1, <2>1 DEF StreamIn
    <2>. QED  BY <1>1, <1>2, <2>1, <2>2
  <1>8. CASE SayReady
    <2>1. /\ stream.state = "opening"
          /\ stream' = [state |-> "ready", queue |-> Append(stream.queue, StreamReady)]
          /\ UNCHANGED <<stored, changes, notices, listens, tab, faults, acts>>
      BY <1>8 DEF SayReady
    <2>2. StreamReady \in Event /\ stream.queue \in Seq(Event)
      BY <1>1 DEF StreamReady, Event, StreamIn
    <2>3. /\ Append(stream.queue, StreamReady) \in Seq(Event)
          /\ Append(stream.queue, StreamReady) # <<>>
          /\ \E i \in DOMAIN Append(stream.queue, StreamReady) :
               Append(stream.queue, StreamReady)[i] = StreamReady
      BY <2>2, QueuesAre
    <2>4. stream' \in StreamIn /\ stream'.queue = Append(stream.queue, StreamReady)
      BY <2>1, <2>3 DEF StreamIn
    <2>5. \A t : Coming(t, stream', notices')  BY <2>3, <2>4 DEF Coming, Touches
    <2>6. Due(stream', notices') = Threads /\ Some(stream', notices')
      BY <2>3, <2>4, <2>5 DEF Due, Some
    <2>7. StreamSound'  BY <1>1, <2>1, <2>4 DEF StreamSound, StreamIn
    <2>. QED  BY <1>1, <2>1, <2>6, <2>7, ServedKeeps DEF Due
  <1>9. CASE BreakStream
    <2>1. PICK kept \in {stream.queue, <<>>} : stream' = [state |-> "ended", queue |-> kept]
      BY <1>9 DEF BreakStream
    <2>2. Fault /\ UNCHANGED <<stored, changes, notices, listens, tab, acts>>
      BY <1>9 DEF BreakStream
    <2>3. kept \in Seq(Event)
      <3>1. stream.queue \in Seq(Event)  BY <1>1 DEF StreamIn
      <3>2. <<>> \in Seq(Event)  OBVIOUS
      <3>. QED  BY <2>1, <3>1, <3>2
    <2>4. stream' \in StreamIn /\ stream'.state = "ended"
      BY <2>1, <2>3 DEF StreamIn
    <2>. QED  BY <1>1, <1>2, <2>2, <2>4, FaultIs
  <1>. QED  BY <1>3, <1>4, <1>5, <1>6, <1>7, <1>8, <1>9

-----------------------------------------------------------------------------
(* The steps of the tab on its stream.                                     *)

\* What the star button predicts bears on nothing else.
LEMMA PredictingIs ==
    ASSUME NEW b, NEW w \in Tab, NEW r, r = Predicting(b, w)
    PROVE  /\ r \in Tab /\ r.view = w.view /\ r.open = w.open /\ r.recovering = w.recovering
           /\ r.first = w.first /\ r.more = w.more /\ r.pages = w.pages /\ r.rows = w.rows
           /\ r.prefetch = w.prefetch /\ r.recover = w.recover /\ r.pending = w.pending
           /\ r.shown = w.shown /\ r.detail = w.detail /\ r.details = w.details
           /\ r.counts = w.counts /\ r.healthy = w.healthy /\ r.star = w.star
           /\ r.status = w.status /\ r.steady = w.steady /\ r.job = w.job
  <1>. DEFINE p == IF HasButton(b) /\ HasButton(w) THEN w.predicted ELSE None
  <1>1. r = [w EXCEPT !.predicted = p]  BY DEF Predicting, Tab
  <1>2. p \in Prediction \cup {None}  BY DEF Tab
  <1>. HIDE DEF p
  <1>3. r \in Tab
    <2>1. Shaped(r, w)  BY <1>1, <1>2 DEF Shaped
    <2>2. TabTyped(r)  BY <1>1, <1>2 DEF Tab, TabTyped
    <2>. QED  BY <1>1, <1>2, <2>1, <2>2, TabIs
  <1>. QED  BY <1>1, <1>3 DEF Tab

LEMMA PredictingKeeps ==
    ASSUME NEW b, NEW w, Sane(w), NEW due, NEW some, NEW db, Agrees(w, due, some, db),
           NEW r, r = Predicting(b, w)
    PROVE  Sane(r) /\ Agrees(r, due, some, db)
  <1>1. w \in Tab /\ Kept(w) /\ Reconciles(w) /\ Opens(w) /\ Lists(w)
    BY DEF Sane
  <1>2. /\ r \in Tab /\ r.view = w.view /\ r.open = w.open /\ r.recovering = w.recovering
        /\ r.first = w.first /\ r.more = w.more /\ r.pages = w.pages /\ r.rows = w.rows
        /\ r.prefetch = w.prefetch /\ r.recover = w.recover /\ r.pending = w.pending
        /\ r.shown = w.shown /\ r.detail = w.detail /\ r.details = w.details
        /\ r.counts = w.counts /\ r.healthy = w.healthy /\ r.star = w.star
        /\ r.status = w.status /\ r.steady = w.steady /\ r.job = w.job
    BY <1>1, PredictingIs
  <1>3. Kept(r) /\ (Fresh(r) <=> Fresh(w)) /\ (Believes(r) <=> Believes(w))
    BY <1>1, <1>2 DEF Kept, Fresh, Believes
  <1>4. Reconciles(r)  BY <1>1, <1>2 DEF Reconciles
  <1>5. Opens(r)  BY <1>1, <1>2 DEF Opens
  <1>6. Lists(r)  BY <1>1, <1>2, <1>3 DEF Lists
  <1>7. \A t : /\ Planning(r, t) <=> Planning(w, t)
               /\ RowAgrees(r, t, db) <=> RowAgrees(w, t, db)
               /\ Patching(r, t) <=> Patching(w, t)
    BY <1>2 DEF Planning, RowAgrees, StarPends, Patching
  <1>8. /\ OpenAgrees(w, due, db) /\ CountsAgree(w, some, db)
        /\ PageAgrees(w, due, db) /\ ListAgrees(w, due, db)
    BY DEF Agrees
  <1>9. OpenAgrees(r, due, db)  BY <1>2, <1>7, <1>8 DEF OpenAgrees, FoundAgrees
  <1>10. CountsAgree(r, some, db)  BY <1>2, <1>8 DEF CountsAgree
  <1>11. PageAgrees(r, due, db)  BY <1>2, <1>3, <1>7, <1>8 DEF PageAgrees
  <1>12. ListAgrees(r, due, db)  BY <1>2, <1>7, <1>8 DEF ListAgrees
  <1>. QED  BY <1>2, <1>3, <1>4, <1>5, <1>6, <1>9, <1>10, <1>11, <1>12 DEF Sane, Agrees

\* A step whose last word is the effect of the list.
LEMMA BecomesKeeps ==
    ASSUME IInv, UNCHANGED stored, Bounded', StreamSound', NEW w, Becomes(w),
           Sane(w), Agrees(w, Due(stream', notices'), Some(stream', notices'), stored),
           \/ w.first = None /\ (w.recovering = w.view \/ Fresh(w))
           \/ w.first = tab.first
           \/ w.first = None /\ (w.open # None \/ w.open # tab.open \/ w.view # tab.view)
    PROVE  IInv'
  <1>. DEFINE x == Predicting(tab, w)
  <1>1. Sane(tab) /\ FirstRuns(tab)  BY DEF IInv
  <1>2. tab \in Tab /\ Reconciles(tab)  BY <1>1 DEF Sane
  <1>3. tab' = Listed(tab, x)  BY DEF Becomes
  <1>4. x = Predicting(tab, w) /\ w \in Tab  BY DEF Sane
  <1>. HIDE DEF x
  <1>5. Sane(x) /\ Agrees(x, Due(stream', notices'), Some(stream', notices'), stored)
    BY <1>4, PredictingKeeps
  <1>6. /\ x.first = w.first /\ x.recovering = w.recovering /\ x.view = w.view
        /\ x.pages = w.pages /\ x.open = w.open
    BY <1>4, PredictingIs
  <1>7. Fresh(x) <=> Fresh(w)  BY <1>6 DEF Fresh
  <1>8. /\ Sane(Listed(tab, x)) /\ FirstRuns(Listed(tab, x))
        /\ Agrees(Listed(tab, x), Due(stream', notices'), Some(stream', notices'), stored)
    BY <1>1, <1>2, <1>5, <1>6, <1>7, ListedKeeps
  <1>. QED  BY <1>3, <1>8 DEF IInv

LEMMA HandleReadyKeeps ==
    ASSUME IInv, HandleReady
    PROVE  IInv'
  <1>. DEFINE u == [tab EXCEPT !.streamReady = TRUE, !.errored = FALSE]
              w == RequestRecovery(u, TRUE)
  <1>1. /\ stream.queue # <<>> /\ stream' = [stream EXCEPT !.queue = Tail(@)]
        /\ Becomes(w) /\ UNCHANGED <<stored, changes, notices, listens, faults, acts>>
    BY DEF HandleReady
  <1>2. Bounded /\ StreamSound /\ tab \in Tab /\ Kept(tab)  BY DEF IInv, Sane
  <1>3. u \in Tab
    <2>1. Shaped(u, tab)  BY <1>2 DEF Shaped
    <2>2. TabTyped(u)  BY <1>2 DEF Tab, TabTyped
    <2>. QED  BY <1>2, <2>1, <2>2, TabIs
  <1>4. Kept(u)  BY <1>2 DEF Kept, Tab
  <1>5. Bounded' /\ StreamSound'
    <2>1. stream.queue \in Seq(Event) /\ stream \in StreamIn
      BY <1>2 DEF StreamSound, StreamIn
    <2>2. Tail(stream.queue) \in Seq(Event)  BY <1>1, <2>1
    <2>3. stream' \in StreamIn /\ stream'.state = stream.state
      BY <1>1, <2>1, <2>2 DEF StreamIn
    <2>. QED  BY <1>1, <1>2, <2>3 DEF Bounded, StreamSound, StreamIn
  <1>. HIDE DEF u
  <1>6. /\ Sane(w) /\ Agrees(w, Due(stream', notices'), Some(stream', notices'), stored)
        /\ w.first = None /\ w.recovering = w.view
    BY <1>3, <1>4, InterruptKeeps
  <1>. QED  BY <1>1, <1>5, <1>6, BecomesKeeps

LEMMA HandleMailboxChangeKeeps ==
    ASSUME IInv, HandleMailboxChange
    PROVE  IInv'
  <1>. DEFINE e == Head(stream.queue)
              w == Planned(tab, e)
  <1>1. /\ stream.queue # <<>> /\ e # StreamReady /\ stream' = [stream EXCEPT !.queue = Tail(@)]
        /\ Becomes(w) /\ UNCHANGED <<stored, changes, notices, listens, faults, acts>>
    BY DEF HandleMailboxChange
  <1>2. /\ Bounded /\ StreamSound /\ Sane(tab)
        /\ Agrees(tab, Due(stream, notices), Some(stream, notices), stored)
    BY DEF IInv
  <1>3. stream.queue \in Seq(Event) /\ stream \in StreamIn
    BY <1>2 DEF StreamSound, StreamIn
  <1>4. /\ Tail(stream.queue) \in Seq(Event) /\ e \in Event
        /\ \A i \in DOMAIN stream.queue :
             stream.queue[i] = e \/ \E j \in DOMAIN Tail(stream.queue) :
                                      Tail(stream.queue)[j] = stream.queue[i]
    <2>1. StreamReady \in Event  BY DEF StreamReady, Event
    <2>. QED  BY <1>1, <1>3, <2>1, QueuesAre
  <1>5. stream'.state = stream.state /\ stream'.queue = Tail(stream.queue) /\ stream' \in StreamIn
    BY <1>1, <1>3, <1>4 DEF StreamIn
  <1>6. Bounded' /\ StreamSound'
    BY <1>1, <1>2, <1>5 DEF Bounded, StreamSound, StreamIn
  <1>. HIDE DEF e, w
  <1>7. \A t \in Due(stream, notices) : t \in Due(stream', notices') \/ Touches(e, t)
    BY <1>1, <1>4, <1>5 DEF Due, Coming
  <1>8. /\ Sane(w) /\ Agrees(w, Due(stream', notices'), Some(stream', notices'), stored)
        /\ w.view = tab.view
        /\ (w.first = None /\ w.recovering = tab.view) \/ w.first = tab.first
    BY <1>1, <1>2, <1>4, <1>7, PlannedKeeps DEF w
  <1>. QED  BY <1>1, <1>6, <1>8, BecomesKeeps

LEMMA HandleErrorKeeps ==
    ASSUME IInv, HandleError
    PROVE  IInv'
  <1>1. /\ \/ stream.state = "ended" /\ stream' = NewStream
           \/ stream.state = "refused" /\ stream' = [stream EXCEPT !.state = "closed"]
        /\ tab' = [tab EXCEPT !.streamReady = FALSE, !.errored = TRUE, !.status = "waiting"]
        /\ UNCHANGED <<stored, changes, notices, listens, faults, acts>>
    BY DEF HandleError
  <1>2. /\ Bounded /\ StreamSound /\ Sane(tab) /\ FirstRuns(tab)
        /\ Agrees(tab, Due(stream, notices), Some(stream, notices), stored)
    BY DEF IInv
  <1>3. tab \in Tab /\ Kept(tab) /\ Reconciles(tab) /\ Opens(tab) /\ Lists(tab)
    BY <1>2 DEF Sane
  <1>. DEFINE due == Due(stream', notices')
              some == Some(stream', notices')
  <1>4. Agrees(tab, due, some, stored) /\ Bounded' /\ StreamSound'
    <2>1. stream \in StreamIn  BY <1>2 DEF StreamSound, StreamIn
    <2>2. stream' \in StreamIn /\ stream'.state \notin {"opening", "ready"}
      <3>1. <<>> \in Seq(Event)  OBVIOUS
      <3>2. NewStream \in StreamIn /\ NewStream.state = "connecting"
        BY <3>1 DEF StreamIn, NewStream
      <3>3. LET s == [stream EXCEPT !.state = "closed"] IN s \in StreamIn /\ s.state = "closed"
        BY <2>1 DEF StreamIn
      <3>. QED  BY <1>1, <3>2, <3>3
    <2>3. due = Threads /\ some  BY <2>2, AllDue
    <2>4. Agrees(tab, due, some, stored)  BY <1>2, <2>3, LaterAgrees DEF Due
    <2>. QED  BY <1>1, <1>2, <2>2, <2>4 DEF Bounded, StreamSound, StreamIn
  <1>5. tab' \in Tab
    <2>1. Shaped(tab', tab)  BY <1>1, <1>3 DEF Shaped
    <2>2. TabTyped(tab')  BY <1>1, <1>3 DEF Tab, TabTyped
    <2>. QED  BY <1>1, <1>3, <2>1, <2>2, TabIs
  <1>6. /\ tab'.view = tab.view /\ tab'.open = tab.open /\ tab'.recovering = tab.recovering
        /\ tab'.first = tab.first /\ tab'.more = tab.more /\ tab'.prefetch = tab.prefetch
        /\ tab'.recover = tab.recover /\ tab'.pending = tab.pending /\ tab'.shown = tab.shown
        /\ tab'.detail = tab.detail /\ tab'.rows = tab.rows /\ tab'.pages = tab.pages
        /\ tab'.details = tab.details /\ tab'.counts = tab.counts /\ tab'.star = tab.star
        /\ tab'.healthy = tab.healthy /\ tab'.status = "waiting" /\ tab'.steady = tab.steady
        /\ tab'.job = tab.job
    BY <1>1, <1>3 DEF Tab
  <1>. HIDE DEF due, some
  <1>7. Kept(tab') /\ (Fresh(tab') <=> Fresh(tab)) /\ (Believes(tab') <=> Believes(tab))
    BY <1>3, <1>6 DEF Kept, Fresh, Believes
  <1>8. Reconciles(tab') /\ Opens(tab') /\ FirstRuns(tab')
    BY <1>2, <1>3, <1>6, <1>7 DEF Reconciles, Opens, FirstRuns
  <1>9. Lists(tab')  BY <1>3, <1>6, <1>7 DEF Lists
  <1>10. /\ OpenAgrees(tab, due, stored) /\ CountsAgree(tab, some, stored)
         /\ PageAgrees(tab, due, stored) /\ ListAgrees(tab, due, stored)
    BY <1>4 DEF Agrees
  <1>11. \A t : Planning(tab', t) <=> Planning(tab, t)  BY <1>6 DEF Planning
  <1>12. \A t : /\ RowAgrees(tab', t, stored) <=> RowAgrees(tab, t, stored)
                /\ Patching(tab', t) <=> Patching(tab, t)
    BY <1>6 DEF RowAgrees, StarPends, Patching
  <1>13. OpenAgrees(tab', due, stored)
    BY <1>6, <1>10, <1>11 DEF OpenAgrees, FoundAgrees
  <1>14. CountsAgree(tab', some, stored)  BY <1>6, <1>10 DEF CountsAgree
  <1>15. PageAgrees(tab', due, stored)
    BY <1>6, <1>7, <1>10, <1>11, <1>12 DEF PageAgrees
  <1>16. ListAgrees(tab', due, stored)  BY <1>6, <1>10, <1>11 DEF ListAgrees
  <1>. QED
    BY <1>1, <1>4, <1>5, <1>7, <1>8, <1>9, <1>13, <1>14, <1>15, <1>16
    DEF IInv, Sane, Agrees, due, some

-----------------------------------------------------------------------------
(* What the database answers.                                              *)

LEMMA SummaryIs ==
    ASSUME Bounded, NEW t \in Threads
    PROVE  /\ Summary(t) \in Line /\ Position(t, stored[t]) \in (0..MaxChanges) \X Threads
           /\ Summary(t).rev = stored[t].rev /\ Summary(t).at = stored[t].at
           /\ Summary(t).star = SummaryOf(stored[t]).star
  <1>1. stored[t] \in Row  BY DEF Bounded, Mailbox
  <1>. QED  BY <1>1 DEF Row, Line, Summary, SummaryOf, Position

LEMMA SummariesAre ==
    ASSUME Bounded, NEW ids \in SUBSET Threads
    PROVE  [t \in ids |-> Summary(t)] \in Lines
  <1>1. [t \in ids |-> Summary(t)] \in [ids -> Line]  BY SummaryIs
  <1>2. [t \in ids |-> Summary(t)] \in Partial(Threads, Line)
    BY <1>1, PartialIs
  <1>. QED  BY <1>2, AllPartial

\* The rows of threads of the view, as they are stored.
Answers(read, view) ==
  /\ read \in ListRead
  /\ \A t \in DOMAIN read.rows :
       /\ t \in Threads /\ read.rows[t] = Summary(t) /\ view \in stored[t].views

LEMMA ListThreadsIs ==
    ASSUME Bounded, NEW view, NEW cursor
    PROVE  Answers(ListThreads(view, cursor), view)
  <1>. DEFINE matching == {t \in Threads :
                             /\ view \in stored[t].views
                             /\ \A p \in cursor : Newer(p, Position(t, stored[t]))}
              newer(t, ids) == {u \in ids : Newer(Position(u, stored[u]), Position(t, stored[t]))}
              page == {t \in matching : Cardinality(newer(t, matching)) < PageSize}
              oldest == {t \in page : page \ newer(t, page) = {t}}
              rows == [t \in page |-> Summary(t)]
              older == IF page = matching THEN {} ELSE {Position(t, stored[t]) : t \in oldest}
  <1>1. page \in SUBSET Threads /\ \A t \in page : view \in stored[t].views
    OBVIOUS
  <1>2. oldest \in SUBSET page  OBVIOUS
  <1>3. ListThreads(view, cursor) = [rows |-> rows, missing |-> {}, older |-> older]
    BY DEF ListThreads
  <1>. HIDE DEF page, oldest
  <1>4. rows \in Lines /\ DOMAIN rows = page /\ \A t \in page : rows[t] = Summary(t)
    BY <1>1, SummariesAre
  <1>5. older \in Cursor
    <2>1. \A t \in oldest : Position(t, stored[t]) \in (0..MaxChanges) \X Threads
      BY <1>1, <1>2, SummaryIs
    <2>. QED  BY <2>1 DEF Cursor
  <1>. HIDE DEF rows, older
  <1>6. ListThreads(view, cursor) \in ListRead /\ ListThreads(view, cursor).rows = rows
    BY <1>3, <1>4, <1>5 DEF ListRead
  <1>. QED  BY <1>1, <1>4, <1>6 DEF Answers

LEMMA ListThreadsByIdsIs ==
    ASSUME Bounded, NEW view, NEW ids \in SUBSET Threads
    PROVE  /\ Answers(ListThreadsByIds(view, ids), view)
           /\ ids \subseteq DOMAIN ListThreadsByIds(view, ids).rows
                              \cup ListThreadsByIds(view, ids).missing
  <1>. DEFINE present == {t \in ids : view \in stored[t].views}
              rows == [t \in present |-> Summary(t)]
  <1>1. present \in SUBSET Threads /\ \A t \in present : view \in stored[t].views
    OBVIOUS
  <1>2. ids \ present \in SUBSET Threads /\ {} \in Cursor  BY DEF Cursor
  <1>3. ListThreadsByIds(view, ids) = [rows |-> rows, missing |-> ids \ present, older |-> {}]
    BY DEF ListThreadsByIds
  <1>. HIDE DEF present
  <1>4. rows \in Lines /\ DOMAIN rows = present /\ \A t \in present : rows[t] = Summary(t)
    BY <1>1, SummariesAre
  <1>. HIDE DEF rows
  <1>5. /\ ListThreadsByIds(view, ids) \in ListRead /\ ListThreadsByIds(view, ids).rows = rows
        /\ ListThreadsByIds(view, ids).missing = ids \ present
    BY <1>2, <1>3, <1>4 DEF ListRead
  <1>. QED  BY <1>1, <1>4, <1>5 DEF Answers

LEMMA CountsAre ==
    /\ SidebarCounts = CountsOf(stored) /\ SidebarCounts \in [Views -> Nat]
  <1>1. \A v \in Views : Cardinality({t \in Threads : v \in stored[t].views}) \in Nat
    <2>1. ASSUME NEW v \in Views
          PROVE  IsFiniteSet({t \in Threads : v \in stored[t].views})
      BY ThreadsAssumption, FS_Subset
    <2>. QED  BY <2>1, FS_CardinalityType
  <1>. QED  BY <1>1 DEF SidebarCounts, CountsOf

-----------------------------------------------------------------------------
(* The reads of a job.                                                     *)

\* The job of a tab goes on as j, and what it has read of the counts is c.
Goes(w, j, c, db) ==
  /\ j.kind = w.job.kind /\ j.view = w.job.view /\ j.ids = w.job.ids
  /\ w.detail # None /\ w.shown.source = "mailbox" => j.awaits
  /\ w.job.failed => j.failed
  /\ j.list = Finished => w.job.list = Finished \/ j.failed
  /\ \/ j.counts = Asked \/ j.failed \/ c = CountsOf(db)
     \/ c = w.counts /\ j.counts = w.job.counts
  /\ j.list \notin {Asked, Finished} =>
       \/ j.list = w.job.list
       \/ /\ j.list.result # None
          /\ j.kind = "patch" =>
               j.ids \subseteq DOMAIN j.list.result.rows \cup j.list.result.missing
          /\ \A t \in DOMAIN j.list.result.rows :
               LineIs(j.list.result.rows[t], t, w.view, db)

Ran(w, j, c) == [w EXCEPT !.job = j, !.counts = c]

LEMMA JobKeeps ==
    ASSUME NEW w, Sane(w), w.job # None, NEW due, NEW some, NEW db, Agrees(w, due, some, db),
           NEW c \in [Views -> Nat], NEW j \in Job, Goes(w, j, c, db)
    PROVE  /\ Sane(Ran(w, j, c)) /\ Agrees(Ran(w, j, c), due, some, db)
           /\ Ran(w, j, c).first = w.first
           /\ FirstRuns(w) => FirstRuns(Ran(w, j, c))
  <1>. DEFINE r == Ran(w, j, c)
  <1>1. w \in Tab /\ Kept(w) /\ Reconciles(w) /\ Opens(w) /\ Lists(w)
    BY DEF Sane
  <1>2. r \in Tab  BY <1>1, ZenonT(60) DEF Ran, Tab
  <1>3. /\ r.view = w.view /\ r.open = w.open /\ r.recovering = w.recovering /\ r.first = w.first
        /\ r.more = w.more /\ r.prefetch = w.prefetch /\ r.recover = w.recover
        /\ r.pending = w.pending /\ r.shown = w.shown /\ r.detail = w.detail
        /\ r.rows = w.rows /\ r.pages = w.pages /\ r.details = w.details
        /\ r.counts = c /\ r.star = w.star /\ r.healthy = w.healthy
        /\ r.status = w.status /\ r.steady = w.steady /\ r.job = j
    BY <1>1 DEF Ran, Tab
  <1>4. j # None /\ j.kind \in {"recover", "patch"}  BY Nothing DEF Job
  <1>. HIDE DEF r
  <1>5. Kept(r) /\ (Fresh(r) <=> Fresh(w))  BY <1>1, <1>3 DEF Kept, Fresh
  <1>6. Believes(r) => Believes(w)  BY <1>3, <1>4 DEF Goes, Believes
  <1>7. Reconciles(r)  BY <1>1, <1>3, <1>4 DEF Goes, Reconciles
  <1>8. Opens(r)  BY <1>1, <1>3, <1>4 DEF Goes, Opens
  <1>9. Lists(r)  BY <1>1, <1>3, <1>5, <1>6 DEF Lists
  <1>10. FirstRuns(w) => FirstRuns(r)  BY <1>3, <1>5 DEF FirstRuns
  <1>11. /\ OpenAgrees(w, due, db) /\ CountsAgree(w, some, db)
         /\ PageAgrees(w, due, db) /\ ListAgrees(w, due, db)
    BY DEF Agrees
  <1>12. \A t : Planning(r, t) <=> Planning(w, t)  BY <1>3 DEF Planning
  <1>13. \A t : /\ RowAgrees(r, t, db) <=> RowAgrees(w, t, db)
                /\ Patching(w, t) => Patching(r, t) \/ j.failed
    BY <1>3, <1>4 DEF Goes, RowAgrees, StarPends, Patching
  <1>14. OpenAgrees(r, due, db)
    BY <1>3, <1>11, <1>12 DEF OpenAgrees, FoundAgrees
  <1>15. CountsAgree(r, some, db)  BY <1>3, <1>4, <1>11 DEF Goes, CountsAgree
  <1>16. PageAgrees(r, due, db)
    BY <1>3, <1>4, <1>6, <1>11, <1>12, <1>13 DEF Goes, PageAgrees
  <1>17. ListAgrees(r, due, db)  BY <1>3, <1>11, <1>12 DEF Goes, ListAgrees
  <1>. QED
    BY <1>2, <1>3, <1>5, <1>7, <1>8, <1>9, <1>10, <1>14, <1>15, <1>16, <1>17 DEF Sane, Agrees, r

LEMMA ServeListKeeps ==
    ASSUME IInv, ServeList
    PROVE  IInv'
  <1>. DEFINE read == IF tab.job.kind = "recover" THEN ListThreads(tab.job.view, {})
                      ELSE ListThreadsByIds(tab.job.view, tab.job.ids)
              l == Answered(tab.job.list, read)
              j == [tab.job EXCEPT !.list = l]
              due == Due(stream, notices)
              some == Some(stream, notices)
  <1>1. /\ tab.job # None /\ tab.job.list = Asked
        /\ tab' = [tab EXCEPT !.job.list = l]
        /\ UNCHANGED <<stored, changes, notices, listens, stream, faults, acts>>
    BY DEF ServeList
  <1>2. /\ Bounded /\ StreamSound /\ Sane(tab) /\ FirstRuns(tab) /\ Agrees(tab, due, some, stored)
    BY DEF IInv
  <1>3. tab \in Tab /\ Reconciles(tab) /\ Opens(tab)  BY <1>2 DEF Sane
  <1>4. /\ tab.job \in Job /\ tab.job.view = tab.view /\ tab.job.ids \in SUBSET Threads
        /\ tab.counts \in [Views -> Nat]
    BY <1>1, <1>3 DEF Tab, Job, Reconciles
  <1>5. /\ Answers(read, tab.view)
        /\ tab.job.kind # "recover" => tab.job.ids \subseteq DOMAIN read.rows \cup read.missing
    BY <1>2, <1>4, ListThreadsIs, ListThreadsByIdsIs
  <1>. HIDE DEF read
  <1>6. read \in ListRead /\ read # None  BY <1>5, Nothing DEF Answers
  <1>7. /\ l \in [answered: BOOLEAN, result: ListRead \cup {None}]
        /\ l.result = read
    BY <1>1, <1>6 DEF Answered, Asked
  <1>8. l \notin {Asked, Finished}  BY <1>6, <1>7 DEF Asked, Finished
  <1>. HIDE DEF l
  <1>9. j \in Job  BY <1>4, <1>7 DEF Job
  <1>10. /\ j.kind = tab.job.kind /\ j.view = tab.job.view /\ j.ids = tab.job.ids
         /\ j.awaits = tab.job.awaits /\ j.failed = tab.job.failed
         /\ j.counts = tab.job.counts /\ j.list = l
    BY <1>4 DEF Job
  <1>11. tab' = Ran(tab, j, tab.counts)  BY <1>1, <1>3 DEF Ran, Tab
  <1>. HIDE DEF j
  <1>12. \A t \in DOMAIN read.rows : LineIs(read.rows[t], t, tab.view, stored)
    BY <1>2, <1>5, SummaryIs DEF Answers, LineIs
  <1>13. tab.detail # None /\ tab.shown.source = "mailbox" => j.awaits
    BY <1>3, <1>10 DEF Opens
  <1>. HIDE DEF due, some
  <1>14. Goes(tab, j, tab.counts, stored)
    BY <1>5, <1>6, <1>7, <1>8, <1>10, <1>12, <1>13 DEF Goes
  <1>15. /\ Sane(tab') /\ Agrees(tab', due, some, stored) /\ FirstRuns(tab')
    BY <1>1, <1>2, <1>4, <1>9, <1>11, <1>14, JobKeeps
  <1>. QED  BY <1>1, <1>2, <1>15 DEF IInv, Bounded, StreamSound, due, some

\* A job whose read has failed or has read the counts.
LEMMA JobBecomes ==
    ASSUME IInv, UNCHANGED <<stored, changes, notices, listens, stream, acts>>,
           faults' \in 0..MaxFaults, tab.job # None,
           NEW c \in [Views -> Nat], NEW j \in Job, NEW w,
           w = Ran(tab, j, c), Becomes(Settled(w)),
           j.kind = tab.job.kind, j.view = tab.job.view, j.ids = tab.job.ids,
           j.awaits = tab.job.awaits, tab.job.failed => j.failed,
           j.list = tab.job.list \/ (j.list = Finished /\ j.failed),
           j.failed \/ c = CountsOf(stored)
    PROVE  IInv'
  <1>. DEFINE due == Due(stream, notices)
              some == Some(stream, notices)
  <1>1. /\ Bounded /\ StreamSound /\ Sane(tab) /\ Agrees(tab, due, some, stored)
    BY DEF IInv
  <1>2. Bounded' /\ StreamSound' /\ due = Due(stream', notices') /\ some = Some(stream', notices')
    BY <1>1 DEF Bounded, StreamSound
  <1>. HIDE DEF due, some
  <1>3. Sane(w) /\ Agrees(w, due, some, stored) /\ w.first = tab.first
    <2>1. tab.detail # None /\ tab.shown.source = "mailbox" => j.awaits
      BY <1>1 DEF Sane, Opens
    <2>2. Goes(tab, j, c, stored)  BY <2>1 DEF Goes
    <2>. QED  BY <1>1, <2>2, JobKeeps
  <1>4. /\ Sane(Settled(w)) /\ Agrees(Settled(w), due, some, stored)
        /\ \/ Settled(w).first = None /\ Settled(w).recovering = Settled(w).view
           \/ Settled(w).first = tab.first
    BY <1>3, SettledKeeps
  <1>. QED  BY <1>2, <1>4, BecomesKeeps

LEMMA ListFailsKeeps ==
    ASSUME IInv, ListFails
    PROVE  IInv'
  <1>. DEFINE j == [tab.job EXCEPT !.list = Finished, !.failed = TRUE]
              w == [tab EXCEPT !.job.list = Finished, !.job.failed = TRUE]
  <1>1. /\ tab.job # None /\ Fault /\ Becomes(Settled(w))
        /\ UNCHANGED <<stored, changes, notices, listens, stream, acts>>
    BY DEF ListFails
  <1>2. tab \in Tab  BY DEF IInv, Sane
  <1>3. tab.job \in Job /\ tab.counts \in [Views -> Nat]  BY <1>1, <1>2 DEF Tab
  <1>4. /\ j \in Job /\ j.kind = tab.job.kind /\ j.view = tab.job.view /\ j.ids = tab.job.ids
        /\ j.awaits = tab.job.awaits /\ j.failed /\ j.list = Finished
    BY <1>3, AskedIs DEF Job
  <1>5. w = Ran(tab, j, tab.counts)  BY <1>1, <1>2 DEF Ran, Tab
  <1>. HIDE DEF j, w
  <1>. QED  BY <1>1, <1>3, <1>4, <1>5, FaultIs, JobBecomes

LEMMA ReadCountsKeeps ==
    ASSUME IInv, ReadCounts
    PROVE  IInv'
  <1>. DEFINE j == [tab.job EXCEPT !.counts = Finished]
              w == [tab EXCEPT !.counts = SidebarCounts, !.job.counts = Finished]
  <1>1. /\ tab.job # None /\ Becomes(Settled(w))
        /\ UNCHANGED <<stored, changes, notices, listens, stream, faults, acts>>
    BY DEF ReadCounts
  <1>2. tab \in Tab /\ faults \in 0..MaxFaults  BY DEF IInv, Sane, Bounded
  <1>3. tab.job \in Job  BY <1>1, <1>2 DEF Tab
  <1>4. /\ j \in Job /\ j.kind = tab.job.kind /\ j.view = tab.job.view /\ j.ids = tab.job.ids
        /\ j.awaits = tab.job.awaits /\ j.failed = tab.job.failed /\ j.list = tab.job.list
    BY <1>3 DEF Job
  <1>5. w = Ran(tab, j, SidebarCounts)  BY <1>1, <1>2 DEF Ran, Tab
  <1>. HIDE DEF j, w
  <1>. QED  BY <1>1, <1>2, <1>3, <1>4, <1>5, CountsAre, JobBecomes

LEMMA CountsFailKeeps ==
    ASSUME IInv, CountsFail
    PROVE  IInv'
  <1>. DEFINE j == [tab.job EXCEPT !.counts = Finished, !.failed = TRUE]
              w == [tab EXCEPT !.job.counts = Finished, !.job.failed = TRUE]
  <1>1. /\ tab.job # None /\ Fault /\ Becomes(Settled(w))
        /\ UNCHANGED <<stored, changes, notices, listens, stream, acts>>
    BY DEF CountsFail
  <1>2. tab \in Tab  BY DEF IInv, Sane
  <1>3. tab.job \in Job /\ tab.counts \in [Views -> Nat]  BY <1>1, <1>2 DEF Tab
  <1>4. /\ j \in Job /\ j.kind = tab.job.kind /\ j.view = tab.job.view /\ j.ids = tab.job.ids
        /\ j.awaits = tab.job.awaits /\ j.failed /\ j.list = tab.job.list
    BY <1>3 DEF Job
  <1>5. w = Ran(tab, j, tab.counts)  BY <1>1, <1>2 DEF Ran, Tab
  <1>. HIDE DEF j, w
  <1>. QED  BY <1>1, <1>3, <1>4, <1>5, FaultIs, JobBecomes

-----------------------------------------------------------------------------
(* What a job has read is applied.                                         *)

\* What applying a read of the list leaves alone.
Beside(r, w) ==
  /\ r.view = w.view /\ r.open = w.open /\ r.recovering = w.recovering /\ r.first = w.first
  /\ r.more = w.more /\ r.prefetch = w.prefetch /\ r.recover = w.recover
  /\ r.pending = w.pending /\ r.shown = w.shown /\ r.detail = w.detail /\ r.details = w.details
  /\ r.counts = w.counts /\ r.star = w.star /\ r.healthy = w.healthy
  /\ r.status = w.status /\ r.job = w.job

\* Rows that no page shows are dropped.
LEMMA PrunedIs ==
    ASSUME NEW w \in Tab, Kept(w)
    PROVE  /\ Pruned(w) \in Tab /\ Kept(Pruned(w)) /\ Beside(Pruned(w), w)
           /\ Pruned(w).steady = w.steady /\ Pruned(w).pages = w.pages
           /\ \A v \in DOMAIN w.pages : \A t \in ToSet(w.pages[v].ids) :
                Pruned(w).rows[t] = w.rows[t]
  <1>. DEFINE ids == UNION {ToSet(w.pages[v].ids) : v \in DOMAIN w.pages}
              rows == Only(w.rows, ids)
  <1>1. Pruned(w) = [w EXCEPT !.rows = rows]  BY DEF Pruned, Tab
  <1>2. w.rows \in Lines  BY DEF Tab
  <1>3. rows \in Lines /\ DOMAIN rows = DOMAIN w.rows \cap ids
        /\ \A t \in DOMAIN w.rows \cap ids : rows[t] = w.rows[t]
    BY <1>2, LinesOnly, OnlyIs
  <1>4. \A v \in DOMAIN w.pages : ToSet(w.pages[v].ids) \subseteq DOMAIN w.rows \cap ids
    BY DEF Kept
  <1>. HIDE DEF ids, rows
  <1>5. Pruned(w) \in Tab  BY <1>1, <1>3 DEF Tab
  <1>6. /\ Beside(Pruned(w), w) /\ Pruned(w).steady = w.steady /\ Pruned(w).pages = w.pages
        /\ Pruned(w).rows = rows
    BY <1>1 DEF Beside, Tab
  <1>7. Kept(Pruned(w))  BY <1>3, <1>4, <1>6 DEF Kept
  <1>. QED  BY <1>3, <1>4, <1>5, <1>6, <1>7

LEMMA ReplacedIs ==
    ASSUME NEW w \in Tab, Kept(w), NEW read \in ListRead, NEW r, r = Replaced(w, w.view, read)
    PROVE  /\ r \in Tab /\ Kept(r) /\ Beside(r, w) /\ r.steady /\ Fresh(r)
           /\ ToSet(r.pages[r.view].ids) = DOMAIN read.rows
           /\ \A t \in DOMAIN read.rows : r.rows[t] = read.rows[t]
           /\ DOMAIN w.pages \subseteq DOMAIN r.pages
  <1>. DEFINE rows == Overlay(w.rows, read.rows)
              page == HydratedPage(read, rows)
              one == [v \in {w.view} |-> page]
              pages == Overlay(w.pages, one)
              u == [w EXCEPT !.rows = rows, !.steady = TRUE, !.pages = pages]
  <1>1. w.rows \in Lines /\ w.pages \in Pages /\ w.view \in Views /\ read.rows \in Lines
    BY ReadIs DEF Tab
  <1>2. /\ rows \in Lines /\ DOMAIN rows = DOMAIN w.rows \cup DOMAIN read.rows
        /\ \A t \in DOMAIN read.rows : rows[t] = read.rows[t]
    BY <1>1, LinesOverlaid
  <1>3. r = Pruned(u)  BY DEF Replaced, Tab
  <1>. HIDE DEF rows
  <1>4. page \in Page /\ ToSet(page.ids) = DOMAIN read.rows /\ ~page.stale
    BY <1>2, HydratedIs
  <1>. HIDE DEF page
  <1>5. /\ pages \in Pages /\ DOMAIN pages = DOMAIN w.pages \cup {w.view}
        /\ pages[w.view] = page /\ \A v \in DOMAIN w.pages \ {w.view} : pages[v] = w.pages[v]
    <2>1. one \in [{w.view} -> {page}]  OBVIOUS
    <2>. HIDE DEF one
    <2>. QED  BY <1>1, <1>4, <2>1, PageWritten
  <1>. HIDE DEF pages
  <1>6. u \in Tab
    <2>1. Shaped(u, w)  BY <1>2, <1>5 DEF Shaped
    <2>2. TabTyped(u)  BY <1>2, <1>5 DEF Tab, TabTyped
    <2>. QED  BY <1>2, <1>5, <2>1, <2>2, TabIs
  <1>7. Beside(u, w) /\ u.steady /\ u.rows = rows /\ u.pages = pages
    BY DEF Beside, Tab
  <1>. HIDE DEF u
  <1>8. Kept(u)  BY <1>2, <1>4, <1>5, <1>7 DEF Kept
  <1>9. /\ r \in Tab /\ Kept(r) /\ Beside(r, u) /\ r.steady = u.steady /\ r.pages = u.pages
        /\ \A v \in DOMAIN u.pages : \A t \in ToSet(u.pages[v].ids) : r.rows[t] = u.rows[t]
    BY <1>3, <1>6, <1>8, PrunedIs
  <1>10. Beside(r, w)  BY <1>7, <1>9 DEF Beside
  <1>11. r.view = w.view  BY <1>10 DEF Beside
  <1>12. w.view \in DOMAIN r.pages /\ r.pages[w.view] = page
    BY <1>5, <1>7, <1>9
  <1>13. Fresh(r)  BY <1>4, <1>11, <1>12 DEF Fresh
  <1>14. \A t \in DOMAIN read.rows : r.rows[t] = read.rows[t]
    BY <1>2, <1>4, <1>5, <1>7, <1>9
  <1>. QED  BY <1>4, <1>5, <1>7, <1>9, <1>10, <1>11, <1>12, <1>13, <1>14

LEMMA AppliedIs ==
    ASSUME NEW w \in Tab, Kept(w), NEW read \in ListRead, NEW r, r = Patched(w, w.view, read)
    PROVE  /\ r \in Tab /\ Kept(r) /\ Beside(r, w) /\ r.steady = w.steady
           /\ Fresh(r) <=> Fresh(w)
           /\ w.view \in DOMAIN w.pages =>
                ToSet(r.pages[w.view].ids)
                  \subseteq (ToSet(w.pages[w.view].ids) \ read.missing) \cup DOMAIN read.rows
           /\ w.view \in DOMAIN w.pages => \A t \in ToSet(r.pages[w.view].ids) :
                r.rows[t] = IF t \in DOMAIN read.rows THEN read.rows[t] ELSE w.rows[t]
           /\ DOMAIN w.pages = DOMAIN r.pages
  <1>. DEFINE rows == Overlay(w.rows, read.rows)
              pages == [v \in DOMAIN w.pages |->
                          IF v = w.view THEN PatchedPage(w.pages[v], read, rows)
                          ELSE TouchedPage(w.pages[v], read, rows)]
              u == [w EXCEPT !.rows = rows, !.pages = pages]
  <1>1. w.rows \in Lines /\ w.pages \in Pages /\ w.view \in Views /\ read.rows \in Lines
    BY ReadIs DEF Tab
  <1>2. /\ rows \in Lines /\ DOMAIN rows = DOMAIN w.rows \cup DOMAIN read.rows
        /\ \A t \in DOMAIN read.rows : rows[t] = read.rows[t]
        /\ \A t \in DOMAIN w.rows : t \notin DOMAIN read.rows => rows[t] = w.rows[t]
    BY <1>1, LinesOverlaid
  <1>3. r = Pruned(u)  BY DEF Patched, Tab
  <1>4. \A v \in DOMAIN w.pages : w.pages[v] \in Page /\ ToSet(w.pages[v].ids) \subseteq DOMAIN w.rows
    BY <1>1, PagesAre DEF Kept
  <1>5. DOMAIN pages = DOMAIN w.pages  OBVIOUS
  <1>6. ASSUME w.view \in DOMAIN w.pages
        PROVE  /\ pages[w.view] = PatchedPage(w.pages[w.view], read, rows)
               /\ pages[w.view] \in Page /\ pages[w.view].stale = w.pages[w.view].stale
               /\ ToSet(pages[w.view].ids)
                    \subseteq (ToSet(w.pages[w.view].ids) \ read.missing) \cup DOMAIN read.rows
    <2>1. pages[w.view] = PatchedPage(w.pages[w.view], read, rows)  BY <1>6
    <2>. HIDE DEF rows, pages
    <2>. QED  BY <1>2, <1>4, <1>6, <2>1, PatchedIs
  <1>7. ASSUME NEW v \in DOMAIN w.pages, v # w.view
        PROVE  pages[v] \in Page /\ ToSet(pages[v].ids) = ToSet(w.pages[v].ids)
    <2>1. pages[v] = TouchedPage(w.pages[v], read, rows)  BY <1>7
    <2>. HIDE DEF rows, pages
    <2>. QED  BY <1>2, <1>4, <1>7, <2>1, TouchedIs
  <1>8. pages \in Pages
    <2>1. DOMAIN w.pages \subseteq Views  BY <1>1, PagesAre
    <2>2. \A v \in DOMAIN w.pages : pages[v] \in Page  BY <1>6, <1>7
    <2>3. pages \in [DOMAIN w.pages -> Page]  BY <2>2
    <2>. HIDE DEF pages
    <2>4. pages \in Partial(Views, Page)  BY <1>5, <2>1, <2>3, PartialIs
    <2>. QED  BY <2>4, AllPartial
  <1>. HIDE DEF rows, pages
  <1>9. u \in Tab  BY <1>2, <1>8, ZenonT(60) DEF Tab
  <1>10. Beside(u, w) /\ u.steady = w.steady /\ u.rows = rows /\ u.pages = pages
    BY DEF Beside, Tab
  <1>. HIDE DEF u
  <1>11. \A v \in DOMAIN w.pages : ToSet(pages[v].ids) \subseteq DOMAIN rows
    BY <1>2, <1>4, <1>6, <1>7
  <1>12. Kept(u)  BY <1>5, <1>10, <1>11 DEF Kept
  <1>13. /\ r \in Tab /\ Kept(r) /\ Beside(r, u) /\ r.steady = u.steady /\ r.pages = u.pages
         /\ \A v \in DOMAIN u.pages : \A t \in ToSet(u.pages[v].ids) : r.rows[t] = u.rows[t]
    BY <1>3, <1>9, <1>12, PrunedIs
  <1>14. Beside(r, w) /\ r.steady = w.steady /\ r.pages = pages
    BY <1>10, <1>13 DEF Beside
  <1>15. Fresh(r) <=> Fresh(w)  BY <1>5, <1>6, <1>14 DEF Fresh, Beside
  <1>16. ASSUME w.view \in DOMAIN w.pages, NEW t \in ToSet(pages[w.view].ids)
         PROVE  r.rows[t] = IF t \in DOMAIN read.rows THEN read.rows[t] ELSE w.rows[t]
    <2>1. r.rows[t] = rows[t]  BY <1>5, <1>10, <1>13, <1>16
    <2>2. t \in DOMAIN rows  BY <1>11, <1>16
    <2>. QED  BY <1>2, <2>1, <2>2
  <1>. QED  BY <1>5, <1>6, <1>13, <1>14, <1>15, <1>16

\* The tab with what its job has read.
Applied(w) ==
  IF w.job.kind = "recover" THEN Replaced(w, w.job.view, w.job.list.result)
  ELSE Patched(w, w.job.view, w.job.list.result)

LEMMA AppliedKeeps ==
    ASSUME NEW w, Sane(w), NEW due, NEW some, NEW db, Agrees(w, due, some, db),
           w.job # None, w.job.list \notin {Asked, Finished},
           NEW k, k = [Applied(w) EXCEPT !.job.list = Finished]
    PROVE  Sane(k) /\ Agrees(k, due, some, db) /\ k.first = w.first
  <1>. DEFINE r == Applied(w)
              read == w.job.list.result
              j == [w.job EXCEPT !.list = Finished]
  <1>1. w \in Tab /\ Kept(w) /\ Reconciles(w) /\ Opens(w) /\ Lists(w)
    BY DEF Sane
  <1>2. /\ OpenAgrees(w, due, db) /\ CountsAgree(w, some, db)
        /\ PageAgrees(w, due, db) /\ ListAgrees(w, due, db)
    BY DEF Agrees
  <1>3. w.job \in Job /\ w.job.kind \in {"recover", "patch"}
    BY <1>1 DEF Tab, Job
  <1>4. w.job.view = w.view /\ (w.job.kind = "recover" => w.recovering = w.view)
    BY <1>1 DEF Reconciles
  <1>5. read # None
        /\ (w.job.kind = "patch" => w.job.ids \subseteq DOMAIN read.rows \cup read.missing)
        /\ \A t \in DOMAIN read.rows :
             LineIs(read.rows[t], t, w.view, db) \/ t \in due \/ Planning(w, t)
    BY <1>2 DEF ListAgrees
  <1>6. read \in ListRead  BY <1>3, <1>5 DEF Job
  <1>7. /\ j \in Job /\ j.kind = w.job.kind /\ j.view = w.job.view /\ j.ids = w.job.ids
        /\ j.awaits = w.job.awaits /\ j.failed = w.job.failed /\ j.counts = w.job.counts
        /\ j.list = Finished
    BY <1>3, AskedIs DEF Job
  <1>8. j # None  BY <1>7, Nothing
  <1>9. w.job.kind = "recover" => w.recovering # None /\ w.first = None /\ w.more = None
    BY <1>1, <1>4, Nothing DEF Reconciles, Tab
  <1>10. k = [r EXCEPT !.job.list = Finished]  OBVIOUS
  <1>. HIDE DEF read, r
  <1>11. CASE w.job.kind = "recover"
    <2>1. r = Replaced(w, w.view, read)  BY <1>4, <1>11 DEF r, read, Applied
    <2>2. r \in Tab /\ Beside(r, w)  BY <1>1, <1>6, <2>1, ReplacedIs
    <2>3. /\ Kept(r) /\ r.steady /\ Fresh(r)
          /\ ToSet(r.pages[r.view].ids) = DOMAIN read.rows
          /\ \A t \in DOMAIN read.rows : r.rows[t] = read.rows[t]
      BY <1>1, <1>6, <2>1, ReplacedIs
    <2>4. k = [r EXCEPT !.job = j]  BY <1>10, <2>2 DEF Beside, Tab
    <2>. HIDE DEF j
    <2>5. k \in Tab
      <3>1. Shaped(k, r)  BY <1>7, <2>2, <2>4 DEF Shaped
      <3>2. TabTyped(k)  BY <1>7, <2>2, <2>4 DEF Tab, TabTyped
      <3>. QED  BY <1>7, <2>2, <2>4, <3>1, <3>2, TabIs
    <2>6. /\ k.view = w.view /\ k.open = w.open /\ k.recovering = w.recovering
          /\ k.first = w.first /\ k.more = w.more /\ k.prefetch = w.prefetch
          /\ k.recover = w.recover /\ k.pending = w.pending /\ k.shown = w.shown
          /\ k.detail = w.detail /\ k.rows = r.rows /\ k.pages = r.pages
          /\ k.details = w.details /\ k.counts = w.counts /\ k.star = w.star
          /\ k.healthy = w.healthy /\ k.status = w.status /\ k.steady = r.steady /\ k.job = j
      BY <2>2, <2>4 DEF Beside, Tab
    <2>7. r.view = w.view  BY <2>2 DEF Beside
    <2>8. Kept(k) /\ Fresh(k)  BY <2>3, <2>6, <2>7 DEF Kept, Fresh
    <2>9. Reconciles(k)  BY <1>1, <1>7, <1>8, <2>6 DEF Reconciles
    <2>10. Opens(k)  BY <1>1, <1>7, <1>8, <2>6 DEF Opens
    <2>11. Lists(k)  BY <1>9, <1>11, <2>6, <2>8 DEF Lists
    <2>12. \A t : Planning(k, t) <=> Planning(w, t)  BY <2>6 DEF Planning
    <2>13. OpenAgrees(k, due, db)
      BY <1>2, <2>6, <2>12 DEF OpenAgrees, FoundAgrees
    <2>14. CountsAgree(k, some, db)  BY <1>2, <1>7, <1>8, <2>6 DEF CountsAgree
    <2>15. \A t \in DOMAIN read.rows : LineIs(read.rows[t], t, w.view, db) => RowAgrees(k, t, db)
      BY <2>3, <2>6 DEF LineIs, RowAgrees
    <2>16. PageAgrees(k, due, db)
      BY <1>5, <2>3, <2>6, <2>7, <2>12, <2>15 DEF PageAgrees
    <2>17. ListAgrees(k, due, db)  BY <1>7, <2>6 DEF ListAgrees
    <2>. QED  BY <2>5, <2>6, <2>8, <2>9, <2>10, <2>11, <2>13, <2>14, <2>16, <2>17 DEF Sane, Agrees
  <1>12. CASE w.job.kind = "patch"
    <2>1. r = Patched(w, w.view, read)  BY <1>4, <1>12 DEF r, read, Applied
    <2>2. /\ r \in Tab /\ Kept(r) /\ Beside(r, w) /\ r.steady = w.steady
          /\ (Fresh(r) <=> Fresh(w)) /\ DOMAIN w.pages = DOMAIN r.pages
          /\ w.view \in DOMAIN w.pages =>
               /\ ToSet(r.pages[w.view].ids)
                    \subseteq (ToSet(w.pages[w.view].ids) \ read.missing) \cup DOMAIN read.rows
               /\ \A t \in ToSet(r.pages[w.view].ids) :
                    r.rows[t] = IF t \in DOMAIN read.rows THEN read.rows[t] ELSE w.rows[t]
      BY <1>1, <1>6, <2>1, AppliedIs
    <2>3. k = [r EXCEPT !.job = j]  BY <1>10, <2>2 DEF Beside, Tab
    <2>. HIDE DEF j
    <2>4. k \in Tab
      <3>1. Shaped(k, r)  BY <1>7, <2>2, <2>3 DEF Shaped
      <3>2. TabTyped(k)  BY <1>7, <2>2, <2>3 DEF Tab, TabTyped
      <3>. QED  BY <1>7, <2>2, <2>3, <3>1, <3>2, TabIs
    <2>5. /\ k.view = w.view /\ k.open = w.open /\ k.recovering = w.recovering
          /\ k.first = w.first /\ k.more = w.more /\ k.prefetch = w.prefetch
          /\ k.recover = w.recover /\ k.pending = w.pending /\ k.shown = w.shown
          /\ k.detail = w.detail /\ k.rows = r.rows /\ k.pages = r.pages
          /\ k.details = w.details /\ k.counts = w.counts /\ k.star = w.star
          /\ k.healthy = w.healthy /\ k.status = w.status /\ k.steady = w.steady /\ k.job = j
      BY <2>2, <2>3 DEF Beside, Tab
    <2>6. r.view = w.view  BY <2>2 DEF Beside
    <2>7. Kept(k) /\ (Fresh(k) <=> Fresh(w))
      BY <2>2, <2>5, <2>6 DEF Kept, Fresh
    <2>8. Reconciles(k)  BY <1>1, <1>7, <1>8, <2>5 DEF Reconciles
    <2>9. Opens(k)  BY <1>1, <1>7, <1>8, <2>5 DEF Opens
    <2>10. Believes(k) <=> Believes(w)  BY <1>7, <1>8, <1>12, <2>5 DEF Believes
    <2>11. Lists(k)  BY <1>1, <2>2, <2>5, <2>7, <2>10 DEF Lists
    <2>12. \A t : Planning(k, t) <=> Planning(w, t)  BY <2>5 DEF Planning
    <2>13. OpenAgrees(k, due, db)
      BY <1>2, <2>5, <2>12 DEF OpenAgrees, FoundAgrees
    <2>14. CountsAgree(k, some, db)  BY <1>2, <1>7, <1>8, <2>5 DEF CountsAgree
    <2>15. Believes(w) => w.view \in DOMAIN w.pages  BY <1>1 DEF Lists, Fresh
    <2>16. ASSUME Believes(k), NEW t \in ToSet(k.pages[k.view].ids), t \in DOMAIN read.rows
           PROVE  RowAgrees(k, t, db) \/ t \in due \/ Planning(k, t)
      <3>1. k.rows[t] = read.rows[t]  BY <2>2, <2>5, <2>10, <2>15, <2>16
      <3>2. LineIs(read.rows[t], t, w.view, db) => RowAgrees(k, t, db)
        BY <2>5, <3>1 DEF LineIs, RowAgrees
      <3>. QED  BY <1>5, <2>12, <2>16, <3>2
    <2>17. ASSUME Believes(k), NEW t \in ToSet(k.pages[k.view].ids), t \notin DOMAIN read.rows
           PROVE  \/ RowAgrees(k, t, db) \/ t \in due \/ Planning(k, t)
                  \/ k.job # None /\ k.job.failed
      <3>1. t \in ToSet(w.pages[w.view].ids) /\ t \notin read.missing
        BY <2>2, <2>5, <2>10, <2>15, <2>17
      <3>2. k.rows[t] = w.rows[t]  BY <2>2, <2>5, <2>10, <2>15, <2>17
      <3>3. ~Patching(w, t)  BY <1>5, <1>12, <2>17, <3>1 DEF Patching
      <3>4. RowAgrees(w, t, db) => RowAgrees(k, t, db)
        BY <2>5, <3>2 DEF RowAgrees, StarPends
      <3>. QED  BY <1>2, <1>7, <1>8, <2>5, <2>10, <2>12, <2>17, <3>1, <3>3, <3>4 DEF PageAgrees
    <2>18. PageAgrees(k, due, db)  BY <2>16, <2>17 DEF PageAgrees
    <2>19. ListAgrees(k, due, db)  BY <1>7, <2>5 DEF ListAgrees
    <2>. QED  BY <2>4, <2>5, <2>7, <2>8, <2>9, <2>11, <2>13, <2>14, <2>18, <2>19 DEF Sane, Agrees
  <1>. QED  BY <1>3, <1>11, <1>12

LEMMA ListArrivesKeeps ==
    ASSUME IInv, ListArrives
    PROVE  IInv'
  <1>. DEFINE w == [Applied(tab) EXCEPT !.job.list = Finished]
              due == Due(stream, notices)
              some == Some(stream, notices)
  <1>1. /\ tab.job # None /\ tab.job.list \notin {Asked, Finished} /\ Becomes(Settled(w))
        /\ UNCHANGED <<stored, changes, notices, listens, stream, faults, acts>>
    BY DEF ListArrives, Applied
  <1>2. /\ Bounded /\ StreamSound /\ Sane(tab) /\ Agrees(tab, due, some, stored)
    BY DEF IInv
  <1>3. Bounded' /\ StreamSound' /\ due = Due(stream', notices') /\ some = Some(stream', notices')
    BY <1>1, <1>2 DEF Bounded, StreamSound
  <1>. HIDE DEF due, some
  <1>4. Sane(w) /\ Agrees(w, due, some, stored) /\ w.first = tab.first
    <2>1. w = [Applied(tab) EXCEPT !.job.list = Finished]  OBVIOUS
    <2>. HIDE DEF w
    <2>. QED  BY <1>1, <1>2, <2>1, AppliedKeeps
  <1>. HIDE DEF w
  <1>5. /\ Sane(Settled(w)) /\ Agrees(Settled(w), due, some, stored)
        /\ \/ Settled(w).first = None /\ Settled(w).recovering = Settled(w).view
           \/ Settled(w).first = tab.first
    BY <1>4, SettledKeeps
  <1>. QED  BY <1>1, <1>3, <1>5, BecomesKeeps

-----------------------------------------------------------------------------
(* The reader.                                                             *)

\* The tab w with what is opened, shown and read of it changed.
Reads(w, o, s, a, p, d) ==
  [w EXCEPT !.open = o, !.shown = s, !.detail = a, !.prefetch = p, !.details = d]

Readable(o, s, a, p, d) ==
  /\ o \in Threads \cup {None} /\ s \in Reader \cup {None}
  /\ a \in ThreadRead \cup {None} /\ p \in ThreadRead \cup {None} /\ d \in Lines

LEMMA ReaderIs ==
    ASSUME NEW w \in Tab, NEW o, NEW s, NEW a, NEW p, NEW d, Readable(o, s, a, p, d),
           NEW r, r = Reads(w, o, s, a, p, d)
    PROVE  /\ r \in Tab
           /\ r.open = o /\ r.shown = s /\ r.detail = a /\ r.prefetch = p /\ r.details = d
           /\ r.view = w.view /\ r.recovering = w.recovering /\ r.first = w.first
           /\ r.more = w.more /\ r.recover = w.recover /\ r.pending = w.pending
           /\ r.rows = w.rows /\ r.pages = w.pages /\ r.counts = w.counts /\ r.star = w.star
           /\ r.healthy = w.healthy /\ r.status = w.status /\ r.steady = w.steady
           /\ r.job = w.job
  <1>1. r = [w EXCEPT !.open = o, !.shown = s, !.detail = a, !.prefetch = p, !.details = d]
    BY DEF Reads
  <1>2. r \in Tab
    <2>1. Shaped(r, w)  BY <1>1 DEF Readable, Shaped
    <2>2. TabTyped(r)  BY <1>1 DEF Tab, Readable, TabTyped
    <2>. QED  BY <1>1, <2>1, <2>2, TabIs
  <1>3. r.open = o /\ r.shown = s /\ r.detail = a /\ r.prefetch = p /\ r.details = d
    BY <1>1 DEF Tab
  <1>4. /\ r.view = w.view /\ r.recovering = w.recovering /\ r.first = w.first
        /\ r.more = w.more /\ r.recover = w.recover /\ r.pending = w.pending
        /\ r.rows = w.rows /\ r.pages = w.pages /\ r.counts = w.counts /\ r.star = w.star
        /\ r.healthy = w.healthy /\ r.status = w.status /\ r.steady = w.steady
        /\ r.job = w.job
    BY <1>1 DEF Tab
  <1>. QED  BY <1>2, <1>3, <1>4

LEMMA ReaderKeeps ==
    ASSUME NEW w, Sane(w), NEW due, NEW some, NEW db, Agrees(w, due, some, db),
           NEW o, NEW s, NEW a, NEW p, NEW d, Readable(o, s, a, p, d),
           NEW r, r = Reads(w, o, s, a, p, d),
           Opens(r), OpenAgrees(r, due, db)
    PROVE  /\ Sane(r) /\ Agrees(r, due, some, db) /\ r.first = w.first
           /\ FirstRuns(w) /\ o = w.open => FirstRuns(r)
  <1>1. w \in Tab /\ Kept(w) /\ Reconciles(w) /\ Lists(w)  BY DEF Sane
  <1>2. /\ CountsAgree(w, some, db) /\ PageAgrees(w, due, db) /\ ListAgrees(w, due, db)
    BY DEF Agrees
  <1>3. r \in Tab  BY <1>1, ReaderIs
  <1>4. /\ r.view = w.view /\ r.recovering = w.recovering /\ r.first = w.first
        /\ r.more = w.more /\ r.recover = w.recover /\ r.pending = w.pending
        /\ r.rows = w.rows /\ r.pages = w.pages /\ r.counts = w.counts /\ r.star = w.star
        /\ r.healthy = w.healthy /\ r.status = w.status /\ r.steady = w.steady /\ r.job = w.job
    BY <1>1, ReaderIs
  <1>5. Kept(r) /\ (Fresh(r) <=> Fresh(w)) /\ (Believes(r) <=> Believes(w))
    BY <1>1, <1>4 DEF Kept, Fresh, Believes
  <1>6. Reconciles(r)  BY <1>1, <1>4 DEF Reconciles
  <1>7. Lists(r)  BY <1>1, <1>4, <1>5 DEF Lists
  <1>8. FirstRuns(w) /\ o = w.open => FirstRuns(r)  BY <1>1, <1>4, <1>5, ReaderIs DEF FirstRuns
  <1>9. \A t : Planning(r, t) <=> Planning(w, t)  BY <1>4 DEF Planning
  <1>10. \A t : (RowAgrees(r, t, db) <=> RowAgrees(w, t, db)) /\ (Patching(r, t) <=> Patching(w, t))
    BY <1>4 DEF RowAgrees, StarPends, Patching
  <1>11. CountsAgree(r, some, db)  BY <1>2, <1>4 DEF CountsAgree
  <1>12. PageAgrees(r, due, db)  BY <1>2, <1>4, <1>5, <1>9, <1>10 DEF PageAgrees
  <1>13. ListAgrees(r, due, db)  BY <1>2, <1>4, <1>9 DEF ListAgrees
  <1>. QED  BY <1>3, <1>4, <1>5, <1>6, <1>7, <1>8, <1>11, <1>12, <1>13 DEF Sane, Agrees

\* A job that no longer waits for the read of the opened thread.
LEMMA AwaitedKeeps ==
    ASSUME NEW w, Sane(w), NEW due, NEW some, NEW db, Agrees(w, due, some, db),
           w.detail = None, w.shown.source = "mailbox" => w.job # None,
           NEW failed \in BOOLEAN
    PROVE  /\ Sane(Awaited(w, failed)) /\ Agrees(Awaited(w, failed), due, some, db)
           /\ \/ Awaited(w, failed).first = None /\ Awaited(w, failed).recovering = Awaited(w, failed).view
              \/ Awaited(w, failed).first = w.first
  <1>1. CASE w.shown.source # "mailbox"  BY <1>1 DEF Awaited
  <1>2. CASE w.shown.source = "mailbox"
    <2>. DEFINE f == w.job.failed \/ failed
                j == [w.job EXCEPT !.awaits = FALSE, !.failed = f]
                k == Ran(w, j, w.counts)
    <2>1. w \in Tab /\ w.job # None  BY <1>2 DEF Sane
    <2>2. w.job \in Job /\ w.counts \in [Views -> Nat]  BY <2>1 DEF Tab
    <2>3. f \in BOOLEAN  BY <2>2 DEF Job
    <2>4. w.job.failed => f  OBVIOUS
    <2>5. Awaited(w, failed) = Settled(k)  BY <1>2, <2>1 DEF Awaited, Ran, Tab
    <2>. HIDE DEF f
    <2>6. /\ j \in Job /\ j.kind = w.job.kind /\ j.view = w.job.view /\ j.ids = w.job.ids
          /\ j.list = w.job.list /\ j.counts = w.job.counts /\ j.failed = f
      BY <2>2, <2>3 DEF Job
    <2>. HIDE DEF j
    <2>7. Goes(w, j, w.counts, db)  BY <2>4, <2>6 DEF Goes
    <2>8. Sane(k) /\ Agrees(k, due, some, db) /\ k.first = w.first
      BY <2>1, <2>2, <2>6, <2>7, JobKeeps
    <2>. HIDE DEF k
    <2>. QED  BY <2>5, <2>8, SettledKeeps
  <1>. QED  BY <1>1, <1>2

-----------------------------------------------------------------------------
(* The steps of the reader's reads.                                        *)

LEMMA AnsweredIs ==
    ASSUME NEW read \in ThreadRead, NEW result \in Line \cup {None}
    PROVE  /\ Answered(read, result) \in ThreadRead /\ Answered(read, result).answered
           /\ Answered(read, result).result = result
           /\ Answered(read, result).thread = read.thread
BY DEF Answered, ThreadRead

LEMMA ThreadDetailIs ==
    ASSUME Bounded, NEW t \in Threads
    PROVE  /\ ThreadDetail(t) \in Line \cup {None} /\ FoundIs(ThreadDetail(t), t, stored)
  <1>1. stored[t] \in Row  BY DEF Bounded, Mailbox
  <1>2. DetailOf(stored[t]) \in Line  BY <1>1 DEF DetailOf, Row, Line
  <1>. QED  BY <1>2 DEF ThreadDetail, FoundIs

\* A step of the tab that leaves the API and the mailbox alone.
LEMMA ReadsKeeps ==
    ASSUME IInv, UNCHANGED <<stored, changes, notices, listens, stream>>,
           faults' \in 0..MaxFaults, acts' \in 0..MaxActs,
           Sane(tab'), FirstRuns(tab'),
           Agrees(tab', Due(stream, notices), Some(stream, notices), stored)
    PROVE  IInv'
BY DEF IInv, Bounded, StreamSound

LEMMA ServeDetailKeeps ==
    ASSUME IInv, ServeDetail
    PROVE  IInv'
  <1>. DEFINE a == Answered(tab.detail, ThreadDetail(tab.detail.thread))
              due == Due(stream, notices)
              some == Some(stream, notices)
  <1>1. /\ tab.detail # None /\ tab' = [tab EXCEPT !.detail = a]
        /\ UNCHANGED <<stored, changes, notices, listens, stream, faults, acts>>
    BY DEF ServeDetail
  <1>2. Bounded /\ Sane(tab) /\ FirstRuns(tab) /\ Agrees(tab, due, some, stored)
    BY DEF IInv
  <1>3. tab \in Tab /\ Opens(tab)  BY <1>2 DEF Sane
  <1>4. tab.detail \in ThreadRead /\ tab.detail.thread \in Threads /\ tab.detail.thread = tab.open
    BY <1>1, <1>3 DEF Tab, ThreadRead, Opens
  <1>5. /\ a \in ThreadRead /\ a # None /\ a.thread = tab.open
        /\ FoundIs(a.result, tab.open, stored)
    BY <1>2, <1>4, AnsweredIs, ThreadDetailIs, Nothing
  <1>. HIDE DEF a, due, some
  <1>. DEFINE r == Reads(tab, tab.open, tab.shown, a, tab.prefetch, tab.details)
  <1>6. Readable(tab.open, tab.shown, a, tab.prefetch, tab.details)
    BY <1>3, <1>5 DEF Tab, Readable
  <1>7. tab' = r  BY <1>1, <1>3 DEF Reads, Tab
  <1>8. r = Reads(tab, tab.open, tab.shown, a, tab.prefetch, tab.details)
    OBVIOUS
  <1>. HIDE DEF r
  <1>9. /\ r.open = tab.open /\ r.shown = tab.shown /\ r.detail = a
        /\ r.prefetch = tab.prefetch /\ r.details = tab.details /\ r.job = tab.job
        /\ r.recover = tab.recover /\ r.pending = tab.pending
    BY <1>3, <1>6, <1>8, ReaderIs
  <1>10. Opens(r)  BY <1>1, <1>3, <1>5, <1>9 DEF Opens
  <1>11. OpenAgrees(tab, due, stored)  BY <1>2 DEF Agrees
  <1>12. OpenAgrees(r, due, stored)
    BY <1>5, <1>9, <1>11 DEF OpenAgrees, FoundAgrees, Planning
  <1>13. Sane(r) /\ Agrees(r, due, some, stored) /\ FirstRuns(r)
    BY <1>2, <1>6, <1>10, <1>12, <1>8, ReaderKeeps
  <1>14. faults' \in 0..MaxFaults /\ acts' \in 0..MaxActs
    BY <1>1, <1>2 DEF Bounded
  <1>. QED  BY <1>1, <1>7, <1>13, <1>14, ReadsKeeps DEF due, some

LEMMA ServePrefetchKeeps ==
    ASSUME IInv, ServePrefetch
    PROVE  IInv'
  <1>. DEFINE p == Answered(tab.prefetch, ThreadDetail(tab.prefetch.thread))
              due == Due(stream, notices)
              some == Some(stream, notices)
  <1>1. /\ tab.prefetch # None /\ tab' = [tab EXCEPT !.prefetch = p]
        /\ UNCHANGED <<stored, changes, notices, listens, stream, faults, acts>>
    BY DEF ServePrefetch
  <1>2. Bounded /\ Sane(tab) /\ FirstRuns(tab) /\ Agrees(tab, due, some, stored)
    BY DEF IInv
  <1>3. tab \in Tab /\ Opens(tab)  BY <1>2 DEF Sane
  <1>4. tab.prefetch \in ThreadRead /\ tab.prefetch.thread \in Threads
    BY <1>1, <1>3 DEF Tab, ThreadRead
  <1>5. p \in ThreadRead /\ p # None /\ FoundIs(p.result, p.thread, stored)
    BY <1>2, <1>4, AnsweredIs, ThreadDetailIs, Nothing
  <1>. HIDE DEF p, due, some
  <1>. DEFINE r == Reads(tab, tab.open, tab.shown, tab.detail, p, tab.details)
  <1>6. Readable(tab.open, tab.shown, tab.detail, p, tab.details)
    BY <1>3, <1>5 DEF Tab, Readable
  <1>7. tab' = r  BY <1>1, <1>3 DEF Reads, Tab
  <1>8. r = Reads(tab, tab.open, tab.shown, tab.detail, p, tab.details)  OBVIOUS
  <1>. HIDE DEF r
  <1>9. /\ r.open = tab.open /\ r.shown = tab.shown /\ r.detail = tab.detail
        /\ r.prefetch = p /\ r.details = tab.details /\ r.job = tab.job
        /\ r.recover = tab.recover /\ r.pending = tab.pending
    BY <1>3, <1>6, <1>8, ReaderIs
  <1>10. Opens(r)  BY <1>3, <1>9 DEF Opens
  <1>11. OpenAgrees(tab, due, stored)  BY <1>2 DEF Agrees
  <1>12. OpenAgrees(r, due, stored)
    BY <1>5, <1>9, <1>11 DEF OpenAgrees, FoundAgrees, Planning
  <1>13. Sane(r) /\ Agrees(r, due, some, stored) /\ FirstRuns(r)
    BY <1>2, <1>6, <1>10, <1>12, <1>8, ReaderKeeps
  <1>14. faults' \in 0..MaxFaults /\ acts' \in 0..MaxActs
    BY <1>1, <1>2 DEF Bounded
  <1>. QED  BY <1>1, <1>7, <1>13, <1>14, ReadsKeeps DEF due, some

\* The version of a thread that has been found, or no longer any.
LEMMA KnownIs ==
    ASSUME NEW w \in Tab, NEW t \in Threads, NEW rev \in Line \cup {None}
    PROVE  /\ Known(w, t, rev) \in Lines
           /\ rev # None => t \in DOMAIN Known(w, t, rev) /\ Known(w, t, rev)[t] = rev
           /\ \A u \in DOMAIN w.details : u # t =>
                u \in DOMAIN Known(w, t, rev) /\ Known(w, t, rev)[u] = w.details[u]
  <1>1. w.details \in Lines /\ DOMAIN w.details \subseteq Threads
    BY PartialIs, AllPartial DEF Tab
  <1>2. CASE rev = None
    <2>1. Known(w, t, rev) = Only(w.details, Threads \ {t})  BY <1>2 DEF Known
    <2>2. /\ DOMAIN Only(w.details, Threads \ {t}) = DOMAIN w.details \cap (Threads \ {t})
          /\ \A u \in DOMAIN w.details \cap (Threads \ {t}) :
               Only(w.details, Threads \ {t})[u] = w.details[u]
      BY OnlyIs
    <2>3. Known(w, t, rev) \in Lines  BY <1>1, <2>1, LinesOnly
    <2>. QED  BY <1>1, <1>2, <2>1, <2>2, <2>3
  <1>3. CASE rev # None
    <2>. DEFINE one == [u \in {t} |-> rev]
                d == w.details
    <2>1. Known(w, t, rev) = Overlay(d, one)  BY <1>3 DEF Known
    <2>2. Version(one, t, rev)  BY <1>3 DEF Version
    <2>3. d \in Lines /\ d = w.details  BY <1>1
    <2>. HIDE DEF one, d
    <2>4. Overlay(d, one) \in Lines  BY <2>2, <2>3, VersionWritten
    <2>5. /\ DOMAIN Overlay(d, one) = DOMAIN d \cup DOMAIN one
          /\ \A x \in DOMAIN one : Overlay(d, one)[x] = one[x]
          /\ \A x \in DOMAIN d : x \notin DOMAIN one => Overlay(d, one)[x] = d[x]
      BY OverlayIs
    <2>6. DOMAIN one = {t} /\ one[t] = rev  BY <2>2 DEF Version
    <2>. QED  BY <2>1, <2>3, <2>4, <2>5, <2>6
  <1>. QED  BY <1>2, <1>3

-----------------------------------------------------------------------------
(* What the reader's reads find, and what the reader opens.                *)

\* A step that changes the reader's part of the tab alone.
LEMMA ReaderStepKeeps ==
    ASSUME IInv, UNCHANGED <<stored, changes, notices, listens, stream>>,
           faults' \in 0..MaxFaults, acts' \in 0..MaxActs,
           NEW o, NEW s, NEW a, NEW p, NEW d, Readable(o, s, a, p, d),
           o = tab.open, NEW r, r = Reads(tab, o, s, a, p, d), tab' = r,
           Opens(r), OpenAgrees(r, Due(stream, notices), stored)
    PROVE  IInv'
  <1>. DEFINE due == Due(stream, notices)
              some == Some(stream, notices)
  <1>1. Sane(tab) /\ FirstRuns(tab) /\ Agrees(tab, due, some, stored)
    BY DEF IInv
  <1>2. OpenAgrees(r, due, stored)  OBVIOUS
  <1>. HIDE DEF due, some
  <1>3. Sane(r) /\ Agrees(r, due, some, stored) /\ FirstRuns(r)
    BY <1>1, <1>2, ReaderKeeps
  <1>4. Sane(tab') /\ Agrees(tab', due, some, stored) /\ FirstRuns(tab')
    BY <1>3
  <1>. QED  BY <1>4, ReadsKeeps DEF due, some

\* The read of the opened thread is over.
LEMMA ReadOverKeeps ==
    ASSUME IInv, UNCHANGED <<stored, changes, notices, listens, stream>>,
           faults' \in 0..MaxFaults, acts' \in 0..MaxActs,
           tab.detail # None,
           NEW s \in Reader, s.thread = tab.shown.thread, s.source = tab.shown.source,
           s.load # "loading", NEW d \in Lines, NEW failed \in BOOLEAN,
           NEW r, r = Reads(tab, tab.open, s, None, tab.prefetch, d),
           s.load = "available" =>
             /\ tab.open \in DOMAIN d
             /\ \/ FoundIs(d[tab.open], tab.open, stored) \/ tab.open \in Due(stream, notices)
                \/ Planning(tab, tab.open),
           Becomes(Awaited(r, failed))
    PROVE  IInv'
  <1>. DEFINE due == Due(stream, notices)
              some == Some(stream, notices)
              w == Awaited(r, failed)
  <1>1. Sane(tab) /\ Agrees(tab, due, some, stored) /\ Bounded /\ StreamSound
    BY DEF IInv
  <1>2. tab \in Tab /\ Opens(tab) /\ OpenAgrees(tab, due, stored)
    BY <1>1 DEF Sane, Agrees
  <1>3. Readable(tab.open, s, None, tab.prefetch, d)  BY <1>2 DEF Tab, Readable
  <1>4. /\ r.open = tab.open /\ r.shown = s /\ r.detail = None
        /\ r.prefetch = tab.prefetch /\ r.details = d /\ r.job = tab.job
        /\ r.recover = tab.recover /\ r.pending = tab.pending /\ r.first = tab.first
    BY <1>2, <1>3, ReaderIs
  <1>5. s # None  BY Nothing
  <1>6. Opens(r)  BY <1>2, <1>4, <1>5 DEF Opens
  <1>7. s.load = "available" =>
          /\ tab.open \in DOMAIN d
          /\ \/ FoundIs(d[tab.open], tab.open, stored) \/ tab.open \in due \/ Planning(tab, tab.open)
    OBVIOUS
  <1>8. \A t : Planning(r, t) <=> Planning(tab, t)  BY <1>4 DEF Planning
  <1>9. Becomes(w)  OBVIOUS
  <1>. HIDE DEF due, some
  <1>10. OpenAgrees(r, due, stored)
    BY <1>2, <1>4, <1>7, <1>8 DEF OpenAgrees, FoundAgrees
  <1>11. Sane(r) /\ Agrees(r, due, some, stored)
    BY <1>1, <1>3, <1>6, <1>10, ReaderKeeps
  <1>12. r.shown.source = "mailbox" => r.job # None  BY <1>2, <1>4 DEF Opens
  <1>13. /\ Sane(w) /\ Agrees(w, due, some, stored)
         /\ (w.first = None /\ w.recovering = w.view) \/ w.first = tab.first
    BY <1>4, <1>11, <1>12, AwaitedKeeps
  <1>. HIDE DEF w
  <1>14. Bounded' /\ StreamSound'  BY <1>1 DEF Bounded, StreamSound
  <1>15. Agrees(w, Due(stream', notices'), Some(stream', notices'), stored)
    BY <1>13 DEF due, some
  <1>. QED  BY <1>9, <1>13, <1>14, <1>15, BecomesKeeps

LEMMA DetailArrivesKeeps ==
    ASSUME IInv, DetailArrives
    PROVE  IInv'
  <1>. DEFINE t == tab.detail.thread
              rev == tab.detail.result
              s == [tab.shown EXCEPT !.load = IF rev = None THEN "missing" ELSE "available"]
              d == Known(tab, t, rev)
              r == Reads(tab, tab.open, s, None, tab.prefetch, d)
  <1>1. Sane(tab) /\ Agrees(tab, Due(stream, notices), Some(stream, notices), stored) /\ Bounded
    BY DEF IInv
  <1>2. tab \in Tab /\ Opens(tab) /\ OpenAgrees(tab, Due(stream, notices), stored)
    BY <1>1 DEF Sane, Agrees
  <1>3. /\ tab.detail # None /\ tab.detail.answered
        /\ UNCHANGED <<stored, changes, notices, listens, stream, faults, acts>>
    BY DEF DetailArrives
  <1>4. [tab EXCEPT !.detail = None, !.details = d,
                    !.shown.load = IF rev = None THEN "missing" ELSE "available"] = r
    BY <1>2 DEF Tab, Reads
  <1>5. Becomes(Awaited(r, FALSE))  BY <1>4 DEF DetailArrives
  <1>6. t \in Threads /\ rev \in Line \cup {None} /\ t = tab.open
    BY <1>2, <1>3 DEF Tab, Opens, ThreadRead
  <1>7. tab.shown \in Reader  BY <1>2, <1>3 DEF Tab, Opens
  <1>8. /\ s \in Reader /\ s.thread = tab.shown.thread /\ s.source = tab.shown.source
        /\ s.load # "loading" /\ (s.load = "available" => rev # None)
    BY <1>7 DEF Reader
  <1>. HIDE DEF t, rev, s
  <1>9. d \in Lines /\ (rev # None => t \in DOMAIN d /\ d[t] = rev)
    BY <1>2, <1>6, KnownIs
  <1>10. \/ FoundIs(rev, tab.open, stored) \/ tab.open \in Due(stream, notices)
         \/ Planning(tab, tab.open)
    BY <1>2, <1>3, <1>6 DEF OpenAgrees, FoundAgrees, t, rev
  <1>11. s.load = "available" =>
           /\ tab.open \in DOMAIN d
           /\ \/ FoundIs(d[tab.open], tab.open, stored) \/ tab.open \in Due(stream, notices)
              \/ Planning(tab, tab.open)
    BY <1>6, <1>8, <1>9, <1>10 DEF FoundIs
  <1>12. r = Reads(tab, tab.open, s, None, tab.prefetch, d)  OBVIOUS
  <1>. HIDE DEF d, r
  <1>13. faults' \in 0..MaxFaults /\ acts' \in 0..MaxActs
    BY <1>1, <1>3 DEF Bounded
  <1>. QED  BY <1>3, <1>5, <1>8, <1>9, <1>11, <1>12, <1>13, ReadOverKeeps

LEMMA DetailFailsKeeps ==
    ASSUME IInv, DetailFails
    PROVE  IInv'
  <1>. DEFINE s == [tab.shown EXCEPT !.load = "error"]
              r == Reads(tab, tab.open, s, None, tab.prefetch, tab.details)
  <1>1. tab \in Tab /\ Opens(tab) /\ Bounded  BY DEF IInv, Sane
  <1>2. tab.detail # None /\ Fault /\ UNCHANGED <<stored, changes, notices, listens, stream, acts>>
    BY DEF DetailFails
  <1>3. [tab EXCEPT !.detail = None, !.shown.load = "error"] = r
    BY <1>1 DEF Tab, Reads
  <1>4. Becomes(Awaited(r, TRUE))  BY <1>3 DEF DetailFails
  <1>5. tab.shown \in Reader /\ tab.details \in Lines
    BY <1>1, <1>2 DEF Tab, Opens
  <1>6. /\ s \in Reader /\ s.thread = tab.shown.thread /\ s.source = tab.shown.source
        /\ s.load # "loading" /\ s.load # "available"
    BY <1>5 DEF Reader
  <1>7. r = Reads(tab, tab.open, s, None, tab.prefetch, tab.details)  OBVIOUS
  <1>. HIDE DEF s, r
  <1>8. faults' \in 0..MaxFaults /\ acts' \in 0..MaxActs
    BY <1>1, <1>2, FaultIs DEF Bounded
  <1>. QED  BY <1>2, <1>4, <1>5, <1>6, <1>7, <1>8, ReadOverKeeps

LEMMA PrefetchArrivesKeeps ==
    ASSUME IInv, PrefetchArrives
    PROVE  IInv'
  <1>. DEFINE t == tab.prefetch.thread
              rev == tab.prefetch.result
              may == rev # None /\ MayHydrate(tab, t)
              d == IF may THEN Known(tab, t, rev) ELSE tab.details
              r == Reads(tab, tab.open, tab.shown, tab.detail, None, d)
  <1>1. Sane(tab) /\ Agrees(tab, Due(stream, notices), Some(stream, notices), stored) /\ Bounded
    BY DEF IInv
  <1>2. tab \in Tab /\ Opens(tab) /\ OpenAgrees(tab, Due(stream, notices), stored)
    BY <1>1 DEF Sane, Agrees
  <1>3. /\ tab.prefetch # None /\ tab.prefetch.answered
        /\ tab' = [tab EXCEPT !.prefetch = None, !.details = d]
        /\ UNCHANGED <<stored, changes, notices, listens, stream, faults, acts>>
    BY <1>2 DEF PrefetchArrives, Tab
  <1>4. tab' = r  BY <1>2, <1>3 DEF Tab, Reads
  <1>5. t \in Threads /\ rev \in Line \cup {None} /\ tab.details \in Lines
    BY <1>2, <1>3 DEF Tab, ThreadRead
  <1>6. t = tab.open => \/ FoundIs(rev, tab.open, stored) \/ tab.open \in Due(stream, notices)
                        \/ Planning(tab, tab.open)
    BY <1>2, <1>3 DEF OpenAgrees, FoundAgrees
  <1>. HIDE DEF t, rev
  <1>7. /\ Known(tab, t, rev) \in Lines
        /\ rev # None => t \in DOMAIN Known(tab, t, rev) /\ Known(tab, t, rev)[t] = rev
        /\ \A u \in DOMAIN tab.details : u # t =>
             u \in DOMAIN Known(tab, t, rev) /\ Known(tab, t, rev)[u] = tab.details[u]
    BY <1>2, <1>5, KnownIs
  <1>8. d \in Lines  BY <1>5, <1>7
  <1>9. Readable(tab.open, tab.shown, tab.detail, None, d)
    BY <1>2, <1>8 DEF Tab, Readable
  <1>10. r = Reads(tab, tab.open, tab.shown, tab.detail, None, d)  OBVIOUS
  <1>. HIDE DEF r
  <1>11. /\ r.open = tab.open /\ r.shown = tab.shown /\ r.detail = tab.detail
         /\ r.prefetch = None /\ r.details = d /\ r.job = tab.job
         /\ r.recover = tab.recover /\ r.pending = tab.pending
    BY <1>2, <1>9, <1>10, ReaderIs
  <1>12. Opens(r)  BY <1>2, <1>11 DEF Opens
  <1>13. \A u : Planning(r, u) <=> Planning(tab, u)  BY <1>11 DEF Planning
  <1>14. tab.open # None /\ tab.shown.load = "available" =>
           /\ tab.open \in DOMAIN d
           /\ \/ FoundIs(d[tab.open], tab.open, stored) \/ tab.open \in Due(stream, notices)
              \/ Planning(tab, tab.open)
    <2>. SUFFICES ASSUME tab.open # None, tab.shown.load = "available"
                  PROVE  /\ tab.open \in DOMAIN d
                         /\ \/ FoundIs(d[tab.open], tab.open, stored)
                            \/ tab.open \in Due(stream, notices) \/ Planning(tab, tab.open)
      OBVIOUS
    <2>1. /\ tab.open \in DOMAIN tab.details
          /\ \/ FoundIs(tab.details[tab.open], tab.open, stored)
             \/ tab.open \in Due(stream, notices) \/ Planning(tab, tab.open)
      BY <1>2 DEF OpenAgrees
    <2>2. CASE ~may  BY <2>1, <2>2
    <2>3. CASE may /\ t = tab.open  BY <1>6, <1>7, <2>3 DEF FoundIs
    <2>4. CASE may /\ t # tab.open  BY <1>7, <2>1, <2>4
    <2>. QED  BY <2>2, <2>3, <2>4
  <1>. HIDE DEF d
  <1>15. OpenAgrees(r, Due(stream, notices), stored)
    BY <1>2, <1>11, <1>13, <1>14 DEF OpenAgrees, FoundAgrees
  <1>16. faults' \in 0..MaxFaults /\ acts' \in 0..MaxActs
    BY <1>1, <1>3 DEF Bounded
  <1>. QED  BY <1>3, <1>4, <1>9, <1>10, <1>12, <1>15, <1>16, ReaderStepKeeps

LEMMA PrefetchKeeps ==
    ASSUME IInv, NEW t \in Threads, Prefetch(t)
    PROVE  IInv'
  <1>. DEFINE p == AskedThread(t)
              r == Reads(tab, tab.open, tab.shown, tab.detail, p, tab.details)
  <1>1. /\ tab \in Tab /\ Opens(tab) /\ OpenAgrees(tab, Due(stream, notices), stored) /\ Bounded
    BY DEF IInv, Sane, Agrees
  <1>2. /\ tab' = [tab EXCEPT !.prefetch = p] /\ Act
        /\ UNCHANGED <<stored, changes, notices, listens, stream, faults>>
    BY DEF Prefetch
  <1>3. tab' = r  BY <1>1, <1>2 DEF Tab, Reads
  <1>4. p \in ThreadRead /\ ~p.answered  BY ReadsAre
  <1>5. r = Reads(tab, tab.open, tab.shown, tab.detail, p, tab.details)  OBVIOUS
  <1>. HIDE DEF p, r
  <1>6. Readable(tab.open, tab.shown, tab.detail, p, tab.details)
    BY <1>1, <1>4 DEF Tab, Readable
  <1>7. /\ r.open = tab.open /\ r.shown = tab.shown /\ r.detail = tab.detail
        /\ r.prefetch = p /\ r.details = tab.details /\ r.job = tab.job
        /\ r.recover = tab.recover /\ r.pending = tab.pending
    BY <1>1, <1>5, <1>6, ReaderIs
  <1>8. Opens(r)  BY <1>1, <1>7 DEF Opens
  <1>9. OpenAgrees(r, Due(stream, notices), stored)
    BY <1>1, <1>4, <1>7 DEF OpenAgrees, FoundAgrees, Planning
  <1>10. faults' \in 0..MaxFaults /\ acts' \in 0..MaxActs
    BY <1>1, <1>2, ActIs DEF Bounded
  <1>. QED  BY <1>2, <1>3, <1>5, <1>6, <1>8, <1>9, <1>10, ReaderStepKeeps

\* The effect of useThreadDetail, of a thread that is opened or read again.
Loading(t) == [thread |-> t, source |-> "reader", load |-> "loading"]

LEMMA OpenedIs ==
    ASSUME NEW w \in Tab, NEW t \in Threads \cup {None}
    PROVE  \/ /\ Opened([w EXCEPT !.open = t]) = Reads(w, t, w.shown, None, w.prefetch, w.details)
              /\ \/ t = None
                 \/ w.shown # None /\ w.shown.thread = t /\ w.recovering # None
           \/ /\ t \in Threads
              /\ Opened([w EXCEPT !.open = t])
                   = Reads(w, t, Loading(t), AskedThread(t), None, w.details)
  <1>. DEFINE u == [w EXCEPT !.open = t]
  <1>1. u \in Tab /\ u.open = t /\ u.shown = w.shown /\ u.recovering = w.recovering
    BY DEF Tab
  <1>2. [u EXCEPT !.detail = None] = Reads(w, t, w.shown, None, w.prefetch, w.details)
    BY DEF Reads, Tab
  <1>3. ReadDetail(u, t, "reader") = Reads(w, t, Loading(t), AskedThread(t), None, w.details)
    BY DEF ReadDetail, Reads, Tab, Loading
  <1>. HIDE DEF u
  <1>4. t # None => t \in Threads  OBVIOUS
  <1>5. \/ Opened(u) = [u EXCEPT !.detail = None] /\ t = None
        \/ /\ Opened(u) = [u EXCEPT !.detail = None]
           /\ w.shown # None /\ w.shown.thread = t /\ w.recovering # None
        \/ Opened(u) = ReadDetail(u, t, "reader") /\ t # None
    BY <1>1 DEF Opened
  <1>. QED  BY <1>2, <1>3, <1>4, <1>5 DEF u

\* What is opened is read, unless a recovery reads it or nothing is opened.
LEMMA OpenedKeeps ==
    ASSUME NEW w, Sane(w), NEW due, NEW some, NEW db, Agrees(w, due, some, db),
           NEW t \in Threads \cup {None},
           \/ w.job = None
           \/ t = w.open /\ w.shown # None /\ w.shown.load = "error"
    PROVE  /\ Sane(Opened([w EXCEPT !.open = t])) /\ Agrees(Opened([w EXCEPT !.open = t]), due, some, db)
           /\ Opened([w EXCEPT !.open = t]).first = w.first
           /\ FirstRuns(w) /\ t = w.open => FirstRuns(Opened([w EXCEPT !.open = t]))
  <1>. DEFINE r == Opened([w EXCEPT !.open = t])
  <1>1. w \in Tab /\ Opens(w) /\ Reconciles(w) /\ OpenAgrees(w, due, db)
    BY DEF Sane, Agrees
  <1>2. CASE /\ r = Reads(w, t, w.shown, None, w.prefetch, w.details)
             /\ \/ t = None
                \/ w.shown # None /\ w.shown.thread = t /\ w.recovering # None
    <2>1. Readable(t, w.shown, None, w.prefetch, w.details)
      BY <1>1 DEF Tab, Readable
    <2>2. r = Reads(w, t, w.shown, None, w.prefetch, w.details)  BY <1>2
    <2>. HIDE DEF r
    <2>3. /\ r.open = t /\ r.shown = w.shown /\ r.detail = None
          /\ r.prefetch = w.prefetch /\ r.details = w.details /\ r.job = w.job
          /\ r.recover = w.recover /\ r.pending = w.pending
      BY <1>1, <2>1, <2>2, ReaderIs
    <2>4. t = None \/ (t = w.open /\ w.shown # None /\ w.shown.load = "error")
      BY <1>1, <1>2 DEF Reconciles
    <2>5. Opens(r)  BY <1>1, <2>3, <2>4 DEF Opens
    <2>6. w.prefetch # None => w.prefetch.thread # None
      BY <1>1, Nothing DEF Tab, ThreadRead
    <2>7. OpenAgrees(r, due, db)
      BY <1>1, <2>3, <2>4, <2>6 DEF OpenAgrees, FoundAgrees, Planning
    <2>. QED  BY <2>1, <2>2, <2>5, <2>7, ReaderKeeps DEF r
  <1>3. CASE t \in Threads /\ r = Reads(w, t, Loading(t), AskedThread(t), None, w.details)
    <2>1. /\ Loading(t) \in Reader /\ Loading(t).thread = t
          /\ Loading(t).load = "loading" /\ Loading(t).source = "reader"
      BY <1>3 DEF Loading, Reader
    <2>2. /\ AskedThread(t) \in ThreadRead /\ ~AskedThread(t).answered
          /\ AskedThread(t).thread = t
      BY <1>3, ReadsAre
    <2>3. Loading(t) # None /\ AskedThread(t) # None /\ t # None
      BY <1>3, <2>1, <2>2, Nothing
    <2>4. Readable(t, Loading(t), AskedThread(t), None, w.details)
      BY <1>1, <2>1, <2>2 DEF Tab, Readable
    <2>5. r = Reads(w, t, Loading(t), AskedThread(t), None, w.details)  BY <1>3
    <2>. HIDE DEF r
    <2>6. /\ r.open = t /\ r.shown = Loading(t) /\ r.detail = AskedThread(t)
          /\ r.prefetch = None /\ r.details = w.details /\ r.job = w.job
      BY <1>1, <2>4, <2>5, ReaderIs
    <2>7. Opens(r)  BY <2>1, <2>2, <2>3, <2>6 DEF Opens
    <2>8. OpenAgrees(r, due, db)
      BY <2>1, <2>2, <2>6 DEF OpenAgrees, FoundAgrees
    <2>. QED  BY <2>4, <2>5, <2>7, <2>8, ReaderKeeps DEF r
  <1>. QED  BY <1>1, <1>2, <1>3, OpenedIs

LEMMA ReloadKeeps ==
    ASSUME IInv, Reload
    PROVE  IInv'
  <1>. DEFINE due == Due(stream, notices)
              some == Some(stream, notices)
  <1>1. /\ Bounded /\ Sane(tab) /\ FirstRuns(tab) /\ Agrees(tab, due, some, stored)
        /\ tab \in Tab
    BY DEF IInv, Sane
  <1>2. /\ tab.shown # None /\ tab.shown.load = "error" /\ tab' = Opened(tab) /\ Act
        /\ UNCHANGED <<stored, changes, notices, listens, stream, faults>>
    BY DEF Reload
  <1>3. tab = [tab EXCEPT !.open = tab.open] /\ tab.open \in Threads \cup {None}
    BY <1>1 DEF Tab
  <1>. HIDE DEF due, some
  <1>4. LET r == Opened([tab EXCEPT !.open = tab.open])
        IN Sane(r) /\ Agrees(r, due, some, stored) /\ FirstRuns(r)
    BY <1>1, <1>2, <1>3, OpenedKeeps
  <1>5. Sane(tab') /\ Agrees(tab', due, some, stored) /\ FirstRuns(tab')
    BY <1>2, <1>3, <1>4
  <1>6. faults' \in 0..MaxFaults /\ acts' \in 0..MaxActs
    BY <1>1, <1>2, ActIs DEF Bounded
  <1>. QED  BY <1>2, <1>5, <1>6, ReadsKeeps DEF due, some

\* A list that leaves takes its reads along.
LEMMA UnmountedIs ==
    ASSUME NEW w \in Tab, NEW r, r = Unmounted(w)
    PROVE  /\ r \in Tab /\ r.first = None /\ r.more = None /\ r.prefetch = None
           /\ r.view = w.view /\ r.open = w.open /\ r.recovering = w.recovering
           /\ r.pages = w.pages /\ r.rows = w.rows /\ r.recover = w.recover
           /\ r.pending = w.pending /\ r.shown = w.shown /\ r.detail = w.detail
           /\ r.details = w.details /\ r.counts = w.counts /\ r.healthy = w.healthy
           /\ r.star = w.star /\ r.status = w.status /\ r.steady = w.steady /\ r.job = w.job
  <1>1. r = [w EXCEPT !.first = None, !.more = None, !.prefetch = None]  BY DEF Unmounted
  <1>2. r \in Tab
    <2>1. Shaped(r, w)  BY <1>1 DEF Shaped
    <2>2. TabTyped(r)  BY <1>1 DEF Tab, TabTyped
    <2>. QED  BY <1>1, <2>1, <2>2, TabIs
  <1>. QED  BY <1>1, <1>2 DEF Tab

LEMMA UnmountedKeeps ==
    ASSUME NEW w, Sane(w), NEW due, NEW some, NEW db, Agrees(w, due, some, db),
           NEW r, r = Unmounted(w)
    PROVE  Sane(r) /\ Agrees(r, due, some, db)
  <1>1. w \in Tab /\ Kept(w) /\ Reconciles(w) /\ Opens(w) /\ Lists(w)
    BY DEF Sane
  <1>2. /\ r \in Tab /\ r.first = None /\ r.more = None /\ r.prefetch = None
        /\ r.view = w.view /\ r.open = w.open /\ r.recovering = w.recovering
        /\ r.pages = w.pages /\ r.rows = w.rows /\ r.recover = w.recover
        /\ r.pending = w.pending /\ r.shown = w.shown /\ r.detail = w.detail
        /\ r.details = w.details /\ r.counts = w.counts /\ r.healthy = w.healthy
        /\ r.star = w.star /\ r.status = w.status /\ r.steady = w.steady /\ r.job = w.job
    BY <1>1, UnmountedIs
  <1>3. Kept(r) /\ (Fresh(r) <=> Fresh(w)) /\ (Believes(r) <=> Believes(w))
    BY <1>1, <1>2 DEF Kept, Fresh, Believes
  <1>4. Reconciles(r)  BY <1>1, <1>2 DEF Reconciles
  <1>5. Opens(r)  BY <1>1, <1>2 DEF Opens
  <1>6. Lists(r)  BY <1>1, <1>2, <1>3 DEF Lists
  <1>7. \A t : /\ Planning(r, t) <=> Planning(w, t)
               /\ RowAgrees(r, t, db) <=> RowAgrees(w, t, db)
               /\ Patching(r, t) <=> Patching(w, t)
    BY <1>2 DEF Planning, RowAgrees, StarPends, Patching
  <1>8. /\ OpenAgrees(w, due, db) /\ CountsAgree(w, some, db)
        /\ PageAgrees(w, due, db) /\ ListAgrees(w, due, db)
    BY DEF Agrees
  <1>9. OpenAgrees(r, due, db)  BY <1>2, <1>7, <1>8 DEF OpenAgrees, FoundAgrees
  <1>10. CountsAgree(r, some, db)  BY <1>2, <1>8 DEF CountsAgree
  <1>11. PageAgrees(r, due, db)  BY <1>2, <1>3, <1>7, <1>8 DEF PageAgrees
  <1>12. ListAgrees(r, due, db)  BY <1>2, <1>7, <1>8 DEF ListAgrees
  <1>. QED  BY <1>2, <1>3, <1>4, <1>5, <1>6, <1>9, <1>10, <1>11, <1>12 DEF Sane, Agrees

LEMMA OpenKeeps ==
    ASSUME IInv, NEW t \in Threads \cup {None}, Open(t)
    PROVE  IInv'
  <1>. DEFINE due == Due(stream, notices)
              some == Some(stream, notices)
              u == Unmounted(tab)
              r == Opened([u EXCEPT !.open = t])
              w == Moved(r)
  <1>1. /\ Bounded /\ StreamSound /\ Sane(tab) /\ Agrees(tab, due, some, stored)
        /\ tab \in Tab /\ Kept(tab)
    BY DEF IInv, Sane
  <1>2. t # tab.open /\ Becomes(w) /\ Act /\ UNCHANGED <<stored, changes, notices, listens, stream, faults>>
    BY DEF Open
  <1>. HIDE DEF due, some
  <1>7. /\ Sane(u) /\ Agrees(u, due, some, stored) /\ u \in Tab /\ u.first = None
        /\ u.job = tab.job /\ u.pages = tab.pages /\ u.rows = tab.rows
    BY <1>1, UnmountedIs, UnmountedKeeps
  <1>. HIDE DEF u
  <1>3. r \in Tab /\ r.job = tab.job /\ Kept(r) /\ r.open = t
    <2>1. PICK o, s, a, p, d : Readable(o, s, a, p, d) /\ r = Reads(u, o, s, a, p, d) /\ o = t
      <3>1. /\ Readable(t, u.shown, None, u.prefetch, u.details)
            /\ t \in Threads => Readable(t, Loading(t), AskedThread(t), None, u.details)
        BY <1>7, ReadsAre DEF Tab, Readable, Loading
      <3>. QED  BY <1>7, <3>1, OpenedIs
    <2>. HIDE DEF r
    <2>2. r \in Tab /\ r.job = tab.job /\ r.pages = tab.pages /\ r.rows = tab.rows /\ r.open = t
      BY <1>7, <2>1, ReaderIs
    <2>. QED  BY <1>1, <2>2 DEF Kept
  <1>4. /\ Sane(w) /\ Agrees(w, due, some, stored)
        /\ w.first = None
        /\ w.recovering = w.view \/ w.open # None \/ w.open # tab.open
    <2>1. CASE tab.job # None
      <3>1. w = RequestRecovery(r, TRUE)  BY <1>3, <2>1 DEF Moved
      <3>. HIDE DEF r, w
      <3>. QED  BY <1>3, <3>1, InterruptKeeps
    <2>2. CASE tab.job = None
      <3>1. w = r  BY <1>3, <2>2 DEF Moved
      <3>2. Sane(r) /\ Agrees(r, due, some, stored) /\ r.first = None
        BY <1>7, <2>2, OpenedKeeps
      <3>. QED  BY <1>2, <1>3, <3>1, <3>2
    <2>. QED  BY <2>1, <2>2
  <1>. HIDE DEF w
  <1>5. Bounded' /\ StreamSound'  BY <1>1, <1>2, ActIs DEF Bounded, StreamSound
  <1>6. Agrees(w, Due(stream', notices'), Some(stream', notices'), stored)
    BY <1>2, <1>4 DEF due, some
  <1>. QED  BY <1>2, <1>4, <1>5, <1>6, BecomesKeeps

\* The tab on another view.
On(w, view) == [w EXCEPT !.view = view, !.steady = FALSE]

LEMMA OnIs ==
    ASSUME NEW w \in Tab, NEW view \in Views
    PROVE  /\ On(w, view) \in Tab /\ On(w, view).view = view /\ ~On(w, view).steady
           /\ On(w, view).open = w.open /\ On(w, view).recovering = w.recovering
           /\ On(w, view).first = w.first /\ On(w, view).more = w.more
           /\ On(w, view).prefetch = w.prefetch /\ On(w, view).recover = w.recover
           /\ On(w, view).pending = w.pending /\ On(w, view).shown = w.shown
           /\ On(w, view).detail = w.detail /\ On(w, view).rows = w.rows
           /\ On(w, view).pages = w.pages /\ On(w, view).details = w.details
           /\ On(w, view).counts = w.counts /\ On(w, view).healthy = w.healthy
           /\ On(w, view).status = w.status /\ On(w, view).job = w.job
  <1>1. On(w, view) \in Tab
    <2>1. Shaped(On(w, view), w)  BY DEF On, Shaped
    <2>2. TabTyped(On(w, view))  BY DEF On, Tab, TabTyped
    <2>. QED  BY <2>1, <2>2, TabIs
  <1>2. /\ On(w, view).view = view /\ ~On(w, view).steady
        /\ On(w, view).open = w.open /\ On(w, view).recovering = w.recovering
        /\ On(w, view).first = w.first /\ On(w, view).more = w.more
        /\ On(w, view).prefetch = w.prefetch /\ On(w, view).recover = w.recover
        /\ On(w, view).pending = w.pending /\ On(w, view).shown = w.shown
        /\ On(w, view).detail = w.detail /\ On(w, view).rows = w.rows
        /\ On(w, view).pages = w.pages /\ On(w, view).details = w.details
        /\ On(w, view).counts = w.counts /\ On(w, view).healthy = w.healthy
        /\ On(w, view).status = w.status /\ On(w, view).job = w.job
    BY DEF On, Tab
  <1>. QED  BY <1>1, <1>2

LEMMA OnKeeps ==
    ASSUME NEW w, Sane(w), NEW due, NEW some, NEW db, Agrees(w, due, some, db),
           NEW view \in Views, w.job = None
    PROVE  Sane(On(w, view)) /\ Agrees(On(w, view), due, some, db)
  <1>. DEFINE r == On(w, view)
  <1>1. w \in Tab /\ Kept(w) /\ Reconciles(w) /\ Opens(w) /\ Lists(w)
    BY DEF Sane
  <1>2. r \in Tab /\ r.view = view /\ ~r.steady  BY <1>1, OnIs
  <1>3. /\ r.open = w.open /\ r.recovering = w.recovering /\ r.first = w.first /\ r.more = w.more
        /\ r.prefetch = w.prefetch /\ r.recover = w.recover /\ r.pending = w.pending
        /\ r.shown = w.shown /\ r.detail = w.detail /\ r.rows = w.rows /\ r.pages = w.pages
        /\ r.details = w.details /\ r.counts = w.counts /\ r.healthy = w.healthy
        /\ r.status = w.status /\ r.job = w.job
    BY <1>1, OnIs
  <1>. HIDE DEF r
  <1>4. Kept(r) /\ ~Believes(r)  BY <1>1, <1>2, <1>3 DEF Kept, Believes
  <1>5. Reconciles(r)  BY <1>1, <1>3 DEF Reconciles
  <1>6. Opens(r)  BY <1>1, <1>3 DEF Opens
  <1>7. Lists(r)  BY <1>1, <1>2, <1>3, <1>4 DEF Lists
  <1>8. OpenAgrees(w, due, db) /\ CountsAgree(w, some, db)  BY DEF Agrees
  <1>9. OpenAgrees(r, due, db)
    BY <1>3, <1>8 DEF OpenAgrees, FoundAgrees, Planning
  <1>10. CountsAgree(r, some, db)  BY <1>3, <1>8 DEF CountsAgree
  <1>11. PageAgrees(r, due, db) /\ ListAgrees(r, due, db)
    BY <1>3, <1>4 DEF PageAgrees, ListAgrees
  <1>. QED  BY <1>2, <1>4, <1>5, <1>6, <1>7, <1>9, <1>10, <1>11 DEF Sane, Agrees, r

LEMMA SwitchViewKeeps ==
    ASSUME IInv, NEW view \in Views, SwitchView(view)
    PROVE  IInv'
  <1>. DEFINE due == Due(stream, notices)
              some == Some(stream, notices)
              u == Unmounted(tab)
              r == On(u, view)
              w == Moved(r)
  <1>1. /\ Bounded /\ StreamSound /\ Sane(tab) /\ Agrees(tab, due, some, stored)
        /\ tab \in Tab /\ Kept(tab)
    BY DEF IInv, Sane
  <1>2. view # tab.view /\ Becomes(w) /\ Act /\ UNCHANGED <<stored, changes, notices, listens, stream, faults>>
    BY DEF SwitchView, On
  <1>. HIDE DEF due, some
  <1>8. /\ Sane(u) /\ Agrees(u, due, some, stored) /\ u \in Tab /\ u.first = None
        /\ u.job = tab.job /\ u.pages = tab.pages /\ u.rows = tab.rows
    BY <1>1, UnmountedIs, UnmountedKeeps
  <1>. HIDE DEF u
  <1>3. r \in Tab /\ r.job = tab.job /\ r.first = None  BY <1>8, OnIs
  <1>4. r.pages = tab.pages /\ r.rows = tab.rows /\ r.view = view  BY <1>8, OnIs
  <1>5. /\ Sane(w) /\ Agrees(w, due, some, stored)
        /\ w.first = None /\ (w.recovering = w.view \/ w.view # tab.view)
    <2>1. CASE tab.job # None
      <3>1. w = RequestRecovery(r, TRUE)  BY <1>3, <2>1 DEF Moved
      <3>. HIDE DEF r, w
      <3>2. Kept(r)  BY <1>1, <1>4 DEF Kept
      <3>. QED  BY <1>3, <3>1, <3>2, InterruptKeeps
    <2>2. CASE tab.job = None
      <3>1. w = r  BY <1>3, <2>2 DEF Moved
      <3>2. Sane(r) /\ Agrees(r, due, some, stored)  BY <1>8, <2>2, OnKeeps
      <3>. QED  BY <1>2, <1>3, <1>4, <3>1, <3>2
    <2>. QED  BY <2>1, <2>2
  <1>. HIDE DEF w
  <1>6. Bounded' /\ StreamSound'  BY <1>1, <1>2, ActIs DEF Bounded, StreamSound
  <1>7. Agrees(w, Due(stream', notices'), Some(stream', notices'), stored)
    BY <1>2, <1>5 DEF due, some
  <1>. QED  BY <1>2, <1>5, <1>6, <1>7, BecomesKeeps

\* What the tab has heard of its stream.
Hears(w, ready, errored) == [w EXCEPT !.streamReady = ready, !.errored = errored]

LEMMA HearsKeeps ==
    ASSUME NEW w, Sane(w), NEW due, NEW some, NEW db, Agrees(w, due, some, db),
           NEW ready \in BOOLEAN, NEW errored \in BOOLEAN
    PROVE  /\ Sane(Hears(w, ready, errored)) /\ Agrees(Hears(w, ready, errored), due, some, db)
           /\ Hears(w, ready, errored).view = w.view /\ Hears(w, ready, errored).first = w.first
           /\ Hears(w, ready, errored).recovering = w.recovering
  <1>. DEFINE r == Hears(w, ready, errored)
  <1>1. w \in Tab /\ Kept(w) /\ Reconciles(w) /\ Opens(w) /\ Lists(w)
    BY DEF Sane
  <1>2. r \in Tab
    <2>1. Shaped(r, w)  BY <1>1 DEF Hears, Shaped
    <2>2. TabTyped(r)  BY <1>1 DEF Hears, Tab, TabTyped
    <2>. QED  BY <1>1, <2>1, <2>2, TabIs
  <1>3. /\ r.view = w.view /\ r.open = w.open /\ r.recovering = w.recovering
        /\ r.first = w.first /\ r.more = w.more /\ r.prefetch = w.prefetch
        /\ r.recover = w.recover /\ r.pending = w.pending /\ r.shown = w.shown
        /\ r.detail = w.detail /\ r.rows = w.rows /\ r.pages = w.pages /\ r.details = w.details
        /\ r.counts = w.counts /\ r.star = w.star /\ r.healthy = w.healthy
        /\ r.status = w.status /\ r.steady = w.steady /\ r.job = w.job
    BY <1>1 DEF Hears, Tab
  <1>. HIDE DEF r
  <1>4. Kept(r) /\ (Fresh(r) <=> Fresh(w)) /\ (Believes(r) <=> Believes(w))
    BY <1>1, <1>3 DEF Kept, Fresh, Believes
  <1>5. Reconciles(r) /\ Opens(r)  BY <1>1, <1>3 DEF Reconciles, Opens
  <1>6. Lists(r)  BY <1>1, <1>3, <1>4 DEF Lists
  <1>7. /\ OpenAgrees(w, due, db) /\ CountsAgree(w, some, db)
        /\ PageAgrees(w, due, db) /\ ListAgrees(w, due, db)
    BY DEF Agrees
  <1>8. \A t : Planning(r, t) <=> Planning(w, t)  BY <1>3 DEF Planning
  <1>9. \A t : (RowAgrees(r, t, db) <=> RowAgrees(w, t, db)) /\ (Patching(r, t) <=> Patching(w, t))
    BY <1>3 DEF RowAgrees, StarPends, Patching
  <1>10. OpenAgrees(r, due, db)  BY <1>3, <1>7, <1>8 DEF OpenAgrees, FoundAgrees
  <1>11. CountsAgree(r, some, db)  BY <1>3, <1>7 DEF CountsAgree
  <1>12. PageAgrees(r, due, db)  BY <1>3, <1>4, <1>7, <1>8, <1>9 DEF PageAgrees
  <1>13. ListAgrees(r, due, db)  BY <1>3, <1>7, <1>8 DEF ListAgrees
  <1>. QED  BY <1>2, <1>3, <1>4, <1>5, <1>6, <1>10, <1>11, <1>12, <1>13 DEF Sane, Agrees, r

LEMMA ResumeKeeps ==
    ASSUME IInv, Resume
    PROVE  IInv'
  <1>. DEFINE r == RequestRecovery(tab, TRUE)
              due == Due(stream', notices')
              some == Some(stream', notices')
  <1>1. Bounded /\ StreamSound /\ tab \in Tab /\ Kept(tab)  BY DEF IInv, Sane
  <1>2. Act /\ UNCHANGED <<stored, changes, notices, listens, faults>>
    BY DEF Resume
  <1>3. PICK w \in {r, Hears(r, FALSE, FALSE)} : Becomes(w)
    BY DEF Resume, Hears
  <1>4. stream' = NewStream \/ stream' = stream  BY DEF Resume
  <1>. HIDE DEF due, some
  <1>5. Sane(r) /\ Agrees(r, due, some, stored) /\ r.first = None /\ r.recovering = r.view
    BY <1>1, InterruptKeeps
  <1>. HIDE DEF r
  <1>6. /\ Sane(w) /\ Agrees(w, due, some, stored) /\ w.first = None /\ w.recovering = w.view
    BY <1>3, <1>5, HearsKeeps
  <1>7. StreamSound'
    <2>1. <<>> \in Seq(Event)  OBVIOUS
    <2>2. NewStream \in StreamIn /\ NewStream.state = "connecting"
      BY <2>1 DEF StreamIn, NewStream
    <2>. QED  BY <1>1, <1>2, <1>4, <2>2 DEF StreamSound, StreamIn
  <1>8. Bounded'  BY <1>1, <1>2, ActIs DEF Bounded
  <1>. QED  BY <1>2, <1>3, <1>6, <1>7, <1>8, BecomesKeeps DEF due, some

-----------------------------------------------------------------------------
(* The list's own reads.                                                   *)

\* The tab w with the reads of its list changed, and whether it has been left alone.
Asks(w, f, m, s, l) == [w EXCEPT !.first = f, !.more = m, !.steady = s, !.loading = l]

Readies(w, f, m, s) ==
  /\ f \in FirstRead \cup {None} /\ m \in MoreRead \cup {None} /\ s \in BOOLEAN
  /\ s => w.steady
  /\ w.recovering # None => f = None /\ m = None
  /\ f # None => ~Believes(w) /\ f.view = w.view /\ (f.answered => f.result # None)
  /\ f = None => w.first = None
  /\ m # None => ~s /\ m.view \in DOMAIN w.pages /\ (m.answered => m.result # None)

LEMMA ListStepKeeps ==
    ASSUME IInv, UNCHANGED <<stored, changes, notices, listens, stream>>,
           faults' \in 0..MaxFaults, acts' \in 0..MaxActs,
           NEW f, NEW m, NEW s, NEW l \in SUBSET Views, Readies(tab, f, m, s),
           tab' = Asks(tab, f, m, s, l)
    PROVE  IInv'
  <1>. DEFINE due == Due(stream, notices)
              some == Some(stream, notices)
  <1>1. /\ tab \in Tab /\ Kept(tab) /\ Reconciles(tab) /\ Opens(tab) /\ Lists(tab)
        /\ FirstRuns(tab)
    BY DEF IInv, Sane
  <1>2. /\ OpenAgrees(tab, due, stored) /\ CountsAgree(tab, some, stored)
        /\ PageAgrees(tab, due, stored) /\ ListAgrees(tab, due, stored)
    BY DEF IInv, Agrees
  <1>3. tab' = [tab EXCEPT !.first = f, !.more = m, !.steady = s, !.loading = l]  BY DEF Asks
  <1>4. /\ f \in FirstRead \cup {None} /\ m \in MoreRead \cup {None} /\ s \in BOOLEAN
        /\ s => tab.steady
    BY DEF Readies
  <1>5. tab' \in Tab
    <2>1. Shaped(tab', tab)  BY <1>1, <1>3, <1>4 DEF Shaped
    <2>2. TabTyped(tab')  BY <1>1, <1>3, <1>4 DEF Tab, TabTyped
    <2>. QED  BY <1>1, <1>3, <1>4, <2>1, <2>2, TabIs
  <1>6. tab'.first = f /\ tab'.more = m /\ tab'.steady = s
    BY <1>1, <1>3 DEF Tab
  <1>7. /\ tab'.view = tab.view /\ tab'.open = tab.open /\ tab'.recovering = tab.recovering
        /\ tab'.prefetch = tab.prefetch /\ tab'.recover = tab.recover
        /\ tab'.pending = tab.pending /\ tab'.shown = tab.shown /\ tab'.detail = tab.detail
        /\ tab'.rows = tab.rows /\ tab'.pages = tab.pages /\ tab'.details = tab.details
        /\ tab'.counts = tab.counts /\ tab'.star = tab.star /\ tab'.healthy = tab.healthy
        /\ tab'.status = tab.status /\ tab'.job = tab.job
    BY <1>1, <1>3 DEF Tab
  <1>. HIDE DEF due, some
  <1>8. Kept(tab') /\ (Fresh(tab') <=> Fresh(tab)) /\ (Believes(tab') => Believes(tab))
    BY <1>1, <1>4, <1>6, <1>7 DEF Kept, Fresh, Believes
  <1>9. Believes(tab') => s  BY <1>6 DEF Believes
  <1>10. Reconciles(tab')  BY <1>1, <1>6, <1>7 DEF Reconciles, Readies
  <1>11. Opens(tab')  BY <1>1, <1>7 DEF Opens
  <1>12. Lists(tab')  BY <1>1, <1>6, <1>7, <1>8, <1>9 DEF Lists, Readies
  <1>13. FirstRuns(tab')  BY <1>1, <1>6, <1>7, <1>8 DEF FirstRuns, Readies
  <1>14. \A t : Planning(tab', t) <=> Planning(tab, t)  BY <1>7 DEF Planning
  <1>15. \A t : /\ RowAgrees(tab', t, stored) <=> RowAgrees(tab, t, stored)
                /\ Patching(tab', t) <=> Patching(tab, t)
    BY <1>7 DEF RowAgrees, StarPends, Patching
  <1>16. OpenAgrees(tab', due, stored)
    BY <1>2, <1>7, <1>14 DEF OpenAgrees, FoundAgrees
  <1>17. CountsAgree(tab', some, stored)  BY <1>2, <1>7 DEF CountsAgree
  <1>18. PageAgrees(tab', due, stored)
    BY <1>2, <1>7, <1>8, <1>14, <1>15 DEF PageAgrees
  <1>19. ListAgrees(tab', due, stored)  BY <1>2, <1>7, <1>14 DEF ListAgrees
  <1>. QED
    BY <1>5, <1>8, <1>10, <1>11, <1>12, <1>13, <1>16, <1>17, <1>18, <1>19, ReadsKeeps
    DEF Sane, Agrees, due, some

\* What is being read stands.
LEMMA ReadingStands ==
    ASSUME IInv
    PROVE  /\ Readies(tab, tab.first, tab.more, tab.steady)
           /\ tab.recovering # None => tab.recovering = tab.view
  <1>1. tab \in Tab /\ Reconciles(tab) /\ Lists(tab) /\ FirstRuns(tab)
    BY DEF IInv, Sane
  <1>2. tab.first \in FirstRead \cup {None} /\ tab.more \in MoreRead \cup {None} /\ tab.steady \in BOOLEAN
    BY <1>1 DEF Tab
  <1>. QED  BY <1>1, <1>2 DEF Readies, Reconciles, Lists, FirstRuns

LEMMA FoundListIs ==
    ASSUME Bounded, NEW view, NEW cursor
    PROVE  ListThreads(view, cursor) \in ListRead /\ ListThreads(view, cursor) # None
BY ListThreadsIs, Nothing DEF Answers

LEMMA ServeFirstKeeps ==
    ASSUME IInv, ServeFirst
    PROVE  IInv'
  <1>. DEFINE found == ListThreads(tab.first.view, {})
              f == Answered(tab.first, found)
  <1>1. tab \in Tab /\ Bounded /\ Readies(tab, tab.first, tab.more, tab.steady)
    BY ReadingStands DEF IInv, Sane
  <1>2. /\ tab.first # None /\ tab' = [tab EXCEPT !.first = f]
        /\ UNCHANGED <<stored, changes, notices, listens, stream, faults, acts>>
    BY DEF ServeFirst
  <1>3. found \in ListRead /\ found # None  BY <1>1, FoundListIs
  <1>4. tab.first \in FirstRead  BY <1>2, <1>1 DEF Tab
  <1>5. tab' = Asks(tab, f, tab.more, tab.steady, tab.loading)  BY <1>1, <1>2 DEF Asks, Tab
  <1>. HIDE DEF found
  <1>6. f \in FirstRead /\ f.view = tab.first.view /\ f.result = found
    BY <1>3, <1>4 DEF Answered, FirstRead
  <1>7. f # None  BY <1>6, Nothing
  <1>. HIDE DEF f
  <1>8. Readies(tab, f, tab.more, tab.steady)
    BY <1>1, <1>2, <1>3, <1>6, <1>7 DEF Readies
  <1>9. faults' \in 0..MaxFaults /\ acts' \in 0..MaxActs
    BY <1>1, <1>2 DEF Bounded
  <1>30. tab.loading \in SUBSET Views  BY <1>1 DEF Tab
  <1>. QED  BY <1>2, <1>5, <1>8, <1>9, <1>30, ListStepKeeps

LEMMA FirstFailsKeeps ==
    ASSUME IInv, FirstFails
    PROVE  IInv'
  <1>. DEFINE f == [tab.first EXCEPT !.failed = TRUE]
  <1>1. tab \in Tab /\ Bounded /\ Readies(tab, tab.first, tab.more, tab.steady)
    BY ReadingStands DEF IInv, Sane
  <1>2. /\ tab.first # None /\ tab' = [tab EXCEPT !.first.failed = TRUE] /\ Fault
        /\ UNCHANGED <<stored, changes, notices, listens, stream, acts>>
    BY DEF FirstFails
  <1>3. tab.first \in FirstRead  BY <1>2, <1>1 DEF Tab
  <1>4. tab' = Asks(tab, f, tab.more, tab.steady, tab.loading)  BY <1>1, <1>2 DEF Asks, Tab
  <1>5. /\ f \in FirstRead /\ f.view = tab.first.view /\ f.result = tab.first.result
        /\ f.answered = tab.first.answered
    BY <1>3 DEF FirstRead
  <1>6. f # None  BY <1>5, Nothing
  <1>. HIDE DEF f
  <1>7. Readies(tab, f, tab.more, tab.steady)
    BY <1>1, <1>2, <1>5, <1>6 DEF Readies
  <1>8. faults' \in 0..MaxFaults /\ acts' \in 0..MaxActs
    BY <1>1, <1>2, FaultIs DEF Bounded
  <1>30. tab.loading \in SUBSET Views  BY <1>1 DEF Tab
  <1>. QED  BY <1>2, <1>4, <1>7, <1>8, <1>30, ListStepKeeps

LEMMA RetryFirstKeeps ==
    ASSUME IInv, RetryFirst
    PROVE  IInv'
  <1>. DEFINE f == AskedFirst(tab.view)
  <1>1. tab \in Tab /\ Bounded /\ Readies(tab, tab.first, tab.more, tab.steady)
    BY ReadingStands DEF IInv, Sane
  <1>2. /\ tab.first # None /\ tab' = [tab EXCEPT !.first = f] /\ Act
        /\ UNCHANGED <<stored, changes, notices, listens, stream, faults>>
    BY DEF RetryFirst
  <1>3. tab' = Asks(tab, f, tab.more, tab.steady, tab.loading)  BY <1>1, <1>2 DEF Asks, Tab
  <1>4. tab.view \in Views  BY <1>1 DEF Tab
  <1>5. f \in FirstRead /\ ~f.answered /\ f.view = tab.view /\ f # None
    BY <1>4, ReadsAre, Nothing
  <1>. HIDE DEF f
  <1>6. Readies(tab, f, tab.more, tab.steady)  BY <1>1, <1>2, <1>5 DEF Readies
  <1>7. faults' \in 0..MaxFaults /\ acts' \in 0..MaxActs
    BY <1>1, <1>2, ActIs DEF Bounded
  <1>30. tab.loading \in SUBSET Views  BY <1>1 DEF Tab
  <1>. QED  BY <1>2, <1>3, <1>6, <1>7, <1>30, ListStepKeeps

LEMMA ServeMoreKeeps ==
    ASSUME IInv, ServeMore
    PROVE  IInv'
  <1>. DEFINE found == ListThreads(tab.more.view, tab.more.cursor)
              m == Answered(tab.more, found)
  <1>1. tab \in Tab /\ Bounded /\ Readies(tab, tab.first, tab.more, tab.steady)
    BY ReadingStands DEF IInv, Sane
  <1>2. /\ tab.more # None /\ tab' = [tab EXCEPT !.more = m]
        /\ UNCHANGED <<stored, changes, notices, listens, stream, faults, acts>>
    BY DEF ServeMore
  <1>3. found \in ListRead /\ found # None  BY <1>1, FoundListIs
  <1>4. tab.more \in MoreRead  BY <1>2, <1>1 DEF Tab
  <1>5. tab' = Asks(tab, tab.first, m, tab.steady, tab.loading)  BY <1>1, <1>2 DEF Asks, Tab
  <1>. HIDE DEF found
  <1>6. m \in MoreRead /\ m.view = tab.more.view /\ m.result = found
    BY <1>3, <1>4 DEF Answered, MoreRead
  <1>7. m # None  BY <1>6, Nothing
  <1>. HIDE DEF m
  <1>8. Readies(tab, tab.first, m, tab.steady)
    BY <1>1, <1>2, <1>3, <1>6, <1>7 DEF Readies
  <1>9. faults' \in 0..MaxFaults /\ acts' \in 0..MaxActs
    BY <1>1, <1>2 DEF Bounded
  <1>30. tab.loading \in SUBSET Views  BY <1>1 DEF Tab
  <1>. QED  BY <1>2, <1>5, <1>8, <1>9, <1>30, ListStepKeeps

LEMMA LoadMoreKeeps ==
    ASSUME IInv, LoadMore
    PROVE  IInv'
  <1>. DEFINE m == [answered |-> FALSE, result |-> None, view |-> tab.view,
                    cursor |-> tab.pages[tab.view].older]
              l == tab.loading \cup {tab.view}
  <1>1. tab \in Tab /\ Bounded /\ Readies(tab, tab.first, tab.more, tab.steady)
    BY ReadingStands DEF IInv, Sane
  <1>2. /\ Fresh(tab) /\ tab.recovering # tab.view /\ Act
        /\ tab' = [tab EXCEPT !.steady = FALSE, !.loading = l, !.more = m]
        /\ UNCHANGED <<stored, changes, notices, listens, stream, faults>>
    BY <1>1 DEF LoadMore, Tab
  <1>3. tab.recovering = None  BY <1>2, ReadingStands
  <1>4. tab' = Asks(tab, tab.first, m, FALSE, l)  BY <1>1, <1>2 DEF Asks, Tab
  <1>5. tab.view \in Views /\ tab.view \in DOMAIN tab.pages /\ l \in SUBSET Views
    BY <1>1, <1>2 DEF Tab, Fresh
  <1>6. tab.pages[tab.view] \in Page  BY <1>1, <1>5, PagesAre DEF Tab
  <1>7. tab.pages[tab.view].older \in Cursor  BY <1>6 DEF Page
  <1>8. m \in MoreRead /\ ~m.answered /\ m.view = tab.view
    BY <1>5, <1>7 DEF MoreRead
  <1>. HIDE DEF m
  <1>9. m # None  BY <1>8, Nothing
  <1>10. Readies(tab, tab.first, m, FALSE)
    BY <1>1, <1>3, <1>5, <1>8, <1>9 DEF Readies
  <1>11. faults' \in 0..MaxFaults /\ acts' \in 0..MaxActs
    BY <1>1, <1>2, ActIs DEF Bounded
  <1>. QED  BY <1>2, <1>4, <1>5, <1>10, <1>11, ListStepKeeps

LEMMA MoreFailsKeeps ==
    ASSUME IInv, MoreFails
    PROVE  IInv'
  <1>. DEFINE l == tab.loading \ {tab.more.view}
  <1>1. tab \in Tab /\ Bounded /\ Readies(tab, tab.first, tab.more, tab.steady)
    BY ReadingStands DEF IInv, Sane
  <1>2. /\ tab' = [tab EXCEPT !.more = None, !.loading = l] /\ Fault
        /\ UNCHANGED <<stored, changes, notices, listens, stream, acts>>
    BY <1>1 DEF MoreFails, Tab
  <1>3. l \in SUBSET Views  BY <1>1 DEF Tab
  <1>4. tab' = Asks(tab, tab.first, None, tab.steady, l)  BY <1>1, <1>2 DEF Asks, Tab
  <1>5. Readies(tab, tab.first, None, tab.steady)  BY <1>1 DEF Readies
  <1>6. faults' \in 0..MaxFaults /\ acts' \in 0..MaxActs
    BY <1>1, <1>2, FaultIs DEF Bounded
  <1>. QED  BY <1>2, <1>3, <1>4, <1>5, <1>6, ListStepKeeps

\* The tab w with a page that the list has read.
Gains(w, rows, pages, f, m, l) ==
  [w EXCEPT !.rows = rows, !.pages = pages, !.first = f, !.more = m, !.loading = l]

Gainful(w, rows, pages, f, m) ==
  /\ rows \in Lines /\ pages \in Pages /\ f \in {w.first, None} /\ m \in {w.more, None}
  /\ DOMAIN w.pages \subseteq DOMAIN pages
  /\ \A v \in DOMAIN pages : ToSet(pages[v].ids) \subseteq DOMAIN rows

LEMMA GainsIs ==
    ASSUME NEW w \in Tab, NEW rows, NEW pages, NEW f, NEW m, Gainful(w, rows, pages, f, m),
           NEW l \in SUBSET Views, NEW r, r = Gains(w, rows, pages, f, m, l)
    PROVE  /\ r \in Tab /\ r.rows = rows /\ r.pages = pages /\ r.first = f /\ r.more = m
           /\ r.view = w.view /\ r.open = w.open /\ r.recovering = w.recovering
           /\ r.prefetch = w.prefetch /\ r.recover = w.recover /\ r.pending = w.pending
           /\ r.shown = w.shown /\ r.detail = w.detail /\ r.details = w.details
           /\ r.counts = w.counts /\ r.star = w.star /\ r.healthy = w.healthy
           /\ r.status = w.status /\ r.steady = w.steady /\ r.job = w.job
  <1>1. r = [w EXCEPT !.rows = rows, !.pages = pages, !.first = f, !.more = m, !.loading = l]
    BY DEF Gains
  <1>2. /\ rows \in Lines /\ pages \in Pages
        /\ f \in FirstRead \cup {None} /\ m \in MoreRead \cup {None}
    BY DEF Gainful, Tab
  <1>3. r \in Tab
    <2>1. Shaped(r, w)  BY <1>1, <1>2 DEF Shaped
    <2>2. TabTyped(r)  BY <1>1, <1>2 DEF Tab, TabTyped
    <2>. QED  BY <1>1, <1>2, <2>1, <2>2, TabIs
  <1>4. /\ r.rows = rows /\ r.pages = pages /\ r.first = f /\ r.more = m
        /\ r.view = w.view /\ r.open = w.open /\ r.recovering = w.recovering
        /\ r.prefetch = w.prefetch /\ r.recover = w.recover /\ r.pending = w.pending
        /\ r.shown = w.shown /\ r.detail = w.detail /\ r.details = w.details
        /\ r.counts = w.counts /\ r.star = w.star /\ r.healthy = w.healthy
        /\ r.status = w.status /\ r.steady = w.steady /\ r.job = w.job
    BY <1>1 DEF Tab
  <1>. QED  BY <1>3, <1>4

LEMMA GainsKeeps ==
    ASSUME NEW w, Sane(w), NEW due, NEW some, NEW db, Agrees(w, due, some, db), ~Believes(w),
           NEW rows, NEW pages, NEW f, NEW m, Gainful(w, rows, pages, f, m),
           NEW l \in SUBSET Views, NEW r, r = Gains(w, rows, pages, f, m, l)
    PROVE  Sane(r) /\ Agrees(r, due, some, db)
  <1>1. w \in Tab /\ Reconciles(w) /\ Opens(w) /\ Lists(w)  BY DEF Sane
  <1>2. /\ r \in Tab /\ r.rows = rows /\ r.pages = pages /\ r.first = f /\ r.more = m
    BY <1>1, GainsIs
  <1>3. /\ r.view = w.view /\ r.open = w.open /\ r.recovering = w.recovering
        /\ r.prefetch = w.prefetch /\ r.recover = w.recover /\ r.pending = w.pending
        /\ r.shown = w.shown /\ r.detail = w.detail /\ r.details = w.details
        /\ r.counts = w.counts /\ r.star = w.star /\ r.healthy = w.healthy
        /\ r.status = w.status /\ r.steady = w.steady /\ r.job = w.job
    BY <1>1, GainsIs
  <1>4. Kept(r)  BY <1>2 DEF Kept, Gainful
  <1>5. ~Believes(r)  BY <1>3 DEF Believes
  <1>6. Reconciles(r)  BY <1>1, <1>2, <1>3 DEF Reconciles, Gainful
  <1>7. Opens(r)  BY <1>1, <1>3 DEF Opens
  <1>8. Lists(r)  BY <1>1, <1>2, <1>3, <1>5 DEF Lists, Gainful
  <1>9. OpenAgrees(w, due, db) /\ CountsAgree(w, some, db) /\ ListAgrees(w, due, db)
    BY DEF Agrees
  <1>10. \A t : Planning(r, t) <=> Planning(w, t)  BY <1>3 DEF Planning
  <1>11. OpenAgrees(r, due, db)
    BY <1>3, <1>9, <1>10 DEF OpenAgrees, FoundAgrees
  <1>12. CountsAgree(r, some, db)  BY <1>3, <1>9 DEF CountsAgree
  <1>13. PageAgrees(r, due, db)  BY <1>5 DEF PageAgrees
  <1>14. ListAgrees(r, due, db)  BY <1>3, <1>9, <1>10 DEF ListAgrees
  <1>. QED  BY <1>2, <1>4, <1>6, <1>7, <1>8, <1>11, <1>12, <1>13, <1>14 DEF Sane, Agrees

LEMMA GainsStepKeeps ==
    ASSUME IInv, UNCHANGED <<stored, changes, notices, listens, stream, faults, acts>>,
           ~Believes(tab),
           NEW rows, NEW pages, NEW f, NEW m, Gainful(tab, rows, pages, f, m),
           NEW l \in SUBSET Views, NEW r, r = Gains(tab, rows, pages, f, m, l), Becomes(r),
           f = tab.first \/ (f = None /\ Fresh(r))
    PROVE  IInv'
  <1>. DEFINE due == Due(stream, notices)
              some == Some(stream, notices)
  <1>1. /\ Bounded /\ StreamSound /\ Sane(tab) /\ Agrees(tab, due, some, stored) /\ tab \in Tab
    BY DEF IInv, Sane
  <1>2. Bounded' /\ StreamSound' /\ due = Due(stream', notices') /\ some = Some(stream', notices')
    BY <1>1 DEF Bounded, StreamSound
  <1>. HIDE DEF due, some
  <1>3. Sane(r) /\ Agrees(r, due, some, stored)  BY <1>1, GainsKeeps
  <1>4. r.first = f  BY <1>1, GainsIs
  <1>. QED  BY <1>2, <1>3, <1>4, BecomesKeeps

LEMMA FirstArrivesKeeps ==
    ASSUME IInv, FirstArrives
    PROVE  IInv'
  <1>. DEFINE read == tab.first.result
              rows == Overlay(tab.rows, read.rows)
              view == tab.first.view
              page == HydratedPage(read, rows)
              one == [v \in {view} |-> page]
              pages == Overlay(tab.pages, one)
              l == tab.loading \ {view}
              r == Gains(tab, rows, pages, None, tab.more, l)
  <1>1. /\ tab \in Tab /\ Kept(tab) /\ Readies(tab, tab.first, tab.more, tab.steady)
    BY ReadingStands DEF IInv, Sane
  <1>2. /\ tab.first # None /\ tab.first.answered
        /\ UNCHANGED <<stored, changes, notices, listens, stream, faults, acts>>
    BY DEF FirstArrives
  <1>3. tab.first \in FirstRead /\ view = tab.view /\ read # None /\ ~Believes(tab)
    BY <1>1, <1>2 DEF Tab, Readies
  <1>4. view \in Views /\ read \in ListRead  BY <1>3 DEF FirstRead
  <1>5. Becomes(r)
    <2>1. r = [tab EXCEPT !.first = None, !.rows = rows, !.loading = l, !.pages = pages]
      BY <1>1 DEF Gains, Tab
    <2>2. [tab EXCEPT !.first = None, !.rows = rows, !.loading = @ \ {view}, !.pages = Overlay(@, one)]
            = [tab EXCEPT !.first = None, !.rows = rows, !.loading = l, !.pages = pages]
      BY <1>1 DEF Tab
    <2>. QED  BY <2>1, <2>2 DEF FirstArrives
  <1>. HIDE DEF read
  <1>6. tab.rows \in Lines /\ tab.pages \in Pages /\ read.rows \in Lines
    BY <1>1, <1>4, ReadIs DEF Tab
  <1>7. rows \in Lines /\ DOMAIN rows = DOMAIN tab.rows \cup DOMAIN read.rows
    BY <1>6, LinesOverlaid
  <1>. HIDE DEF rows
  <1>8. page \in Page /\ ToSet(page.ids) = DOMAIN read.rows /\ ~page.stale
    BY <1>4, <1>7, HydratedIs
  <1>. HIDE DEF page, view
  <1>9. /\ pages \in Pages /\ DOMAIN pages = DOMAIN tab.pages \cup {view}
        /\ pages[view] = page /\ \A v \in DOMAIN tab.pages \ {view} : pages[v] = tab.pages[v]
    <2>1. one \in [{view} -> {page}]  OBVIOUS
    <2>2. DOMAIN one = {view} /\ one[view] = page  OBVIOUS
    <2>. HIDE DEF one
    <2>3. /\ DOMAIN pages = DOMAIN tab.pages \cup DOMAIN one
          /\ \A v \in DOMAIN one : pages[v] = one[v]
          /\ \A v \in DOMAIN tab.pages : v \notin DOMAIN one => pages[v] = tab.pages[v]
      BY OverlayIs
    <2>4. pages \in Pages  BY <1>4, <1>6, <1>8, <2>1, PageWritten
    <2>. QED  BY <2>2, <2>3, <2>4
  <1>10. r = Gains(tab, rows, pages, None, tab.more, l) /\ l \in SUBSET Views  BY <1>1 DEF Tab
  <1>. HIDE DEF pages, l, r
  <1>11. \A v \in DOMAIN pages : ToSet(pages[v].ids) \subseteq DOMAIN rows
    BY <1>1, <1>7, <1>8, <1>9 DEF Kept
  <1>12. Gainful(tab, rows, pages, None, tab.more)
    BY <1>7, <1>9, <1>11 DEF Gainful
  <1>13. r.pages = pages /\ r.view = tab.view  BY <1>1, <1>10, <1>12, GainsIs
  <1>14. Fresh(r)  BY <1>3, <1>8, <1>9, <1>13 DEF Fresh
  <1>. QED  BY <1>2, <1>3, <1>5, <1>10, <1>12, <1>14, GainsStepKeeps

LEMMA MoreArrivesKeeps ==
    ASSUME IInv, MoreArrives
    PROVE  IInv'
  <1>. DEFINE read == tab.more.result
              rows == Overlay(tab.rows, read.rows)
              view == tab.more.view
              ids == ToSet(tab.pages[view].ids) \cup DOMAIN read.rows
              page == [tab.pages[view] EXCEPT !.ids = Sorted(ids, rows), !.older = read.older]
              pages == [tab.pages EXCEPT ![view] = page]
              l == tab.loading \ {view}
              r == Gains(tab, rows, pages, tab.first, None, l)
  <1>1. /\ tab \in Tab /\ Kept(tab) /\ Readies(tab, tab.first, tab.more, tab.steady)
    BY ReadingStands DEF IInv, Sane
  <1>2. /\ tab.more # None /\ tab.more.answered
        /\ UNCHANGED <<stored, changes, notices, listens, stream, faults, acts>>
    BY DEF MoreArrives
  <1>3. tab.more \in MoreRead /\ view \in DOMAIN tab.pages /\ read # None /\ ~Believes(tab)
    BY <1>1, <1>2 DEF Tab, Readies, Believes
  <1>4. read \in ListRead  BY <1>3 DEF MoreRead
  <1>5. Becomes(r)
    <2>1. r = [tab EXCEPT !.more = None, !.rows = rows, !.loading = l, !.pages = pages]
      BY <1>1 DEF Gains, Tab
    <2>2. [tab EXCEPT !.more = None, !.rows = rows, !.loading = @ \ {view},
                      !.pages[view] = [@ EXCEPT !.ids = Sorted(ids, rows), !.older = read.older]]
            = [tab EXCEPT !.more = None, !.rows = rows, !.loading = l, !.pages = pages]
      BY <1>1 DEF Tab
    <2>. QED  BY <2>1, <2>2 DEF MoreArrives
  <1>. HIDE DEF read, view
  <1>6. tab.rows \in Lines /\ tab.pages \in Pages /\ read.rows \in Lines /\ read.older \in Cursor
    BY <1>1, <1>4, ReadIs DEF Tab
  <1>7. rows \in Lines /\ DOMAIN rows = DOMAIN tab.rows \cup DOMAIN read.rows
    BY <1>6, LinesOverlaid
  <1>. HIDE DEF rows
  <1>8. ToSet(tab.pages[view].ids) \subseteq DOMAIN tab.rows
    BY <1>1, <1>3 DEF Kept
  <1>9. ids \subseteq DOMAIN rows  BY <1>7, <1>8
  <1>. HIDE DEF ids
  <1>10. ids \in SUBSET Threads /\ \A t \in ids : rows[t].at \in Nat
    BY <1>7, <1>9, LinesAre
  <1>11. Sorted(ids, rows) \in Seq(Threads) /\ ToSet(Sorted(ids, rows)) = ids
    BY <1>10, SortedIs
  <1>12. tab.pages[view] \in Page  BY <1>3, <1>6, PagesAre
  <1>13. page \in Page /\ page.ids = Sorted(ids, rows)
    BY <1>6, <1>11, <1>12 DEF Page
  <1>. HIDE DEF page
  <1>14. /\ DOMAIN pages = DOMAIN tab.pages
         /\ \A v \in DOMAIN pages : pages[v] = IF v = view THEN page ELSE tab.pages[v]
    BY <1>3
  <1>15. pages \in Pages
    <2>1. DOMAIN pages \subseteq Views /\ \A v \in DOMAIN tab.pages : tab.pages[v] \in Page
      BY <1>6, <1>14, PagesAre
    <2>2. pages \in [DOMAIN pages -> Page]  BY <1>13, <2>1
    <2>. HIDE DEF pages
    <2>3. pages \in Partial(Views, Page)  BY <2>1, <2>2, PartialIs
    <2>. QED  BY <2>3, AllPartial
  <1>16. r = Gains(tab, rows, pages, tab.first, None, l) /\ l \in SUBSET Views  BY <1>1 DEF Tab
  <1>. HIDE DEF pages, l, r
  <1>17. \A v \in DOMAIN pages : ToSet(pages[v].ids) \subseteq DOMAIN rows
    BY <1>1, <1>7, <1>9, <1>11, <1>13, <1>14 DEF Kept
  <1>18. Gainful(tab, rows, pages, tab.first, None)
    BY <1>7, <1>14, <1>15, <1>17 DEF Gainful
  <1>. QED  BY <1>2, <1>3, <1>5, <1>16, <1>18, GainsStepKeeps

-----------------------------------------------------------------------------
(* The star.                                                               *)

\* The tab w with its rows, its click and whether it has been left alone changed.
Clicked(w, rows, star, steady, p) ==
  [w EXCEPT !.rows = rows, !.star = star, !.steady = steady, !.predicted = p]

Pends(star, t) == star # None /\ star.thread = t /\ star.state \in {"sent", "answered"}

\* The rows differ by stars, and a star that was stored is, or is being written, unless
\* the tab does not take the page for what is stored.
Clickable(w, rows, star, steady, due, db) ==
  /\ rows \in Lines /\ star \in Click \cup {None} /\ steady \in BOOLEAN
  /\ DOMAIN rows = DOMAIN w.rows
  /\ \A t \in DOMAIN rows : rows[t].rev = w.rows[t].rev /\ rows[t].at = w.rows[t].at
  /\ steady =>
       /\ w.steady
       /\ \A t \in DOMAIN rows :
            w.rows[t].star = SummaryOf(db[t]).star \/ Pends(w.star, t) =>
              rows[t].star = SummaryOf(db[t]).star \/ Pends(star, t) \/ t \in due

LEMMA ClickedIs ==
    ASSUME NEW w \in Tab, NEW rows, NEW star, NEW steady, NEW due, NEW db,
           Clickable(w, rows, star, steady, due, db), NEW p \in Prediction \cup {None},
           NEW r, r = Clicked(w, rows, star, steady, p)
    PROVE  /\ r \in Tab /\ r.rows = rows /\ r.star = star /\ r.steady = steady
           /\ r.view = w.view /\ r.open = w.open /\ r.recovering = w.recovering
           /\ r.first = w.first /\ r.more = w.more /\ r.pages = w.pages
           /\ r.prefetch = w.prefetch /\ r.recover = w.recover /\ r.pending = w.pending
           /\ r.shown = w.shown /\ r.detail = w.detail /\ r.details = w.details
           /\ r.counts = w.counts /\ r.healthy = w.healthy
           /\ r.status = w.status /\ r.job = w.job
  <1>1. r = [w EXCEPT !.rows = rows, !.star = star, !.steady = steady, !.predicted = p]
    BY DEF Clicked
  <1>2. rows \in Lines /\ star \in Click \cup {None} /\ steady \in BOOLEAN
    BY DEF Clickable
  <1>3. r \in Tab
    <2>1. Shaped(r, w)  BY <1>1, <1>2 DEF Shaped
    <2>2. TabTyped(r)  BY <1>1, <1>2 DEF Tab, TabTyped
    <2>. QED  BY <1>1, <1>2, <2>1, <2>2, TabIs
  <1>4. /\ r.rows = rows /\ r.star = star /\ r.steady = steady
        /\ r.view = w.view /\ r.open = w.open /\ r.recovering = w.recovering
        /\ r.first = w.first /\ r.more = w.more /\ r.pages = w.pages
        /\ r.prefetch = w.prefetch /\ r.recover = w.recover /\ r.pending = w.pending
        /\ r.shown = w.shown /\ r.detail = w.detail /\ r.details = w.details
        /\ r.counts = w.counts /\ r.healthy = w.healthy
        /\ r.status = w.status /\ r.job = w.job
    BY <1>1 DEF Tab
  <1>. QED  BY <1>3, <1>4

LEMMA ClickedKeeps ==
    ASSUME NEW w, Sane(w), FirstRuns(w), NEW due, NEW some, NEW db, Agrees(w, due, some, db),
           NEW rows, NEW star, NEW steady,
           Clickable(w, rows, star, steady, due, db), NEW p \in Prediction \cup {None},
           NEW r, r = Clicked(w, rows, star, steady, p)
    PROVE  Sane(r) /\ FirstRuns(r) /\ Agrees(r, due, some, db)
  <1>1. w \in Tab /\ Kept(w) /\ Reconciles(w) /\ Opens(w) /\ Lists(w)
    BY DEF Sane
  <1>2. /\ r \in Tab /\ r.rows = rows /\ r.star = star /\ r.steady = steady
    BY <1>1, ClickedIs
  <1>3. /\ r.view = w.view /\ r.open = w.open /\ r.recovering = w.recovering
        /\ r.first = w.first /\ r.more = w.more /\ r.pages = w.pages
        /\ r.prefetch = w.prefetch /\ r.recover = w.recover /\ r.pending = w.pending
        /\ r.shown = w.shown /\ r.detail = w.detail /\ r.details = w.details
        /\ r.counts = w.counts /\ r.healthy = w.healthy
        /\ r.status = w.status /\ r.job = w.job
    BY <1>1, ClickedIs
  <1>4. DOMAIN rows = DOMAIN w.rows /\ (steady => w.steady)  BY DEF Clickable
  <1>5. Kept(r) /\ (Fresh(r) <=> Fresh(w)) /\ (Believes(r) => Believes(w) /\ steady)
    BY <1>1, <1>2, <1>3, <1>4 DEF Kept, Fresh, Believes
  <1>6. Reconciles(r)  BY <1>1, <1>3 DEF Reconciles
  <1>7. Opens(r)  BY <1>1, <1>3 DEF Opens
  <1>8. w.more # None => ~steady  BY <1>1, <1>4 DEF Lists
  <1>9. Lists(r)  BY <1>1, <1>2, <1>3, <1>5, <1>8 DEF Lists
  <1>10. FirstRuns(r)  BY <1>3, <1>5 DEF FirstRuns
  <1>11. /\ OpenAgrees(w, due, db) /\ CountsAgree(w, some, db)
         /\ PageAgrees(w, due, db) /\ ListAgrees(w, due, db)
    BY DEF Agrees
  <1>12. \A t : /\ Planning(r, t) <=> Planning(w, t)
                /\ Patching(r, t) <=> Patching(w, t)
    BY <1>3 DEF Planning, Patching
  <1>13. OpenAgrees(r, due, db)
    BY <1>3, <1>11, <1>12 DEF OpenAgrees, FoundAgrees
  <1>14. CountsAgree(r, some, db)  BY <1>3, <1>11 DEF CountsAgree
  <1>15. ListAgrees(r, due, db)  BY <1>3, <1>11, <1>12 DEF ListAgrees
  <1>16. ASSUME Believes(r), NEW t \in ToSet(r.pages[r.view].ids)
         PROVE  \/ RowAgrees(r, t, db) \/ t \in due \/ Planning(r, t) \/ Patching(r, t)
                \/ r.job # None /\ r.job.failed
    <2>1. t \in ToSet(w.pages[w.view].ids) /\ Believes(w) /\ steady
      BY <1>3, <1>5, <1>16
    <2>2. t \in DOMAIN rows  BY <1>1, <1>4, <1>5, <2>1 DEF Kept, Lists, Fresh
    <2>3. /\ rows[t].rev = w.rows[t].rev /\ rows[t].at = w.rows[t].at
          /\ w.rows[t].star = SummaryOf(db[t]).star \/ Pends(w.star, t) =>
               rows[t].star = SummaryOf(db[t]).star \/ Pends(star, t) \/ t \in due
      BY <2>1, <2>2 DEF Clickable
    <2>4. RowAgrees(w, t, db) => RowAgrees(r, t, db) \/ t \in due
      BY <1>2, <1>3, <2>3 DEF RowAgrees, StarPends, Pends
    <2>5. \/ RowAgrees(w, t, db) \/ t \in due \/ Planning(w, t) \/ Patching(w, t)
          \/ w.job # None /\ w.job.failed
      BY <1>11, <2>1 DEF PageAgrees
    <2>. QED  BY <1>3, <1>12, <2>4, <2>5
  <1>17. PageAgrees(r, due, db)  BY <1>16 DEF PageAgrees
  <1>. QED  BY <1>2, <1>5, <1>6, <1>7, <1>9, <1>10, <1>13, <1>14, <1>15, <1>17 DEF Sane, Agrees

LEMMA ClickStepKeeps ==
    ASSUME IInv, UNCHANGED <<stored, changes, notices, listens, stream>>,
           faults' \in 0..MaxFaults, acts' \in 0..MaxActs,
           NEW rows, NEW star, NEW steady,
           Clickable(tab, rows, star, steady, Due(stream, notices), stored),
           NEW p \in Prediction \cup {None}, tab' = Clicked(tab, rows, star, steady, p)
    PROVE  IInv'
  <1>. DEFINE due == Due(stream, notices)
              some == Some(stream, notices)
  <1>1. Sane(tab) /\ FirstRuns(tab) /\ Agrees(tab, due, some, stored)
    BY DEF IInv
  <1>2. Clickable(tab, rows, star, steady, due, stored)  OBVIOUS
  <1>. HIDE DEF due, some
  <1>3. Sane(tab') /\ FirstRuns(tab') /\ Agrees(tab', due, some, stored)
    BY <1>1, <1>2, ClickedKeeps
  <1>. QED  BY <1>3, ReadsKeeps DEF due, some

\* The star of a cached row.
Starred(rows, t, star) == IF t \in DOMAIN rows THEN [rows EXCEPT ![t].star = star] ELSE rows

LEMMA StarredIs ==
    ASSUME NEW rows \in Lines, NEW t, NEW star \in BOOLEAN
    PROVE  /\ Starred(rows, t, star) \in Lines /\ DOMAIN Starred(rows, t, star) = DOMAIN rows
           /\ \A u \in DOMAIN rows :
                /\ Starred(rows, t, star)[u].rev = rows[u].rev
                /\ Starred(rows, t, star)[u].at = rows[u].at
                /\ Starred(rows, t, star)[u].star = IF u = t THEN star ELSE rows[u].star
  <1>1. DOMAIN rows \in SUBSET Threads /\ \A u \in DOMAIN rows : rows[u] \in Line
    BY LinesAre
  <1>2. CASE t \notin DOMAIN rows  BY <1>2 DEF Starred
  <1>3. CASE t \in DOMAIN rows
    <2>. DEFINE line == [rows[t] EXCEPT !.star = star]
                g == [rows EXCEPT ![t] = line]
    <2>1. Starred(rows, t, star) = g  BY <1>3 DEF Starred
    <2>2. rows[t] \in Line  BY <1>1, <1>3
    <2>3. line \in Line /\ line.rev = rows[t].rev /\ line.at = rows[t].at /\ line.star = star
      BY <2>2 DEF Line
    <2>. HIDE DEF line
    <2>4. DOMAIN g = DOMAIN rows /\ \A u \in DOMAIN rows : g[u] = IF u = t THEN line ELSE rows[u]
      BY <1>3
    <2>5. g \in [DOMAIN g -> Line]  BY <1>1, <2>3, <2>4
    <2>. HIDE DEF g
    <2>6. g \in Partial(Threads, Line)  BY <1>1, <2>4, <2>5, PartialIs
    <2>7. g \in Lines  BY <2>6, AllPartial
    <2>. QED  BY <2>1, <2>3, <2>4, <2>7
  <1>. QED  BY <1>2, <1>3

\* The star of an opened thread, as the button shows it.
LEMMA ButtonIs ==
    ASSUME IInv, NEW t \in Threads, tab.open = t, HasButton(tab)
    PROVE  /\ tab.details[t] \in Line /\ ButtonStar(tab, tab.details[t]) \in BOOLEAN
           /\ \A now \in BOOLEAN :
                [stored |-> tab.details[t].star, star |-> now] \in Prediction
  <1>1. tab.details \in Lines /\ tab.predicted \in Prediction \cup {None}
    BY DEF IInv, Sane, Tab
  <1>2. tab.details[t] \in Line  BY <1>1, LinesAre DEF HasButton
  <1>3. tab.details[t].star \in BOOLEAN  BY <1>2 DEF Line
  <1>4. tab.predicted # None => tab.predicted.star \in BOOLEAN  BY <1>1 DEF Prediction
  <1>5. ButtonStar(tab, tab.details[t]) \in BOOLEAN
    BY <1>3, <1>4, Zenon DEF ButtonStar
  <1>. QED  BY <1>2, <1>3, <1>5 DEF Prediction

LEMMA StarKeeps ==
    ASSUME IInv, NEW t \in Threads, Star(t)
    PROVE  IInv'
  <1>. DEFINE detail == tab.details[t]
              was == ButtonStar(tab, detail)
              now == ~was
              rows == Starred(tab.rows, t, now)
              star == [thread |-> t, message |-> detail.at, was |-> was, state |-> "sent"]
              p == [stored |-> detail.star, star |-> now]
  <1>1. tab \in Tab /\ Bounded  BY DEF IInv, Sane
  <1>2. /\ tab.star = None /\ tab.open = t /\ HasButton(tab) /\ Act
        /\ tab' = [PatchStar(tab, t, now) EXCEPT !.star = star, !.predicted = p]
        /\ UNCHANGED <<stored, changes, notices, listens, stream, faults>>
    BY DEF Star
  <1>3. tab.rows \in Lines /\ tab.steady \in BOOLEAN  BY <1>1 DEF Tab
  <1>4. was \in BOOLEAN /\ detail \in Line  BY <1>2, ButtonIs
  <1>5. tab' = Clicked(tab, rows, star, tab.steady, p)
    BY <1>1, <1>2, ZenonT(60) DEF PatchStar, Starred, Clicked, Tab
  <1>6. now \in BOOLEAN  OBVIOUS
  <1>14. p \in Prediction  BY <1>2, <1>6, ButtonIs
  <1>. HIDE DEF was, now, p
  <1>7. /\ rows \in Lines /\ DOMAIN rows = DOMAIN tab.rows
        /\ \A u \in DOMAIN tab.rows : /\ rows[u].rev = tab.rows[u].rev
                                      /\ rows[u].at = tab.rows[u].at
                                      /\ u # t => rows[u].star = tab.rows[u].star
    BY <1>3, <1>6, StarredIs
  <1>8. star \in Click /\ star.thread = t /\ star.state = "sent"
    BY <1>4 DEF Click, Line
  <1>9. star # None  BY <1>8, Nothing
  <1>. HIDE DEF rows, star
  <1>10. \A u : ~Pends(tab.star, u)  BY <1>2 DEF Pends
  <1>11. Pends(star, t)  BY <1>8, <1>9 DEF Pends
  <1>12. Clickable(tab, rows, star, tab.steady, Due(stream, notices), stored)
    BY <1>3, <1>7, <1>8, <1>10, <1>11 DEF Clickable
  <1>13. faults' \in 0..MaxFaults /\ acts' \in 0..MaxActs
    BY <1>1, <1>2, ActIs DEF Bounded
  <1>. QED  BY <1>2, <1>5, <1>12, <1>13, <1>14, ClickStepKeeps

LEMMA ClickIs ==
    ASSUME IInv, tab.star # None
    PROVE  /\ tab.star \in Click /\ tab.star.thread \in Threads /\ tab.star.was \in BOOLEAN
           /\ tab.star.message \in 0..MaxChanges
           /\ tab.star.state \in {"sent", "answered", "stored"}
           /\ \A s \in {"sent", "answered", "stored"} :
                /\ [tab.star EXCEPT !.state = s] \in Click
                /\ [tab.star EXCEPT !.state = s].thread = tab.star.thread
                /\ [tab.star EXCEPT !.state = s].state = s
                /\ [tab.star EXCEPT !.state = s] # None
  <1>1. tab.star \in Click  BY DEF IInv, Sane, Tab
  <1>2. \A s \in {"sent", "answered", "stored"} :
          /\ [tab.star EXCEPT !.state = s] \in Click
          /\ [tab.star EXCEPT !.state = s].thread = tab.star.thread
          /\ [tab.star EXCEPT !.state = s].state = s
    BY <1>1 DEF Click
  <1>3. /\ tab.star.thread \in Threads /\ tab.star.was \in BOOLEAN
        /\ tab.star.message \in 0..MaxChanges
        /\ tab.star.state \in {"sent", "answered", "stored"}
    BY <1>1 DEF Click
  <1>. QED  BY <1>1, <1>2, <1>3, Nothing

LEMMA StarAnsweredKeeps ==
    ASSUME IInv, StarAnswered
    PROVE  IInv'
  <1>. DEFINE star == IF tab.star.state = "stored" THEN None
                      ELSE [tab.star EXCEPT !.state = "answered"]
  <1>1. tab \in Tab /\ Bounded  BY DEF IInv, Sane
  <1>2. /\ tab.star # None /\ tab.star.state \in {"sent", "stored"}
        /\ tab' = [tab EXCEPT !.star = star]
        /\ UNCHANGED <<stored, changes, notices, listens, stream, faults, acts>>
    BY <1>1 DEF StarAnswered, Tab
  <1>3. tab' = Clicked(tab, tab.rows, star, tab.steady, tab.predicted)
    BY <1>1, <1>2 DEF Clicked, Tab
  <1>4. tab.rows \in Lines /\ tab.steady \in BOOLEAN  BY <1>1 DEF Tab
  <1>5. star \in Click \cup {None} /\ \A u : Pends(tab.star, u) => Pends(star, u)
    BY <1>2, ClickIs DEF Pends
  <1>. HIDE DEF star
  <1>6. Clickable(tab, tab.rows, star, tab.steady, Due(stream, notices), stored)
    BY <1>4, <1>5 DEF Clickable
  <1>7. faults' \in 0..MaxFaults /\ acts' \in 0..MaxActs
    BY <1>1, <1>2 DEF Bounded
  <1>30. tab.predicted \in Prediction \cup {None}  BY <1>1 DEF Tab
  <1>. QED  BY <1>2, <1>3, <1>6, <1>7, <1>30, ClickStepKeeps

LEMMA StarFailsKeeps ==
    ASSUME IInv, StarFails
    PROVE  IInv'
  <1>. DEFINE t == tab.star.thread
              was == tab.star.was
              rows == Starred(tab.rows, t, was)
  <1>1. tab \in Tab /\ Bounded  BY DEF IInv, Sane
  <1>2. /\ tab.star # None /\ Fault
        /\ UNCHANGED <<stored, changes, notices, listens, stream, acts>>
    BY DEF StarFails
  <1>3. PICK next \in {None, [tab.star EXCEPT !.state = "answered"]} :
          tab' = [PatchStar(tab, t, was) EXCEPT
                    !.star = next, !.predicted = None,
                    !.steady = @ /\ (next # None \/ Mended(PatchStar(tab, t, was), t))]
    BY DEF StarFails
  <1>. DEFINE steady == tab.steady /\ (next # None \/ Mended(PatchStar(tab, t, was), t))
  <1>13. PatchStar(tab, t, was) = [tab EXCEPT !.rows = rows]
    BY <1>1 DEF PatchStar, Starred, Tab
  <1>14. [tab EXCEPT !.rows = rows].steady = tab.steady /\ [tab EXCEPT !.rows = rows].rows = rows
    BY <1>1 DEF Tab
  <1>4. tab' = Clicked(tab, rows, next, steady, None)
    BY <1>1, <1>3, <1>13, <1>14 DEF Clicked, Tab
  <1>5. tab.rows \in Lines /\ t \in Threads /\ was \in BOOLEAN
    BY <1>1, <1>2, ClickIs DEF Tab
  <1>6. /\ rows \in Lines /\ DOMAIN rows = DOMAIN tab.rows
        /\ \A u \in DOMAIN tab.rows : /\ rows[u].rev = tab.rows[u].rev
                                      /\ rows[u].at = tab.rows[u].at
                                      /\ rows[u].star = IF u = t THEN was ELSE tab.rows[u].star
    BY <1>5, StarredIs
  <1>7. /\ steady \in BOOLEAN
        /\ steady => /\ tab.steady
                     /\ next # None \/ (t \in DOMAIN rows => rows[t].star = SummaryOf(stored[t]).star)
    BY <1>1, <1>13, <1>14 DEF Tab, Mended, Summary
  <1>8. next \in Click \cup {None} /\ (next # None => Pends(next, t))
    BY <1>2, ClickIs DEF Pends
  <1>9. \A u : u # t => ~Pends(tab.star, u)  BY DEF Pends
  <1>. HIDE DEF steady, rows, t, was
  <1>10. steady => \A u \in DOMAIN rows :
           tab.rows[u].star = SummaryOf(stored[u]).star \/ Pends(tab.star, u) =>
             rows[u].star = SummaryOf(stored[u]).star \/ Pends(next, u)
    BY <1>6, <1>7, <1>8, <1>9
  <1>11. Clickable(tab, rows, next, steady, Due(stream, notices), stored)
    BY <1>6, <1>7, <1>8, <1>10 DEF Clickable
  <1>12. faults' \in 0..MaxFaults /\ acts' \in 0..MaxActs
    BY <1>1, <1>2, FaultIs DEF Bounded
  <1>. QED  BY <1>2, <1>4, <1>11, <1>12, ClickStepKeeps

LEMMA StarStoredKeeps ==
    ASSUME IInv, StarStored
    PROVE  IInv'
  <1>. DEFINE t == tab.star.thread
              m == tab.star.message
              starred == IF tab.star.was THEN stored[t].starred \ {m}
                         ELSE stored[t].starred \cup {m}
              written == starred # stored[t].starred
              row == [stored[t] EXCEPT !.starred = starred]
              e == [recover |-> FALSE, ids |-> {t}]
              star == IF tab.star.state = "answered" THEN None
                      ELSE [tab.star EXCEPT !.state = "stored"]
              steady == tab.steady /\ (written \/ Mended(tab, t))
              due == Due(stream, notices')
              some == Some(stream, notices')
  <1>1. /\ tab \in Tab /\ Sane(tab) /\ FirstRuns(tab) /\ Bounded /\ StreamSound
        /\ Agrees(tab, Due(stream, notices), Some(stream, notices), stored)
    BY DEF IInv, Sane
  <1>2. /\ tab.star # None /\ UNCHANGED <<listens, stream, faults, acts>>
        /\ tab' = [tab EXCEPT !.star = star, !.steady = steady]
        /\ written => Commit(t, row, e)
        /\ ~written => UNCHANGED <<stored, changes, notices>>
    BY <1>1 DEF StarStored, Tab
  <1>3. t \in Threads /\ m \in 0..MaxChanges  BY <1>2, ClickIs
  <1>4. row \in Row
    <2>1. stored[t] \in Row /\ m \in Message  BY <1>1, <1>3 DEF Bounded, Mailbox, Message
    <2>2. starred \in SUBSET Message  BY <2>1 DEF Row
    <2>. HIDE DEF starred
    <2>. QED  BY <2>1, <2>2 DEF Row
  <1>5. e \in Event /\ Touches(e, t)  BY <1>3 DEF Event, Touches
  <1>6. star \in Click \cup {None}  BY <1>2, ClickIs
  <1>7. \A u : u # t => ~Pends(tab.star, u)  BY DEF Pends
  <1>8. tab' = Clicked(tab, tab.rows, star, steady, tab.predicted)
    BY <1>1, <1>2 DEF Clicked, Tab
  <1>9. /\ steady \in BOOLEAN /\ (steady => tab.steady)
        /\ steady /\ ~written /\ t \in DOMAIN tab.rows =>
             tab.rows[t].star = SummaryOf(stored[t]).star
    BY <1>1 DEF Tab, Mended, Summary
  <1>. HIDE DEF t, row, e, star, written, steady, m, starred
  <1>10. /\ stored' \in Mailbox /\ changes' \in 0..MaxChanges /\ StreamSound'
         /\ Agrees(tab, due, some, stored')
         /\ t \in due \/ (~written /\ stored' = stored)
    <2>1. CASE written
      BY <1>1, <1>2, <1>3, <1>4, <1>5, <2>1, CommitKeeps
    <2>2. CASE ~written
      BY <1>1, <1>2, <2>2 DEF Bounded, StreamSound
    <2>. QED  BY <2>1, <2>2
  <1>11. tab.rows \in Lines /\ tab.predicted \in Prediction \cup {None}  BY <1>1 DEF Tab
  <1>12. Bounded' /\ due = Due(stream', notices') /\ some = Some(stream', notices')
    BY <1>1, <1>2, <1>10 DEF Bounded
  <1>. HIDE DEF due, some
  <1>13. Clickable(tab, tab.rows, star, steady, due, stored')
    BY <1>6, <1>7, <1>9, <1>10, <1>11 DEF Clickable
  <1>14. Sane(tab') /\ FirstRuns(tab') /\ Agrees(tab', due, some, stored')
    BY <1>1, <1>8, <1>10, <1>11, <1>13, ClickedKeeps
  <1>. QED  BY <1>10, <1>12, <1>14 DEF IInv

-----------------------------------------------------------------------------
(* The initial state.                                                      *)

LEMMA NewTabIs ==
    ASSUME Init
    PROVE  /\ tab \in Tab /\ Kept(tab) /\ Fresh(tab)
           /\ tab.open = None /\ tab.recovering = None /\ tab.first = None /\ tab.more = None
           /\ tab.detail = None /\ tab.prefetch = None /\ tab.job = None /\ ~tab.recover
           /\ tab.pending = {} /\ tab.status = "waiting" /\ ~tab.steady
  <1>. DEFINE page == ListThreads(Home, {})
              one == HydratedPage(page, page.rows)
              pages == [v \in {Home} |-> one]
              counts == SidebarCounts
              rows == page.rows
              none == <<>>
  <1>1. Bounded
    <2>1. 0 \in 0..MaxChanges /\ 0 \in 0..MaxFaults /\ 0 \in 0..MaxActs
      BY BoundsAssumption
    <2>3. {-1} \in SUBSET Message /\ {} \in SUBSET Message  BY BoundsAssumption DEF Message
    <2>2. stored \in [Threads -> Row]  BY <2>1, <2>3, HomeAssumption DEF Init, Row
    <2>. QED  BY <2>1, <2>2 DEF Init, Bounded, Mailbox
  <1>2. page \in ListRead  BY <1>1, ListThreadsIs DEF Answers
  <1>3. counts \in [Views -> Nat]  BY CountsAre
  <1>4. tab = [view |-> Home, open |-> None, pages |-> pages,
               loading |-> {}, predicted |-> None, rows |-> rows, counts |-> counts, details |-> none, shown |-> None,
               recovering |-> None, first |-> None, more |-> None, detail |-> None,
               prefetch |-> None, star |-> None, job |-> None, recover |-> FALSE,
               pending |-> {}, healthy |-> FALSE, streamReady |-> FALSE, errored |-> FALSE,
               status |-> "waiting", steady |-> FALSE]
    BY DEF Init, NewTab
  <1>. HIDE DEF page, counts
  <1>5. rows \in Lines  BY <1>2, ReadIs
  <1>6. one \in Page /\ ToSet(one.ids) = DOMAIN rows /\ ~one.stale
    BY <1>2, <1>5, HydratedIs
  <1>. HIDE DEF one, rows
  <1>7. DOMAIN pages = {Home} /\ pages[Home] = one  OBVIOUS
  <1>8. pages \in Pages
    <2>1. pages \in [DOMAIN pages -> Page] /\ DOMAIN pages \subseteq Views
      BY <1>6, <1>7, HomeAssumption
    <2>. HIDE DEF pages
    <2>2. pages \in Partial(Views, Page)  BY <2>1, PartialIs
    <2>. QED  BY <2>2, AllPartial
  <1>9. none \in Lines
    <2>1. DOMAIN none = {}  OBVIOUS
    <2>2. none \in [DOMAIN none -> Line]  BY <2>1
    <2>. HIDE DEF none
    <2>3. none \in Partial(Threads, Line)  BY <2>1, <2>2, PartialIs
    <2>. QED  BY <2>3, AllPartial
  <1>. HIDE DEF pages, none
  <1>10. tab \in Tab  BY <1>3, <1>4, <1>5, <1>8, <1>9, HomeAssumption DEF Tab
  <1>11. /\ tab.view = Home /\ tab.pages = pages /\ tab.rows = rows
         /\ tab.open = None /\ tab.recovering = None /\ tab.first = None /\ tab.more = None
         /\ tab.detail = None /\ tab.prefetch = None /\ tab.job = None /\ ~tab.recover
         /\ tab.pending = {} /\ tab.status = "waiting" /\ ~tab.steady
    BY <1>4
  <1>12. Kept(tab) /\ Fresh(tab)  BY <1>6, <1>7, <1>11 DEF Kept, Fresh
  <1>. QED  BY <1>10, <1>11, <1>12

LEMMA InitHolds == Init => IInv
  <1>. SUFFICES ASSUME Init PROVE IInv
    OBVIOUS
  <1>1. Bounded
    <2>1. 0 \in 0..MaxChanges /\ 0 \in 0..MaxFaults /\ 0 \in 0..MaxActs
      BY BoundsAssumption
    <2>3. {-1} \in SUBSET Message /\ {} \in SUBSET Message  BY BoundsAssumption DEF Message
    <2>2. stored \in [Threads -> Row]  BY <2>1, <2>3, HomeAssumption DEF Init, Row
    <2>. QED  BY <2>1, <2>2 DEF Init, Bounded, Mailbox
  <1>2. StreamSound /\ stream.state = "connecting"
    <2>1. <<>> \in Seq(Event)  OBVIOUS
    <2>. QED  BY <2>1 DEF Init, StreamSound, NewStream
  <1>3. /\ tab \in Tab /\ Kept(tab) /\ Fresh(tab)
        /\ tab.open = None /\ tab.recovering = None /\ tab.first = None /\ tab.more = None
        /\ tab.detail = None /\ tab.prefetch = None /\ tab.job = None /\ ~tab.recover
        /\ tab.pending = {} /\ tab.status = "waiting" /\ ~tab.steady
    BY NewTabIs
  <1>4. ~Believes(tab) /\ Some(stream, notices)
    BY <1>2, <1>3 DEF Believes, Some
  <1>5. Reconciles(tab) /\ Opens(tab) /\ Lists(tab) /\ FirstRuns(tab)
    BY <1>3, <1>4 DEF Reconciles, Opens, Lists, FirstRuns
  <1>. DEFINE due == Due(stream, notices)
  <1>. HIDE DEF due
  <1>6. OpenAgrees(tab, due, stored) /\ CountsAgree(tab, Some(stream, notices), stored)
    BY <1>3, <1>4 DEF OpenAgrees, FoundAgrees, CountsAgree
  <1>7. PageAgrees(tab, due, stored) /\ ListAgrees(tab, due, stored)
    BY <1>3, <1>4 DEF PageAgrees, ListAgrees
  <1>. QED  BY <1>1, <1>2, <1>3, <1>5, <1>6, <1>7 DEF IInv, Sane, Agrees, due

-----------------------------------------------------------------------------
(* Every step.                                                             *)

LEMMA StutterKeeps ==
    ASSUME IInv, UNCHANGED vars
    PROVE  IInv'
BY DEF IInv, Bounded, StreamSound, vars

LEMMA NextPreserves == IInv /\ [Next]_vars => IInv'
  <1>. SUFFICES ASSUME IInv, [Next]_vars PROVE IInv'
    OBVIOUS
  <1>1. CASE UNCHANGED vars  BY <1>1, StutterKeeps
  <1>2. ASSUME NEW t \in Threads, Change(t) \/ Star(t) \/ Prefetch(t)
        PROVE  IInv'
    BY <1>2, ChangeKeeps, StarKeeps, PrefetchKeeps
  <1>3. ASSUME NEW t \in Threads \cup {None}, Open(t)
        PROVE  IInv'
    BY <1>3, OpenKeeps
  <1>4. ASSUME NEW view \in Views, SwitchView(view)
        PROVE  IInv'
    BY <1>4, SwitchViewKeeps
  <1>5. CASE Reload \/ RetryFirst \/ LoadMore \/ Resume
    BY <1>5, ReloadKeeps, RetryFirstKeeps, LoadMoreKeeps, ResumeKeeps
  <1>6. CASE StarStored \/ StarAnswered \/ StarFails
    BY <1>6, StarStoredKeeps, StarAnsweredKeeps, StarFailsKeeps
  <1>7. CASE ServeList \/ ReadCounts \/ ServeDetail \/ ServeFirst \/ ServeMore \/ ServePrefetch
    BY <1>7, ServeListKeeps, ReadCountsKeeps, ServeDetailKeeps, ServeFirstKeeps, ServeMoreKeeps,
       ServePrefetchKeeps
  <1>8. CASE ListArrives \/ DetailArrives \/ FirstArrives \/ MoreArrives \/ PrefetchArrives
    BY <1>8, ListArrivesKeeps, DetailArrivesKeeps, FirstArrivesKeeps, MoreArrivesKeeps,
       PrefetchArrivesKeeps
  <1>9. CASE \/ Deliver \/ LookupFails \/ LoseSubscription \/ Subscribe \/ OpenStream \/ SayReady
             \/ BreakStream
    BY <1>9, ApiKeeps
  <1>10. CASE HandleReady \/ HandleMailboxChange \/ HandleError
    BY <1>10, HandleReadyKeeps, HandleMailboxChangeKeeps, HandleErrorKeeps
  <1>11. CASE ListFails \/ CountsFail \/ DetailFails \/ FirstFails \/ MoreFails
    BY <1>11, ListFailsKeeps, CountsFailKeeps, DetailFailsKeeps, FirstFailsKeeps, MoreFailsKeeps
  <1>12. Next =>
           \/ \E t \in Threads : Change(t) \/ Star(t) \/ Prefetch(t)
           \/ \E t \in Threads \cup {None} : Open(t)
           \/ \E view \in Views : SwitchView(view)
           \/ Reload \/ RetryFirst \/ LoadMore \/ Resume \/ StarStored \/ StarAnswered
           \/ Proceeds \/ Failed
    BY DEF Next
  <1>13. CASE Proceeds
    BY <1>7, <1>8, <1>9, <1>10, <1>13 DEF Proceeds, Served, Arrived, Streamed
  <1>14. CASE Failed  BY <1>6, <1>9, <1>11, <1>14 DEF Failed
  <1>. QED  BY <1>1, <1>2, <1>3, <1>4, <1>5, <1>6, <1>12, <1>13, <1>14

\* The invariant of the tab, its stream and the mailbox behind it.
THEOREM Inductive == Spec => []IInv
  <1>. QED  BY InitHolds, NextPreserves, PTL DEF Spec

-----------------------------------------------------------------------------
(* The theorems.                                                           *)

\* The tab, the stream and the mailbox have their types, and the store has the rows of
\* every thread on a cached page.
THEOREM TypesHold == Spec => []TypeOK
  <1>1. ASSUME IInv PROVE TypeOK
    <2>1. Bounded /\ StreamSound /\ tab \in Tab /\ Kept(tab)
      BY <1>1 DEF IInv, Sane
    <2>2. /\ tab.view \in Views /\ tab.open \in Threads \cup {None}
          /\ tab.job \in Job \cup {None} /\ tab.detail \in ThreadRead \cup {None}
          /\ tab.shown \in Reader \cup {None} /\ tab.star \in Click \cup {None}
          /\ tab.status \in {"waiting", "ready"}
          /\ tab.loading \in SUBSET Views /\ tab.predicted \in Prediction \cup {None}
          /\ tab.pages \in Pages /\ tab.details \in Lines
      BY <2>1 DEF Tab
    <2>3. DOMAIN tab.pages \subseteq Views /\ DOMAIN tab.details \subseteq Threads
      BY <2>2, PagesAre, PartialIs, AllPartial
    <2>. QED  BY <2>1, <2>2, <2>3 DEF TypeOK, Bounded, Mailbox, StreamSound, Kept
  <1>. QED  BY Inductive, <1>1, PTL

\* A tab that says it is up to date, with nothing on its way, is.
LEMMA AtRest ==
    ASSUME IInv, Quiet, tab.status = "ready"
    PROVE  /\ tab \in Tab /\ Kept(tab) /\ tab.healthy
           /\ Due(stream, notices) = {} /\ ~Some(stream, notices)
           /\ \A t : ~Planning(tab, t) /\ ~Patching(tab, t) /\ ~StarPends(tab, t)
  <1>1. tab \in Tab /\ Kept(tab) /\ Reconciles(tab)  BY DEF IInv, Sane
  <1>2. /\ notices = <<>> /\ stream.state = "ready" /\ stream.queue = <<>>
        /\ tab.job = None /\ tab.star = None
    BY DEF Quiet
  <1>3. DOMAIN notices = {} /\ DOMAIN stream.queue = {}  BY <1>2
  <1>4. \A t : ~Coming(t, stream, notices)  BY <1>2, <1>3 DEF Coming
  <1>5. tab.healthy /\ ~tab.recover /\ tab.pending = {}
    BY <1>1, <1>2 DEF Reconciles
  <1>6. \A t : ~Planning(tab, t) /\ ~Patching(tab, t) /\ ~StarPends(tab, t)
    BY <1>2, <1>5 DEF Planning, Patching, StarPends
  <1>7. Due(stream, notices) = {} /\ ~Some(stream, notices)
    BY <1>2, <1>4 DEF Due, Some
  <1>. QED  BY <1>1, <1>5, <1>6, <1>7

\* A tab that says it is up to date shows rows as they are stored, and no thread that
\* has left the view, whatever changes, streams that are lost and opened again, reads,
\* patches and recoveries that are interrupted have met: until the reader, since the
\* last recovery of the view, has left it, has asked for more below it, or has clicked
\* a star in vain (reconcileMailbox, mailbox-cache.ts).
THEOREM ShownRowsAreStored == Spec => []RowsAreTrue
  <1>1. ASSUME IInv, Quiet, tab.status = "ready", tab.steady
        PROVE  /\ Fresh(tab)
               /\ \A t \in ToSet(tab.pages[tab.view].ids) :
                    Current(t, tab.rows[t]) /\ tab.view \in stored[t].views
    <2>1. /\ tab \in Tab /\ Kept(tab) /\ tab.healthy /\ Due(stream, notices) = {}
          /\ \A t : ~Planning(tab, t) /\ ~Patching(tab, t) /\ ~StarPends(tab, t)
      BY <1>1, AtRest
    <2>2. tab.job = None  BY <1>1 DEF Quiet
    <2>3. Believes(tab)  BY <1>1, <2>1, <2>2 DEF Believes
    <2>4. Fresh(tab)  BY <1>1, <2>3 DEF IInv, Sane, Lists
    <2>5. PageAgrees(tab, Due(stream, notices), stored)
      BY <1>1 DEF IInv, Agrees
    <2>6. ASSUME NEW t \in ToSet(tab.pages[tab.view].ids)
          PROVE  Current(t, tab.rows[t]) /\ tab.view \in stored[t].views
      <3>1. RowAgrees(tab, t, stored)
        BY <2>1, <2>2, <2>3, <2>5, <2>6 DEF PageAgrees
      <3>2. t \in DOMAIN tab.rows /\ tab.rows \in Lines
        BY <2>1, <2>4, <2>6 DEF Kept, Fresh, Tab
      <3>3. tab.rows[t] \in Line  BY <3>2, LinesAre
      <3>4. /\ tab.rows[t].rev = stored[t].rev /\ tab.rows[t].at = stored[t].at
            /\ tab.rows[t].star = SummaryOf(stored[t]).star /\ tab.view \in stored[t].views
        BY <2>1, <3>1 DEF RowAgrees
      <3>5. t \in Threads /\ Bounded  BY <1>1, <3>2, LinesAre DEF IInv
      <3>6. Summary(t) \in Line /\ Summary(t).rev = stored[t].rev /\ Summary(t).at = stored[t].at
            /\ Summary(t).star = SummaryOf(stored[t]).star
        BY <3>5, SummaryIs
      <3>. QED  BY <3>3, <3>4, <3>6 DEF Current, Line
    <2>. QED  BY <2>4, <2>6
  <1>2. ASSUME IInv, TypeOK PROVE RowsAreTrue  BY <1>1, <1>2 DEF RowsAreTrue
  <1>. QED  BY Inductive, TypesHold, <1>2, PTL

\* So do the counts of the sidebar: no change is missed between two streams, by a patch
\* or by a recovery that is interrupted or fails (getMailboxSidebarCounts).
THEOREM ShownCountsAreStored == Spec => []CountsAreTrue
  <1>1. ASSUME IInv, Quiet, tab.status = "ready" PROVE tab.counts = SidebarCounts
    <2>1. ~Some(stream, notices) /\ tab.job = None  BY <1>1, AtRest DEF Quiet
    <2>2. CountsAgree(tab, Some(stream, notices), stored)
      BY <1>1 DEF IInv, Agrees
    <2>3. tab.counts = CountsOf(stored)  BY <1>1, <2>1, <2>2 DEF CountsAgree
    <2>. QED  BY <2>3, CountsAre
  <1>2. ASSUME IInv PROVE CountsAreTrue  BY <1>1, <1>2 DEF CountsAreTrue
  <1>. QED  BY Inductive, <1>2, PTL

\* The thread that is opened is the stored one: neither an earlier read nor a prefetch
\* that comes late replaces a later one (readVersion, hydrateThreadDetail).
THEOREM OpenedIsStored == Spec => []ReaderIsTrue
  <1>1. ASSUME IInv, Quiet, tab.status = "ready", tab.open # None, tab.shown.load = "available"
        PROVE  tab.open \in DOMAIN tab.details /\ tab.details[tab.open] = ThreadDetail(tab.open)
    <2>1. Due(stream, notices) = {} /\ ~Planning(tab, tab.open)  BY <1>1, AtRest
    <2>2. OpenAgrees(tab, Due(stream, notices), stored)
      BY <1>1 DEF IInv, Agrees
    <2>. QED  BY <1>1, <2>1, <2>2 DEF OpenAgrees, FoundIs, ThreadDetail
  <1>2. ASSUME IInv PROVE ReaderIsTrue  BY <1>1, <1>2 DEF ReaderIsTrue
  <1>. QED  BY Inductive, <1>2, PTL

\* A list that is shown and cannot be trusted is being read or has failed to be, an
\* opened thread that is loading is being read, and what events have asked for is being
\* done, whatever leaves the screen, fails or is interrupted (MailList, useThreadDetail,
\* reconcileMailbox).
THEOREM NobodyIsAwaited == Spec => []SomeoneReads
  <1>1. ASSUME IInv PROVE SomeoneReads
    <2>1. tab \in Tab /\ Reconciles(tab) /\ Opens(tab) /\ FirstRuns(tab)
      BY <1>1 DEF IInv, Sane
    <2>2. tab.view # None  BY <2>1, Nothing DEF Tab
    <2>3. tab.recovering # None => tab.job # None /\ tab.job.kind = "recover"
      BY <2>1 DEF Reconciles
    <2>4. tab.open = None /\ ~Fresh(tab) =>
            \/ tab.first # None /\ tab.first.view = tab.view
            \/ tab.job # None /\ tab.job.kind = "recover" /\ tab.job.view = tab.view
      BY <2>1, <2>2, <2>3 DEF FirstRuns, Reconciles
    <2>5. tab.open # None /\ tab.shown # None =>
            (tab.shown.thread # tab.open \/ tab.shown.load # "loading" \/ tab.detail # None)
      BY <2>1 DEF Opens
    <2>6. tab.recover \/ tab.pending # {} => tab.job # None
      BY <2>1 DEF Reconciles
    <2>. QED  BY <2>3, <2>4, <2>5, <2>6 DEF SomeoneReads
  <1>. QED  BY Inductive, <1>1, PTL
=============================================================================
