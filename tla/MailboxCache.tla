---------------------------- MODULE MailboxCache ----------------------------
(***************************************************************************)
(* One browser tab on the mailbox: the cache of pages, rows and opened     *)
(* threads (stores/mailbox), the reconciler that keeps it current          *)
(* (hooks/use-mailbox-events.ts), the reads of the list and of the reader, *)
(* and the stream of change events the API serves to it                    *)
(* (routes/mailbox-events.ts).                                             *)
(*                                                                         *)
(* A read is asked, answered by the database and applied in separate steps,*)
(* so that changes, events and other reads come between.  A read whose     *)
(* result the code would ignore -- aborted, or fenced off by               *)
(* recoveryVersion or readVersion -- is dropped at the moment it becomes   *)
(* so, which is all those counters do.  React runs the effects of a store  *)
(* write before the next task, so an effect is part of the step that       *)
(* changes what it depends on.                                             *)
(***************************************************************************)
EXTENDS Integers, FiniteSets, SequencesExt

CONSTANTS Threads,     \* thread ids: integers, as ties are broken by id
          Views,       \* the pages a reader can be on
          Everywhere,  \* the threads that are in every view at first, the others in Home
          Home,        \* the view the server rendered first
          Favored,     \* the threads an older message of which is starred at first
          None,
          PageSize,    \* MAILBOX_PAGE_SIZE
          MaxChanges,  \* committed changes of the stored mailbox
          MaxFaults,   \* failed reads, lost streams and subscriptions
          MaxActs,     \* things the reader does
          MaxEvents    \* all of these together

ASSUME ThreadsAssumption == Threads \subseteq Nat /\ IsFiniteSet(Threads)
ASSUME HomeAssumption == Home \in Views
ASSUME BoundsAssumption ==
  /\ PageSize \in Nat \ {0} /\ MaxChanges \in Nat /\ MaxFaults \in Nat /\ MaxActs \in Nat
  /\ MaxEvents \in Nat

VARIABLES
  stored,   \* the mailbox in the database: a row for every thread
  changes,  \* how many changes have been committed
  notices,  \* notifications the API has received and not yet delivered
  listens,  \* the API's subscription to notifications is up
  stream,   \* the event stream, with what the server wrote and the tab has not read
  tab,      \* the browser tab
  faults, acts

vars == <<stored, changes, notices, listens, stream, tab, faults, acts>>

-----------------------------------------------------------------------------
\* What is stored and what is cached of it

\* A message goes by the time it arrived: 0 if it was the latest at first, -1 if it
\* was older.
Message == -1..MaxChanges

\* A row: the last change that touched it, its latest message, the messages that are
\* starred, the views it is in, and whether the thread has been deleted.
Row == [rev: 0..MaxChanges, at: 0..MaxChanges, starred: SUBSET Message,
        views: SUBSET Views, gone: BOOLEAN]

\* What the tab keeps of a thread: the star of the list is that of any message, the
\* star of the reader that of the latest.
Line == [rev: 0..MaxChanges, at: 0..MaxChanges, star: BOOLEAN]
Lines == UNION {[ids -> Line] : ids \in SUBSET Threads}

SummaryOf(row) == [rev |-> row.rev, at |-> row.at, star |-> row.starred # {}]
DetailOf(row) == [rev |-> row.rev, at |-> row.at, star |-> row.at \in row.starred]

Summary(t) == SummaryOf(stored[t])

Position(t, row) == <<row.at, t>>

\* compareMailboxThreads: the latest message first, ties by id.
Newer(p, q) == p[1] > q[1] \/ (p[1] = q[1] /\ p[2] > q[2])

\* The ids in the order of their rows.
Sorted(ids, rows) ==
  CHOOSE s \in SetToSeqs(ids) :
    \A i, j \in DOMAIN s : i < j => Newer(Position(s[i], rows[s[i]]), Position(s[j], rows[s[j]]))

Overlay(rows, newer) ==
  [t \in DOMAIN rows \cup DOMAIN newer |-> IF t \in DOMAIN newer THEN newer[t] ELSE rows[t]]

Only(rows, ids) == [t \in DOMAIN rows \cap ids |-> rows[t]]

\* One page of a view.  A cursor is a set of at most one position: that of the row
\* above what is asked for, or nothing.
ListThreads(view, cursor) ==
  LET matching == {t \in Threads :
                     /\ view \in stored[t].views
                     /\ \A p \in cursor : Newer(p, Position(t, stored[t]))}
      newer(t, ids) == {u \in ids : Newer(Position(u, stored[u]), Position(t, stored[t]))}
      page == {t \in matching : Cardinality(newer(t, matching)) < PageSize}
      oldest == {t \in page : page \ newer(t, page) = {t}}
  IN [rows |-> [t \in page |-> Summary(t)], missing |-> {},
      older |-> IF page = matching THEN {} ELSE {Position(t, stored[t]) : t \in oldest}]

\* The rows a change event named, as a view shows them.
ListThreadsByIds(view, ids) ==
  LET present == {t \in ids : view \in stored[t].views}
  IN [rows |-> [t \in present |-> Summary(t)], missing |-> ids \ present, older |-> {}]

\* An opened thread, or None when it is not found.
ThreadDetail(t) == IF stored[t].gone THEN None ELSE DetailOf(stored[t])

\* getMailboxSidebarCounts.
SidebarCounts == [v \in Views |-> Cardinality({t \in Threads : v \in stored[t].views})]

\* A read that is answered keeps what it asked for.
Answered(read, result) == [read EXCEPT !.answered = TRUE, !.result = result]
Asked == [answered |-> FALSE, result |-> None]
Finished == [answered |-> TRUE, result |-> None]
AskedThread(t) == [answered |-> FALSE, result |-> None, thread |-> t]
AskedFirst(view) == [answered |-> FALSE, result |-> None, view |-> view, failed |-> FALSE]

-----------------------------------------------------------------------------
\* The tab.  A page is its threads in order, the cursor of what lies below and
\* whether it is stale; `detail` is the one read of an opened thread that still
\* counts, `shown` what the reader shows of it; `loading` holds the pages that say that
\* more is being loaded, `predicted` the star the reader shows in place of a stored one.

Cursor == SUBSET ((0..MaxChanges) \X Threads)
Page == [ids: Seq(Threads), older: Cursor, stale: BOOLEAN]
Event == [recover: BOOLEAN, ids: SUBSET Threads]

ListRead == [rows: Lines, missing: SUBSET Threads, older: Cursor]
ThreadRead == [answered: BOOLEAN, result: Line \cup {None}, thread: Threads]
FirstRead == [answered: BOOLEAN, result: ListRead \cup {None}, view: Views, failed: BOOLEAN]
MoreRead == [answered: BOOLEAN, result: ListRead \cup {None}, view: Views, cursor: Cursor]
Job == [kind: {"recover", "patch"}, view: Views, ids: SUBSET Threads,
        list: [answered: BOOLEAN, result: ListRead \cup {None}], counts: {Asked, Finished},
        awaits: BOOLEAN, failed: BOOLEAN]
Reader == [thread: Threads, source: {"mailbox", "reader"},
           load: {"loading", "available", "missing", "error"}]
Click == [thread: Threads, message: 0..MaxChanges, was: BOOLEAN,
          state: {"sent", "answered", "stored"}]
Prediction == [stored: BOOLEAN, star: BOOLEAN]

ASSUME NoneAssumption ==
  None \notin Views \cup Nat \cup Line \cup ListRead \cup ThreadRead \cup FirstRead
               \cup MoreRead \cup Job \cup Reader \cup Click \cup Prediction

HydratedPage(read, rows) ==
  [ids |-> Sorted(DOMAIN read.rows, rows), older |-> read.older, stale |-> FALSE]

Fresh(w) == w.view \in DOMAIN w.pages /\ ~w.pages[w.view].stale

\* Mutant of Listed: the end of a recovery does not run the effect.
ListedByPage(before, w) ==
  LET page(x) == {x.pages[v] : v \in {x.view} \cap DOMAIN x.pages}
  IN IF before.view = w.view /\ before.open = w.open /\ page(before) = page(w) THEN w
     ELSE [w EXCEPT !.first = IF w.open # None \/ Fresh(w) \/ w.recovering = w.view THEN None
                              ELSE AskedFirst(w.view)]

\* The effect of the list, which is there while no thread is open: a view without a
\* page, or with a stale one, reads its first page, unless a recovery is reading it.
Listed(before, w) ==
  LET page(x) == {x.pages[v] : v \in {x.view} \cap DOMAIN x.pages}
      same == /\ before.view = w.view
              /\ page(before) = page(w)
              /\ (before.recovering = before.view) <=> (w.recovering = w.view)
              /\ (before.open = None) <=> (w.open = None)
  IN IF same THEN w
     ELSE [w EXCEPT !.first = IF w.open # None \/ Fresh(w) \/ w.recovering = w.view THEN None
                              ELSE AskedFirst(w.view)]

\* Mutant of ReadDetail: a read of the same thread that is out will do.
ReadDetailOnce(w, t, source) ==
  [w EXCEPT !.shown = [thread |-> t, source |-> source, load |-> "loading"],
            !.detail = IF @ # None /\ @.thread = t THEN @ ELSE AskedThread(t),
            !.prefetch = None]

\* startThreadDetailRead: the newest read is the one that counts.
ReadDetail(w, t, source) ==
  [w EXCEPT !.shown = [thread |-> t, source |-> source, load |-> "loading"],
            !.detail = AskedThread(t),
            !.prefetch = None]

\* recoverMailbox up to its reads: every cached page becomes stale and every
\* earlier read is fenced off.
StartRecovery(w) ==
  LET cleared ==
        [w EXCEPT !.pages = [v \in DOMAIN @ |-> [@[v] EXCEPT !.stale = TRUE]],
                  !.loading = {},
                  !.details = Only(@, {w.open}),
                  !.shown = None, !.recovering = w.view,
                  !.first = None, !.more = None, !.detail = None, !.prefetch = None,
                  !.recover = FALSE, !.pending = {},
                  !.job = [kind |-> "recover", view |-> w.view, ids |-> {}, list |-> Asked,
                           counts |-> Asked,
                           awaits |-> w.open # None, failed |-> FALSE]]
  IN IF w.open = None THEN cleared ELSE ReadDetail(cleared, w.open, "mailbox")

\* patchMailbox up to its reads.
StartPatch(w) ==
  LET ids == w.pending
      cleared ==
        [w EXCEPT !.details = Only(@, Threads \ (ids \ {w.open})),
                  !.pending = {},
                  !.job = [kind |-> "patch", view |-> w.view, ids |-> ids, list |-> Asked,
                           counts |-> Asked,
                           awaits |-> w.open \in ids, failed |-> FALSE]]
  IN IF w.open \in ids THEN ReadDetail(cleared, w.open, "mailbox") ELSE cleared

\* The loop of reconcileMailbox.
Continued(w) ==
  IF w.recover THEN StartRecovery(w)
  ELSE IF w.pending # {} THEN StartPatch(w)
  ELSE [w EXCEPT !.job = None]

\* Mutant of RequestRecovery: a cache that was healthy is not read again.
RecoverUnlessHealthy(w, shouldInterrupt) ==
  IF w.healthy \/ (w.job # None /\ ~shouldInterrupt) THEN w
  ELSE Continued([w EXCEPT !.recover = TRUE])

\* requestRecovery: a handler that may interrupt aborts what is being read.
RequestRecovery(w, shouldInterrupt) ==
  LET asked == [w EXCEPT !.recover = TRUE, !.healthy = FALSE]
  IN IF w.job = None \/ shouldInterrupt THEN Continued(asked) ELSE asked

\* The end of a recovery or a patch.  A failed patch is followed by a recovery, a
\* failed recovery waits for the next event.
EndJob(w) ==
  LET recovery == w.job.kind = "recover"
      failed == w.job.failed
      healthy == IF failed THEN FALSE ELSE w.healthy \/ recovery
  IN Continued([w EXCEPT
       !.recovering = IF recovery THEN None ELSE @,
       !.healthy = healthy,
       !.recover = @ \/ (failed /\ ~recovery),
       !.status = IF failed THEN "waiting"
                  ELSE IF w.streamReady /\ healthy THEN "ready" ELSE @])

Settled(w) ==
  IF w.job # None /\ w.job.list = Finished /\ w.job.counts = Finished /\ ~w.job.awaits THEN EndJob(w) ELSE w

\* The star button of the reader is there while the opened thread is cached, and
\* with it what it predicts.
HasButton(w) == w.open \in DOMAIN w.details

Predicting(before, w) ==
  [w EXCEPT !.predicted = IF HasButton(before) /\ HasButton(w) THEN @ ELSE None]

\* The tab after a store write and the effects that follow it.
Becomes(w) == \E written \in {w} : tab' = Listed(tab, Predicting(tab, written))

-----------------------------------------------------------------------------
\* The initial state: the server has rendered Home into a new tab.

NewTab ==
  LET page == ListThreads(Home, {})
  IN [view |-> Home, open |-> None,
      pages |-> [v \in {Home} |-> HydratedPage(page, page.rows)],
      loading |-> {}, rows |-> page.rows, counts |-> SidebarCounts, details |-> <<>>,
      shown |-> None, recovering |-> None, predicted |-> None,
      first |-> None, more |-> None, detail |-> None, prefetch |-> None, star |-> None,
      job |-> None, recover |-> FALSE, pending |-> {}, healthy |-> FALSE,
      streamReady |-> FALSE, errored |-> FALSE, status |-> "waiting", steady |-> FALSE]

\* An event asks for a recovery or names threads; the one that names nothing tells
\* the tab that its stream is ready.
StreamReady == [recover |-> FALSE, ids |-> {}]

NewStream == [state |-> "connecting", queue |-> <<>>]

Init ==
  /\ stored = [t \in Threads |->
                 [rev |-> 0, at |-> 0, gone |-> FALSE,
                  starred |-> IF t \in Favored THEN {-1} ELSE {},
                  views |-> IF t \in Everywhere THEN Views ELSE {Home}]]
  /\ changes = 0 /\ notices = <<>> /\ listens = TRUE
  /\ stream = NewStream /\ tab = NewTab
  /\ faults = 0 /\ acts = 0

-----------------------------------------------------------------------------
\* The stored mailbox changes, and a notification goes out with the change.

Notified(event) == IF listens THEN Append(notices, event) ELSE notices

MoreHappens == changes + faults + acts < MaxEvents

Commit(t, row, event) ==
  /\ changes < MaxChanges /\ MoreHappens
  /\ changes' = changes + 1
  /\ stored' = [stored EXCEPT ![t] = [row EXCEPT !.rev = changes + 1]]
  /\ notices' = Notified(event)

\* A message arrives, the latest one is starred or loses its star, labels change or
\* the thread is deleted, and the event names the thread; or the replica is published and the event asks for a recovery.
Change(t) ==
  /\ ~stored[t].gone
  /\ LET row == stored[t]
         arrived == [row EXCEPT !.at = changes + 1]
         starred == [row EXCEPT !.starred = IF row.at \in @ THEN @ \ {row.at} ELSE @ \cup {row.at}]
         relabeled == {[row EXCEPT !.views = vs] : vs \in SUBSET Views \ {row.views}}
         deleted == [row EXCEPT !.views = {}, !.gone = TRUE]
     IN \/ \E next \in {arrived, starred, deleted} \cup relabeled :
             Commit(t, next, [recover |-> FALSE, ids |-> {t}])
        \/ Commit(t, arrived, [recover |-> TRUE, ids |-> {}])
  /\ UNCHANGED <<listens, stream, tab, faults, acts>>

-----------------------------------------------------------------------------
\* The API's side of the stream.

Fault == faults < MaxFaults /\ MoreHappens /\ faults' = faults + 1

Ended(s) == IF s.state \in {"opening", "ready"} THEN [s EXCEPT !.state = "ended"] ELSE s

\* deliverToUser: a stream that has not been told it is ready is ended, so that
\* it is opened again rather than miss the event.
Delivered(s, event) ==
  IF s.state = "ready" THEN [s EXCEPT !.queue = Append(@, event)] ELSE Ended(s)

Deliver ==
  /\ notices # <<>>
  /\ notices' = Tail(notices)
  /\ stream' = Delivered(stream, Head(notices))
  /\ UNCHANGED <<stored, changes, listens, tab, faults, acts>>

\* The stored event of a notification cannot be read: the user's streams end.
LookupFails ==
  /\ notices # <<>> /\ Fault
  /\ notices' = Tail(notices)
  /\ stream' = Ended(stream)
  /\ UNCHANGED <<stored, changes, listens, tab, acts>>

LoseSubscription ==
  /\ listens /\ Fault
  /\ listens' = FALSE
  /\ stream' = Ended(stream)
  /\ UNCHANGED <<stored, changes, notices, tab, acts>>

Subscribe ==
  /\ ~listens
  /\ listens' = TRUE
  /\ stream' = Ended(stream)
  /\ UNCHANGED <<stored, changes, notices, tab, faults, acts>>

\* The request of a stream: without a subscription it is answered with 503, which
\* an EventSource does not retry.
OpenStream ==
  /\ stream.state = "connecting"
  /\ stream' = [stream EXCEPT !.state = IF listens THEN "opening" ELSE "refused"]
  /\ UNCHANGED <<stored, changes, notices, listens, tab, faults, acts>>

\* The recovery context has been read: the tab is told that the stream is ready.
SayReady ==
  /\ stream.state = "opening"
  /\ stream' = [state |-> "ready", queue |-> Append(stream.queue, StreamReady)]
  /\ UNCHANGED <<stored, changes, notices, listens, tab, faults, acts>>

\* Reading it fails, or the connection breaks.
BreakStream ==
  /\ stream.state \in {"opening", "ready"} /\ Fault
  /\ \E kept \in {stream.queue, <<>>} : stream' = [state |-> "ended", queue |-> kept]
  /\ UNCHANGED <<stored, changes, notices, listens, tab, acts>>

-----------------------------------------------------------------------------
\* The tab's side of the stream.

HandleReady ==
  /\ stream.queue # <<>> /\ Head(stream.queue) = StreamReady
  /\ stream' = [stream EXCEPT !.queue = Tail(@)]
  /\ Becomes(RequestRecovery([tab EXCEPT !.streamReady = TRUE, !.errored = FALSE],
                                        TRUE))
  /\ UNCHANGED <<stored, changes, notices, listens, faults, acts>>

\* Mutant of Planned: an event about a thread that is not cached is ignored.
PlannedIfCached(w, event) ==
  IF event.recover THEN RequestRecovery(w, FALSE)
  ELSE LET named == [w EXCEPT !.pending = @ \cup (event.ids \cap DOMAIN w.rows)]
       IN IF w.job = None THEN Continued(named) ELSE named

\* planMailboxEvent and handleMailboxChange.
Planned(w, event) ==
  IF event.recover THEN RequestRecovery(w, FALSE)
  ELSE LET named == [w EXCEPT !.pending = @ \cup event.ids,
                              !.recover = @ \/ (~w.healthy /\ w.job = None)]
       IN IF w.job = None THEN Continued(named) ELSE named

HandleMailboxChange ==
  /\ stream.queue # <<>> /\ Head(stream.queue) # StreamReady
  /\ stream' = [stream EXCEPT !.queue = Tail(@)]
  /\ Becomes(Planned(tab, Head(stream.queue)))
  /\ UNCHANGED <<stored, changes, notices, listens, faults, acts>>

\* The stream is over: an EventSource that was refused stays closed.
HandleError ==
  /\ stream.queue = <<>>
  /\ \/ stream.state = "ended" /\ stream' = NewStream
     \/ stream.state = "refused" /\ stream' = [stream EXCEPT !.state = "closed"]
  /\ tab' = [tab EXCEPT !.streamReady = FALSE, !.errored = TRUE, !.status = "waiting"]
  /\ UNCHANGED <<stored, changes, notices, listens, faults, acts>>

-----------------------------------------------------------------------------
\* The reconciler's read of the list.

Pruned(w) ==
  [w EXCEPT !.rows = Only(@, UNION {ToSet(w.pages[v].ids) : v \in DOMAIN w.pages})]

\* replacePage, for a view the reader is still on.
Replaced(w, view, read) ==
  IF view # w.view THEN w
  ELSE LET rows == Overlay(w.rows, read.rows)
       IN Pruned([w EXCEPT !.rows = rows, !.steady = TRUE,
                           !.pages = Overlay(@, [v \in {view} |-> HydratedPage(read, rows)])])

\* coversThreadPosition: a row enters a page only inside the loaded window, which
\* ends at the page's last row when there is more below.
Covers(page, rows, t) ==
  \/ page.older = {} \/ page.ids = <<>>
  \/ ~Newer(Position(Last(page.ids), rows[Last(page.ids)]), Position(t, rows[t]))

\* applyMailboxThreadUpdates: the current page loses and gains rows; another page
\* that holds one of them becomes stale.
PatchedPage(page, read, rows) ==
  LET kept == ToSet(page.ids) \ read.missing
  IN [page EXCEPT !.ids =
        Sorted(kept \cup {t \in DOMAIN read.rows \ kept : Covers(page, rows, t)}, rows)]

TouchedPage(page, read, rows) ==
  IF ToSet(page.ids) \cap (DOMAIN read.rows \cup read.missing) = {} THEN page
  ELSE [page EXCEPT !.ids = Sorted(ToSet(page.ids), rows), !.stale = TRUE]

Patched(w, view, read) ==
  LET rows == Overlay(w.rows, read.rows)
  IN Pruned([w EXCEPT !.rows = rows,
       !.pages = [v \in DOMAIN @ |-> IF v = view THEN PatchedPage(@[v], read, rows)
                                     ELSE TouchedPage(@[v], read, rows)]])

ServeList ==
  /\ tab.job # None /\ tab.job.list = Asked
  /\ tab' = [tab EXCEPT !.job.list = Answered(@, IF tab.job.kind = "recover"
                                                 THEN ListThreads(tab.job.view, {})
                                                 ELSE ListThreadsByIds(tab.job.view, tab.job.ids))]
  /\ UNCHANGED <<stored, changes, notices, listens, stream, faults, acts>>

ListArrives ==
  /\ tab.job # None /\ tab.job.list \notin {Asked, Finished}
  /\ LET read == tab.job.list.result
         applied == IF tab.job.kind = "recover" THEN Replaced(tab, tab.job.view, read)
                    ELSE Patched(tab, tab.job.view, read)
     IN Becomes(Settled([applied EXCEPT !.job.list = Finished]))
  /\ UNCHANGED <<stored, changes, notices, listens, stream, faults, acts>>

ListFails ==
  /\ tab.job # None /\ tab.job.list = Asked /\ Fault
  /\ Becomes(Settled([tab EXCEPT !.job.list = Finished, !.job.failed = TRUE]))
  /\ UNCHANGED <<stored, changes, notices, listens, stream, acts>>

\* The counts of the sidebar, which a recovery and a patch read alike.  Nothing but
\* the reconciler writes or reads them: they are answered and applied in one step.
ReadCounts ==
  /\ tab.job # None /\ tab.job.counts = Asked
  /\ Becomes(Settled([tab EXCEPT !.counts = SidebarCounts, !.job.counts = Finished]))
  /\ UNCHANGED <<stored, changes, notices, listens, stream, faults, acts>>

CountsFail ==
  /\ tab.job # None /\ tab.job.counts = Asked /\ Fault
  /\ Becomes(Settled([tab EXCEPT !.job.counts = Finished, !.job.failed = TRUE]))
  /\ UNCHANGED <<stored, changes, notices, listens, stream, acts>>

-----------------------------------------------------------------------------
\* The read of the opened thread, whether the reader asked for it or the reconciler.

Known(w, t, rev) ==
  IF rev = None THEN Only(w.details, Threads \ {t})
  ELSE Overlay(w.details, [u \in {t} |-> rev])

\* A recovery or a patch also waits for the thread it reads.
Awaited(w, failed) ==
  IF w.shown.source = "mailbox"
  THEN Settled([w EXCEPT !.job.awaits = FALSE, !.job.failed = @ \/ failed]) ELSE w

ServeDetail ==
  /\ tab.detail # None /\ ~tab.detail.answered
  /\ tab' = [tab EXCEPT !.detail = Answered(@, ThreadDetail(tab.detail.thread))]
  /\ UNCHANGED <<stored, changes, notices, listens, stream, faults, acts>>

\* completeThreadDetailRead: a thread that is gone leaves the cache.
DetailArrives ==
  /\ tab.detail # None /\ tab.detail.answered
  /\ LET t == tab.detail.thread
         rev == tab.detail.result
         read == [tab EXCEPT !.detail = None, !.details = Known(tab, t, rev),
                             !.shown.load = IF rev = None THEN "missing" ELSE "available"]
     IN Becomes(Awaited(read, FALSE))
  /\ UNCHANGED <<stored, changes, notices, listens, stream, faults, acts>>

DetailFails ==
  /\ tab.detail # None /\ ~tab.detail.answered /\ Fault
  /\ Becomes(Awaited([tab EXCEPT !.detail = None, !.shown.load = "error"], TRUE))
  /\ UNCHANGED <<stored, changes, notices, listens, stream, acts>>

-----------------------------------------------------------------------------
\* The list's own reads.

ServeFirst ==
  /\ tab.first # None /\ ~tab.first.answered /\ ~tab.first.failed
  /\ tab' = [tab EXCEPT !.first = Answered(@, ListThreads(tab.first.view, {}))]
  /\ UNCHANGED <<stored, changes, notices, listens, stream, faults, acts>>

\* hydratePage of a page that is missing or stale.
FirstArrives ==
  /\ tab.first # None /\ tab.first.answered
  /\ LET read == tab.first.result
         rows == Overlay(tab.rows, read.rows)
     IN Becomes([tab EXCEPT
          !.first = None, !.rows = rows, !.loading = @ \ {tab.first.view},
          !.pages = Overlay(@, [v \in {tab.first.view} |-> HydratedPage(read, rows)])])
  /\ UNCHANGED <<stored, changes, notices, listens, stream, faults, acts>>

FirstFails ==
  /\ tab.first # None /\ ~tab.first.answered /\ ~tab.first.failed /\ Fault
  /\ tab' = [tab EXCEPT !.first.failed = TRUE]
  /\ UNCHANGED <<stored, changes, notices, listens, stream, acts>>

ServeMore ==
  /\ tab.more # None /\ ~tab.more.answered
  /\ tab' = [tab EXCEPT !.more = Answered(@, ListThreads(tab.more.view, tab.more.cursor))]
  /\ UNCHANGED <<stored, changes, notices, listens, stream, faults, acts>>

\* appendPage.
MoreArrives ==
  /\ tab.more # None /\ tab.more.answered
  /\ LET read == tab.more.result
         rows == Overlay(tab.rows, read.rows)
         view == tab.more.view
         ids == ToSet(tab.pages[view].ids) \cup DOMAIN read.rows
     IN Becomes([tab EXCEPT
          !.more = None, !.rows = rows, !.loading = @ \ {view},
          !.pages[view] = [@ EXCEPT !.ids = Sorted(ids, rows), !.older = read.older]])
  /\ UNCHANGED <<stored, changes, notices, listens, stream, faults, acts>>

\* The page shows that it failed, and offers to try again.
MoreFails ==
  /\ tab.more # None /\ ~tab.more.answered /\ Fault
  /\ tab' = [tab EXCEPT !.more = None, !.loading = @ \ {tab.more.view}]
  /\ UNCHANGED <<stored, changes, notices, listens, stream, acts>>

ServePrefetch ==
  /\ tab.prefetch # None /\ ~tab.prefetch.answered
  /\ tab' = [tab EXCEPT !.prefetch = Answered(@, ThreadDetail(tab.prefetch.thread))]
  /\ UNCHANGED <<stored, changes, notices, listens, stream, faults, acts>>

\* hydrateThreadDetail: not while the thread is being read, nor when it is missing.
MayHydrate(w, t) == w.shown = None \/ w.shown.thread # t \/ w.shown.load = "available"

PrefetchArrives ==
  /\ tab.prefetch # None /\ tab.prefetch.answered
  /\ LET t == tab.prefetch.thread
         rev == tab.prefetch.result
     IN tab' = [tab EXCEPT !.prefetch = None,
                  !.details = IF rev # None /\ MayHydrate(tab, t) THEN Known(tab, t, rev)
                              ELSE @]
  /\ UNCHANGED <<stored, changes, notices, listens, stream, faults, acts>>

-----------------------------------------------------------------------------
\* What the reader does.

Act == acts < MaxActs /\ MoreHappens /\ acts' = acts + 1

\* A change of location while the reconciler reads starts it again.
Moved(w) == IF w.job # None THEN RequestRecovery(w, TRUE) ELSE w

\* MailWorkspace shows the list of one view or the reader.  A list that leaves aborts
\* its reads, and a page that was loading more goes on saying so.
Unmounted(w) == [w EXCEPT !.first = None, !.more = None, !.prefetch = None]

SwitchView(view) ==
  /\ view # tab.view /\ Act
  /\ Becomes(Moved([Unmounted(tab) EXCEPT !.view = view, !.steady = FALSE]))
  /\ UNCHANGED <<stored, changes, notices, listens, stream, faults>>

\* The effect of useThreadDetail: it reads, also what is cached, unless a recovery
\* is reading the same thread.
Opened(w) ==
  IF w.open = None THEN [w EXCEPT !.detail = None]
  ELSE IF /\ w.shown # None /\ w.shown.thread = w.open
          /\ w.shown.source = "mailbox" /\ w.recovering # None
       THEN [w EXCEPT !.detail = None]
       ELSE ReadDetail(w, w.open, "reader")

Open(t) ==
  /\ t # tab.open /\ Act
  /\ Becomes(Moved(Opened([Unmounted(tab) EXCEPT !.open = t])))
  /\ UNCHANGED <<stored, changes, notices, listens, stream, faults>>

Reload ==
  /\ tab.open # None /\ tab.shown # None /\ tab.shown.load = "error" /\ Act
  /\ tab' = Opened(tab)
  /\ UNCHANGED <<stored, changes, notices, listens, stream, faults>>

\* A list that shows rows says nothing of a first page that could not be read.
RetryFirst ==
  /\ tab.first # None /\ tab.first.failed /\ Act
  /\ tab.view \in DOMAIN tab.pages => tab.pages[tab.view].ids = <<>>
  /\ tab' = [tab EXCEPT !.first = AskedFirst(tab.view)]
  /\ UNCHANGED <<stored, changes, notices, listens, stream, faults>>

\* The end of the list comes into sight, or a read below it is tried again.
LoadMore ==
  /\ tab.open = None /\ Fresh(tab) /\ tab.pages[tab.view].older # {}
  /\ tab.recovering # tab.view /\ tab.view \notin tab.loading /\ Act
  /\ tab' = [tab EXCEPT !.steady = FALSE, !.loading = @ \cup {tab.view},
               !.more = [answered |-> FALSE, result |-> None, view |-> tab.view,
                         cursor |-> tab.pages[tab.view].older]]
  /\ UNCHANGED <<stored, changes, notices, listens, stream, faults>>

Prefetch(t) ==
  /\ tab.open = None
  /\ tab.view \in DOMAIN tab.pages /\ t \in ToSet(tab.pages[tab.view].ids)
  /\ tab.prefetch = None /\ t \notin DOMAIN tab.details /\ Act
  /\ tab' = [tab EXCEPT !.prefetch = AskedThread(t)]
  /\ UNCHANGED <<stored, changes, notices, listens, stream, faults>>

\* The tab is looked at again.
Resume ==
  /\ Act
  /\ LET reconnects == tab.errored \/ stream.state = "closed"
         resumed == RequestRecovery(tab, TRUE)
     IN /\ stream' = IF reconnects THEN NewStream ELSE stream
        /\ Becomes(IF reconnects
                              THEN [resumed EXCEPT !.streamReady = FALSE, !.errored = FALSE]
                              ELSE resumed)
  /\ UNCHANGED <<stored, changes, notices, listens, faults>>

\* The star of the opened thread's latest message: the cached row shows it at once,
\* Gmail is written, and the catch-up that follows stores it with a change event.
PatchStar(w, t, star) == IF t \in DOMAIN w.rows THEN [w EXCEPT !.rows[t].star = star] ELSE w

ButtonStar(w, detail) ==
  IF w.predicted # None /\ w.predicted.stored = detail.star THEN w.predicted.star ELSE detail.star

Star(t) ==
  /\ tab.open = t /\ HasButton(tab) /\ tab.star = None /\ Act
  /\ LET detail == tab.details[t]
         was == ButtonStar(tab, detail)
     IN tab' = [PatchStar(tab, t, ~was) EXCEPT
                  !.star = [thread |-> t, message |-> detail.at, was |-> was, state |-> "sent"],
                  !.predicted = [stored |-> detail.star, star |-> ~was]]
  /\ UNCHANGED <<stored, changes, notices, listens, stream, faults>>

\* A row that shows another star than is stored, and no event to come for it.
Mended(w, t) == t \in DOMAIN w.rows => w.rows[t].star = Summary(t).star

\* A message that had the star already is not written, and no event follows.
StarStored ==
  /\ tab.star # None /\ tab.star.state \in {"sent", "answered"}
  /\ LET t == tab.star.thread
         m == tab.star.message
         starred == IF tab.star.was THEN stored[t].starred \ {m} ELSE stored[t].starred \cup {m}
         written == starred # stored[t].starred
     IN /\ IF written
           THEN Commit(t, [stored[t] EXCEPT !.starred = starred], [recover |-> FALSE, ids |-> {t}])
           ELSE UNCHANGED <<stored, changes, notices>>
        /\ tab' = [tab EXCEPT !.star = IF @.state = "answered" THEN None
                                       ELSE [@ EXCEPT !.state = "stored"],
                              !.steady = @ /\ (written \/ Mended(tab, t))]
  /\ UNCHANGED <<listens, stream, faults, acts>>

StarAnswered ==
  /\ tab.star # None /\ tab.star.state \in {"sent", "stored"}
  /\ tab' = [tab EXCEPT !.star = IF @.state = "stored" THEN None
                                 ELSE [@ EXCEPT !.state = "answered"]]
  /\ UNCHANGED <<stored, changes, notices, listens, stream, faults, acts>>

\* The request fails, before Gmail was written or after: the row is given the star
\* that the button showed.  That may not be what is stored: the row's star is that of
\* any message, the answer alone may be lost, or the click was made on a stale star.
StarFails ==
  /\ tab.star # None /\ tab.star.state \in {"sent", "stored"} /\ Fault
  /\ \E next \in IF tab.star.state = "sent" THEN {None, [tab.star EXCEPT !.state = "answered"]}
                 ELSE {None} :
       LET put == PatchStar(tab, tab.star.thread, tab.star.was)
       IN tab' = [put EXCEPT
                    !.star = next, !.predicted = None,
                    !.steady = @ /\ (next # None \/ Mended(put, tab.star.thread))]
  /\ UNCHANGED <<stored, changes, notices, listens, stream, acts>>

-----------------------------------------------------------------------------

Served == ServeList \/ ReadCounts \/ ServeDetail \/ ServeFirst \/ ServeMore \/ ServePrefetch
Arrived == ListArrives \/ DetailArrives \/ FirstArrives \/ MoreArrives \/ PrefetchArrives
Streamed == \/ Deliver \/ Subscribe \/ OpenStream \/ SayReady
            \/ HandleReady \/ HandleMailboxChange \/ HandleError
Proceeds == Served \/ Arrived \/ Streamed

Failed == \/ LookupFails \/ LoseSubscription \/ BreakStream
          \/ ListFails \/ CountsFail \/ DetailFails \/ FirstFails \/ MoreFails \/ StarFails

Next ==
  \/ \E t \in Threads : Change(t) \/ Star(t) \/ Prefetch(t)
  \/ \E t \in Threads \cup {None} : Open(t)
  \/ \E view \in Views : SwitchView(view)
  \/ Reload \/ RetryFirst \/ LoadMore \/ Resume \/ StarStored \/ StarAnswered
  \/ Proceeds \/ Failed

Spec == Init /\ [][Next]_vars

-----------------------------------------------------------------------------
\* Properties

TypeOK ==
  /\ stored \in [Threads -> Row]
  /\ listens \in BOOLEAN /\ changes \in 0..MaxChanges
  /\ faults \in 0..MaxFaults /\ acts \in 0..MaxActs
  /\ notices \in Seq(Event)
  /\ stream \in [state: {"connecting", "opening", "ready", "ended", "refused", "closed"},
                 queue: Seq(Event)]
  /\ tab.view \in Views /\ tab.open \in Threads \cup {None}
  /\ DOMAIN tab.pages \subseteq Views /\ DOMAIN tab.details \subseteq Threads
  /\ \A v \in DOMAIN tab.pages : ToSet(tab.pages[v].ids) \subseteq DOMAIN tab.rows
  /\ tab.job \in Job \cup {None} /\ tab.detail \in ThreadRead \cup {None}
  /\ tab.shown \in Reader \cup {None} /\ tab.star \in Click \cup {None}
  /\ tab.loading \subseteq Views /\ tab.predicted \in Prediction \cup {None}
  /\ tab.status \in {"waiting", "ready"}

\* Nothing is on its way to the tab.
Quiet ==
  /\ notices = <<>> /\ stream.state = "ready" /\ stream.queue = <<>>
  /\ tab.job = None /\ tab.first = None /\ tab.more = None
  /\ tab.detail = None /\ tab.star = None

Current(t, row) == row = Summary(t)

\* A tab that says it is up to date shows rows as they are stored, and no thread
\* that has left the view, whatever streams, reads, patches and recoveries met: until
\* the reader, since the last recovery of that view, has left it, has asked for more
\* below it, or has clicked a star in vain (StarFails, StarStored).
RowsAreTrue ==
  /\ TypeOK
  /\ Quiet /\ tab.status = "ready" /\ tab.steady =>
    /\ Fresh(tab)
    /\ \A t \in ToSet(tab.pages[tab.view].ids) :
         Current(t, tab.rows[t]) /\ tab.view \in stored[t].views

\* So do the counts of the sidebar, wherever the reader has gone meanwhile: no
\* change is missed between streams, by a patch or by an interrupted recovery.
CountsAreTrue == Quiet /\ tab.status = "ready" => tab.counts = SidebarCounts

\* The opened thread is the stored one when the tab says it is up to date: neither
\* an earlier read nor a prefetch that comes late replaces a later one.
ReaderIsTrue ==
  /\ Quiet /\ tab.status = "ready"
  /\ tab.open # None /\ tab.shown.thread = tab.open /\ tab.shown.load = "available"
  => tab.open \in DOMAIN tab.details /\ tab.details[tab.open] = ThreadDetail(tab.open)

\* A list that is shown and cannot be trusted is being read, by itself or by the
\* recovery, or has failed to be read; an opened thread that is loading is being read;
\* and what events have asked for is being done, whatever leaves the screen, fails or
\* is interrupted.  A page that says it is loading more is not among these (see
\* LoadingIsRead).
SomeoneReads ==
  /\ tab.open = None /\ ~Fresh(tab) =>
       \/ tab.first # None /\ tab.first.view = tab.view
       \/ tab.job # None /\ tab.job.kind = "recover" /\ tab.job.view = tab.view
  /\ tab.open # None /\ tab.shown # None =>
       (tab.shown.thread # tab.open \/ tab.shown.load # "loading" \/ tab.detail # None)
  /\ tab.recovering # None => tab.job # None /\ tab.job.kind = "recover"
  /\ tab.recover \/ tab.pending # {} => tab.job # None

\* "Loading more mail": the page that says so has asked for it.
LoadingIsRead ==
  tab.open = None /\ Fresh(tab) /\ tab.view \in tab.loading => tab.more # None

\* "the mailbox change event that follows the Gmail write reconciles it against stored
\* state": a row that the event has reconciled stays so when the click is answered.
StarsAreReconciled ==
  [][tab.star # None /\ tab.star.state = "stored" /\ stored' = stored =>
       \A t \in {tab.star.thread} \cap DOMAIN tab.rows \cap DOMAIN tab'.rows :
         tab.rows[t] = Summary(t) => tab'.rows[t] = Summary(t)]_vars

\* "Set when a mailbox change event reconciled a different view, so this page's
\* membership can no longer be trusted": a cached page that is not stale holds the
\* threads of its view.
CachedPagesAreTrue ==
  Quiet /\ tab.status = "ready" =>
    \A v \in DOMAIN tab.pages \ {tab.view} :
      ~tab.pages[v].stale /\ tab.pages[v].older = {} =>
        ToSet(tab.pages[v].ids) = {t \in Threads : v \in stored[t].views}

=============================================================================
