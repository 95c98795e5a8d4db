------------------------------ MODULE Journal ------------------------------
(***************************************************************************)
(* The two journals a client reads page by page: the releases of an app    *)
(* and the events of a project.  Rows are only ever added.  A row carries  *)
(* the time its INSERT began, so it may become visible after rows that     *)
(* carry a later time, and several rows may carry the same one; ids are    *)
(* random.  Rows are read newest first, by time and then id.               *)
(***************************************************************************)
EXTENDS Naturals, FiniteSets, Sequences, SequencesExt

CONSTANTS
    MaxRows,      \* bound on the rows of both journals; ids are 1..MaxRows
    PageLimit,    \* rows of a page, after clamping
    EventKinds,   \* kinds of project events
    IngestLimit,  \* maxEventIngestBatch
    MaxBatch      \* bound on the events of an uploaded batch

ASSUME JournalAssumption == PageLimit \in Nat \ {0} /\ IngestLimit \in Nat /\ MaxBatch \in Nat

VARIABLES
    releases, \* the releases of an app
    events,   \* the project_events of a project
    instant,  \* the database's clock
    appLive,  \* the app is not deleted
    walk,     \* a client that follows the cursors from the first page on
    batch     \* an upload to the event bridge

journalVars == <<releases, events, instant, appLive, walk, batch>>

NoWalk == [of |-> "none", pc |-> "idle", kinds |-> {}, cursor |-> <<>>, got |-> <<>>, start |-> {}]
NoBatch == [pc |-> "idle", todo |-> <<>>, total |-> 0, accepted |-> 0, dropped |-> 0,
            size |-> 0, stored |-> 0, unsure |-> 0]

JournalInit ==
    /\ releases = {} /\ events = {} /\ instant = 1 /\ appLive = TRUE
    /\ walk = NoWalk /\ batch = NoBatch

-----------------------------------------------------------------------------
Older(r, s) == r.at < s.at \/ (r.at = s.at /\ r.id < s.id)
NewestFirst(rows) == SetToSortSeq(rows, LAMBDA r, s : Older(s, r))
FirstOf(s, n) == SubSeq(s, 1, IF Len(s) < n THEN Len(s) ELSE n)

\* An INSERT that began now or one instant ago; its id is a fresh UUID.
Rows(table, kinds) ==
    {[id |-> i, at |-> t, kind |-> k] :
       i \in {i \in 1..MaxRows : /\ \A r \in table : r.id # i
                                /\ Cardinality(releases) + Cardinality(events) < MaxRows},
       t \in {instant, instant - 1}, k \in kinds}

ClockTicks ==
    /\ instant < 2 /\ instant' = instant + 1
    /\ UNCHANGED <<releases, events, appLive, walk, batch>>

CreateRelease ==
    /\ \E r \in Rows(releases, {"release"}) : releases' = releases \cup {r}
    /\ UNCHANGED <<events, instant, appLive, walk, batch>>

InsertProjectEvent(table, r) == events' = table \cup {r}

AppendProjectEvent ==
    /\ \E r \in Rows(events, EventKinds) : InsertProjectEvent(events, r)
    /\ UNCHANGED <<releases, instant, appLive, walk, batch>>

DeleteJournalApp ==
    /\ appLive /\ appLive' = FALSE
    /\ UNCHANGED <<releases, events, instant, walk, batch>>

-----------------------------------------------------------------------------
(* Reading page by page.                                                   *)

\* One client per behaviour: to a walk, an upload is the appends it makes.
StartWalk ==
    /\ walk.pc = "idle" /\ batch.pc = "idle"
    /\ \/ walk' = [NoWalk EXCEPT !.of = "releases", !.pc = "page", !.start = releases]
       \/ \E ks \in SUBSET EventKinds :
             walk' = [NoWalk EXCEPT !.of = "events", !.pc = "page", !.kinds = ks,
                        !.start = {r \in events : ks # {} => r.kind \in ks}]
    /\ UNCHANGED <<releases, events, instant, appLive, batch>>

\* The client receives a page; without a next cursor it has read everything.
Receive(page, next) ==
    walk' = [walk EXCEPT !.got = @ \o page, !.cursor = next,
                         !.pc = IF next = <<>> THEN "done" ELSE "page"]

\* The query of ListReleasesByApp: strictly after the cursor, limit + 1 rows.
ListReleasesByApp(cursor, limit) ==
    FirstOf(NewestFirst({r \in releases : cursor # <<>> => Older(r, cursor[1])}), limit)

\* Mutant: the next cursor is the first release that was left out.
cursorOfNext ==
    /\ walk.of = "releases" /\ walk.pc = "page"
    /\ LET rows == ListReleasesByApp(walk.cursor, PageLimit + 1)
       IN  Receive(FirstOf(rows, PageLimit),
                   IF Len(rows) > PageLimit THEN <<rows[PageLimit + 1]>> ELSE <<>>)
    /\ UNCHANGED <<releases, events, instant, appLive, batch>>

\* The cursor is the id of the last release returned, looked up again.
ListAppReleases ==
    /\ walk.of = "releases" /\ walk.pc = "page"
    /\ IF ~appLive THEN walk' = [walk EXCEPT !.pc = "error"]
       ELSE LET rows == ListReleasesByApp(walk.cursor, PageLimit + 1)
            IN  Receive(FirstOf(rows, PageLimit),
                        IF Len(rows) > PageLimit THEN <<rows[PageLimit]>> ELSE <<>>)
    /\ UNCHANGED <<releases, events, instant, appLive, batch>>

\* Mutant: a page continues after the instant of the cursor.
listOlderInstants ==
    /\ walk.of = "events" /\ walk.pc = "page"
    /\ LET match == {r \in events : /\ walk.kinds # {} => r.kind \in walk.kinds
                                    /\ walk.cursor # <<>> => r.at < walk.cursor[1].at}
           rows == FirstOf(NewestFirst(match), PageLimit + 1)
       IN  Receive(FirstOf(rows, PageLimit),
                   IF Len(rows) > PageLimit THEN <<rows[PageLimit + 1]>> ELSE <<>>)
    /\ UNCHANGED <<releases, events, instant, appLive, batch>>

\* encodeEventCursor and decodeEventCursor keep time and id; here the cursor
\* is that of the first event left out.
ListProjectEvents ==
    /\ walk.of = "events" /\ walk.pc = "page"
    /\ LET match == {r \in events : /\ walk.kinds # {} => r.kind \in walk.kinds
                                    /\ walk.cursor # <<>> => Older(r, walk.cursor[1])}
           rows == FirstOf(NewestFirst(match), PageLimit + 1)
       IN  Receive(FirstOf(rows, PageLimit),
                   IF Len(rows) > PageLimit THEN <<rows[PageLimit + 1]>> ELSE <<>>)
    /\ UNCHANGED <<releases, events, instant, appLive, batch>>

-----------------------------------------------------------------------------
(* The event bridge.                                                       *)

\* Mutant: the size of an oversized batch is taken after it was cut.
countAfterCut(items) ==
    /\ batch.pc = "idle" /\ walk.pc = "idle"
    /\ batch' = [NoBatch EXCEPT !.pc = "run", !.size = Len(items),
                   !.todo = FirstOf(items, IngestLimit), !.total = Len(FirstOf(items, IngestLimit)),
                   !.dropped = Len(items) - Len(FirstOf(items, IngestLimit))]
    /\ UNCHANGED <<releases, events, instant, appLive, walk>>

\* A batch of complete and incomplete events, cut at the limit.
IngestProjectEvents(items) ==
    LET kept == FirstOf(items, IngestLimit)
        over == Len(items) - Len(kept)
    IN  /\ batch.pc = "idle" /\ walk.pc = "idle"
        /\ batch' = [NoBatch EXCEPT !.pc = "run", !.size = Len(items), !.todo = kept,
                                    !.dropped = over, !.total = Len(kept) + over]
        /\ UNCHANGED <<releases, events, instant, appLive, walk>>

\* One event: dropped when incomplete, else appended; an append that fails is
\* dropped too, and its row may be there nevertheless when the answer was lost.
IngestEvent ==
    LET rest == [batch EXCEPT !.todo = Tail(@)] IN
    /\ batch.pc = "run" /\ batch.todo # <<>>
    /\ \/ /\ Head(batch.todo) = "incomplete"
          /\ batch' = [rest EXCEPT !.dropped = @ + 1] /\ UNCHANGED events
       \/ /\ Head(batch.todo) = "complete"
          /\ \/ \E r \in Rows(events, EventKinds) :
                  /\ InsertProjectEvent(events, r)
                  /\ \/ batch' = [rest EXCEPT !.accepted = @ + 1, !.stored = @ + 1]
                     \/ batch' = [rest EXCEPT !.dropped = @ + 1, !.stored = @ + 1, !.unsure = @ + 1]
             \/ batch' = [rest EXCEPT !.dropped = @ + 1] /\ UNCHANGED events
    /\ UNCHANGED <<releases, instant, appLive, walk>>

IngestAnswer ==
    /\ batch.pc = "run" /\ batch.todo = <<>>
    /\ batch' = [batch EXCEPT !.pc = "done"]
    /\ UNCHANGED <<releases, events, instant, appLive, walk>>

JournalNext ==
    \/ ClockTicks \/ CreateRelease \/ AppendProjectEvent \/ DeleteJournalApp
    \/ StartWalk \/ ListAppReleases \/ ListProjectEvents
    \/ \E n \in 1..MaxBatch : \E items \in [1..n -> {"complete", "incomplete"}] :
          IngestProjectEvents(items)
    \/ IngestEvent \/ IngestAnswer

JournalSpec == JournalInit /\ [][JournalNext]_journalVars

-----------------------------------------------------------------------------
CompleteWalk ==
    walk.pc = "done" =>
      /\ walk.start \subseteq ToSet(walk.got)
      /\ IsInjective(walk.got)

\* A client that follows nextCursor to the end has seen every release there was
\* when it began, and none twice, whatever releases were recorded meanwhile and
\* whatever times they carry (ListAppReleases, ListReleasesByApp).
ReleaseWalkComplete == walk.of = "releases" => CompleteWalk

\* A client that follows nextCursor through the project events sees each event
\* once and newest first, whatever is appended meanwhile.  It does not see all:
\* each cursor names an event that no page shows, and those are the only ones of
\* the first page's time that it misses (store.ListProjectEvents).
EventWalkLoss ==
    walk.of = "events" =>
      /\ \A i, j \in 1..Len(walk.got) : i < j => Older(walk.got[j], walk.got[i])
      /\ walk.pc = "done" =>
           Cardinality(walk.start \ ToSet(walk.got)) * PageLimit <= Len(walk.got)

\* The summary of an upload accounts for every event of it, and accepted events
\* are in the journal; an event counted as dropped may be there too, when only
\* the answer of its INSERT was lost (IngestProjectEvents).
IngestAccounts ==
    batch.pc = "done" =>
      /\ batch.accepted + batch.dropped = batch.size /\ batch.total = batch.size
      /\ batch.accepted + batch.unsure = batch.stored
      /\ Cardinality(events) >= batch.stored
=============================================================================
